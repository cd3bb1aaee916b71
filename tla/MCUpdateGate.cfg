\* One update request and one archive job.
SPECIFICATION GateSpec
CONSTANTS
    Versions <- MCVersions
    First = 1
    Checkers = {}
    MaxStarts = 1
    MaxRestarts = 0
    Jobs = {j1}
    Workers = {w1}
    NoJob = NoJob
    Requests = {r1}
INVARIANTS
    InstallWhileQuiet
\* One request is all there is: afterwards nothing more may happen.
CHECK_DEADLOCK FALSE
