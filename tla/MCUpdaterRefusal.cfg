\* An update whose installer does not finish its work.
SPECIFICATION Spec
CONSTANTS
    Versions <- MCVersions
    First = 1
    Checkers = {c1}
    MaxStarts = 1
    MaxRestarts = 0
INVARIANTS
    RefusalIsTrue
