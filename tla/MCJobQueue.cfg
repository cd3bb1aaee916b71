\* Two workers, two concurrent callers, a channel of one slot and three jobs:
\* the smallest instance in which the channel is full while both workers run.
SPECIFICATION FairSpec
CONSTANTS
    Jobs = {j1, j2, j3}
    Workers = {w1, w2}
    Submitters = {s1, s2}
    Capacity = 1
    NoJob = NoJob
INVARIANTS
    TypeOK
    OneHolder
    NoJobStranded
    RunningIsCancellable
    QuietMeansIdle
PROPERTIES
    SettledStays
    CancelledOnRequest
    LifecycleSpec
    QueuedSettles
    CloseCompletes
