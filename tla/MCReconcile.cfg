\* A mode and a direct request over four small libraries, with a job that
\* publishes and a request that empties the quarantine.
SPECIFICATION Spec
CONSTANTS
    a = a  b = b  c = c  n = n  old = old  k = k  l = l  m = m
    w = w  v1 = v1  v2 = v2  none = none
    nopath = nopath
    Names = {a, b, c, n}
    Usable = {a, b, c, n}
    Work <- MCWork
    Volume <- MCVolume
    NoVolume = none
    Roots = {old}
    Contents = {k, l, m}
    Times <- MCTimes
    Modes = {manage}
    Handlers = {direct}
    Layouts <- MCLayouts
    Jobs <- MCJobs
    NoPath = nopath
    NoRunner = nopath
    MaxRuns = 3
    MaxStops = 1
    MaxDeletes = 1
INVARIANTS
    TypeOK
    RunningIsWork
    OffersWholeReport
    VolumeStaysActive
PROPERTIES
    NoCopyLost

CHECK_DEADLOCK FALSE
