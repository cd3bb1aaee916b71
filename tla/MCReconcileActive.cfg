\* A newer duplicate in quarantine, and scans that include it.
SPECIFICATION Spec
CONSTANTS
    a = a  b = b  c = c  n = n  old = old  k = k  l = l  m = m
    w = w  v1 = v1  v2 = v2  none = none
    nopath = nopath
    Names = {a, b, c, n}
    Usable = {a, b, c, n}
    Work <- MCWork
    Volume <- MCVolume
    NoVolume = none
    Roots = {old}
    Contents = {k, l, m}
    Times <- MCTimes
    Modes = {manage}
    Handlers = {direct}
    Layouts <- DuplicateOnly
    Jobs <- MCJobs
    NoPath = nopath
    NoRunner = nopath
    MaxRuns = 2
    MaxStops = 1
    MaxDeletes = 1
INVARIANTS
    VolumeNeverVanishes
CHECK_DEADLOCK FALSE
