\* Two archives whose destinations share a normalized partial.
SPECIFICATION Spec
CONSTANTS
    a = a  b = b  c = c  d = d  t = t  u = u  k = k  l = l  m = m  n = n  x = x  y = y
    Workers = {w1, w2}
    Targets = {t, u}
    Contents = {k, l, m, n}
    Times <- MCTimes
    NoFile = NoFile
    NoWorker = NoWorker
    NoSource = NoSource
    Sources = {a, b}
    Dests = {x, y}
    Kind <- TwinKind
    Outputs <- TwinOutputs
    ModTime <- TwinModTime
    Entries <- TwinEntries
    Dest <- TwinDest
    SameVolume <- TwinVolume
    OutputInRoot = TRUE
    MaxRuns = 2
    MaxCrashes = 0
INVARIANTS
    ContentKept
