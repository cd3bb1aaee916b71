\* An archive processed again after a crash.
SPECIFICATION Spec
CONSTANTS
    a = a  b = b  c = c  d = d  t = t  u = u  k = k  l = l  m = m  n = n  x = x  y = y
    Workers = {w1}
    Targets = {t, u}
    Contents = {k, l, m, n}
    Times <- MCTimes
    NoFile = NoFile
    NoWorker = NoWorker
    NoSource = NoSource
    Sources = {a, b, c, d}
    Dests = {x, y}
    Kind <- MixedKind
    Outputs <- MixedOutputs
    ModTime <- MixedModTime
    Entries <- MixedEntries
    Dest <- MixedDest
    SameVolume <- MixedVolume
    OutputInRoot = TRUE
    MaxRuns = 3
    MaxCrashes = 1
PROPERTIES
    StaleReplaced
