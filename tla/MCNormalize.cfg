SPECIFICATION Spec
CONSTANTS
    Sources <- MCSources
    Contained <- MCContained
    Broken <- MCBroken
    Lower <- MCLower
    NoFolder = NoFolder
    NoArchive = NoArchive
    MaxNestedDepth = 2
    MaxNestedArchives = 4
    MaxArchiveEntries = 6
    MaxExpandedBytes = 5
    PreviewDepth = 2
    PreviewArchives = 4
    PreviewEntries = 6
    PreviewSpool = 4
INVARIANTS
    TypeOK
    UniqueNames
    NothingLost
    WithinLimits
    PreviewAgrees
CHECK_DEADLOCK FALSE
