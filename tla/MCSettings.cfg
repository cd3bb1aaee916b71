\* A change of folders, two changes of an alias, and a scan.
SPECIFICATION FairSpec
CONSTANTS
    d = d  e = e  a = a  folder = folder  edit1 = edit1  edit2 = edit2
    i1 = i1  i2 = i2  i3 = i3
    none = none  empty = empty  broken = broken
    Folders = {d, e}
    Default = d
    Aliases = {a}
    Foldering = folder
    Editors = {edit1}
    Inodes = {i1, i2, i3}
    None = none
    Empty = empty
    Torn = broken
    MaxSaves = 2
    MaxFaults = 2
INVARIANTS
    TypeOK
    PlansAreCurrent
    FileReadable
    ResolvedIsFresh
PROPERTIES
    AllOrNothing
    Settles
CHECK_DEADLOCK FALSE
