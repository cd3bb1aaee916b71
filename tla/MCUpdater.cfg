\* One handler of Check, two updates, one crash; the release may change at every fetch.
SPECIFICATION FairSpec
CONSTANTS
    Versions <- MCVersions
    First = 1
    Checkers = {c1}
    MaxStarts = 2
    MaxRestarts = 1
INVARIANTS
    TypeOK
    VerifiedOnly
    BusyMeansWork
    OneRun
PROPERTIES
    LaunchUpgrades
    RunEnds
