SPECIFICATION FairSpec
CONSTANTS
    Slots = {f1, f2}
    MaxRounds = 2
    MaxVersion = 2
    MaxWire = 1
INVARIANTS
    TypeOK
    OneSource
    NeverSilent
    StopReleases
PROPERTIES
    FetchesInOrder
    CatchesUp
CHECK_DEADLOCK FALSE
