SPECIFICATION FairSpec
CONSTANTS
    Clients = {c1}
    BufSize = 2
    MaxMsgs = 4
INVARIANTS
    TypeOK
    NoPanic
    NoSkip
PROPERTIES
    FeedSpec
    ClientEnds
CHECK_DEADLOCK FALSE
