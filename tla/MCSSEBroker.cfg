SPECIFICATION FairSpec
CONSTANTS
    Handlers = {h1, h2}
    BufSize = 1
    MaxMsgs = 3
INVARIANTS
    TypeOK
    NoPanic
    NoSkip
PROPERTIES
    FeedSpec
    StreamEnds
CHECK_DEADLOCK FALSE
