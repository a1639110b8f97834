SPECIFICATION BothSpec
CONSTANTS
    Handlers = {h1}
    Clients = {c1}
    BufSize = 1
    MaxMsgs = 0
PROPERTIES
    StopEndsAKind
CHECK_DEADLOCK FALSE
