SPECIFICATION FairSpec
CONSTANTS
    Slots = {f1, f2}
    MaxRounds = 1
    MaxVersion = 1
    MaxWire = 1
PROPERTIES
    FramesAreShown
CHECK_DEADLOCK FALSE
