SPECIFICATION FairSpec
CONSTANTS
    capped = capped
    uncapped = uncapped
    s1 = s1
    Providers = {capped, uncapped}
    Stoppers = {s1}
    BackoffInitial <- MCBackoffInitial
    BackoffMax <- MCBackoffMax
    OneSecond = 3
    DurationMax = 15
    MaxFails = 4
INVARIANTS
    TypeOK
    RefreshHonoured
    BackoffSchedule
    BackoffBounded
    StopWaits
PROPERTIES
    RefreshServed
    StopEnds
    WorkersSpec
CHECK_DEADLOCK FALSE
