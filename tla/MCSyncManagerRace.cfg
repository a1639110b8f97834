SPECIFICATION Spec
CONSTANTS
    capped = capped
    uncapped = uncapped
    s1 = s1
    Providers = {capped, uncapped}
    Stoppers = {s1}
    BackoffInitial <- MCBackoffInitial
    BackoffMax <- MCBackoffMax
    OneSecond = 3
    DurationMax = 15
    MaxFails = 1
INVARIANTS
    StopWaitsAlways
CHECK_DEADLOCK FALSE
