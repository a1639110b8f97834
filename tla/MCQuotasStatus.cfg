SPECIFICATION Spec
CONSTANTS
    MaxInt = 999999
    Kinds = {"kimi", "minimax", "monitor", "cpa"}
    MaxStale = 60
    MaxVersion = 2
    TimePoints <- MCTimePoints
    Reports <- MCReports
    AuthFiles <- MCAuthFiles
    AccountUsages <- MCAccountUsages
INVARIANT
    DegradedWhenStale
CHECK_DEADLOCK FALSE
