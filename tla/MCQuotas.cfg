SPECIFICATION FairSpec
CONSTANTS
    MaxInt = 999999
    Kinds = {"kimi", "minimax", "monitor", "cpa"}
    MaxStale = 60
    MaxVersion = 2
    TimePoints <- MCTimePoints
    Reports <- MCReports
    AuthFiles <- MCAuthFiles
    AccountUsages <- MCAccountUsages
INVARIANTS
    TypeOK
    ShownIsReported
    StaleNeverServed
    PoolSound
PROPERTY
    FetchEnds
CHECK_DEADLOCK FALSE
