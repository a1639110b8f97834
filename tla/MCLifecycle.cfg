SPECIFICATION FairSpec
CONSTANTS
    NoFile = NoFile
    ApiClients = {a1}
    MetricsClients = {m1}
    MinTimeout = 5
    MinShare = 1
    Upper <- MCUpper
    Lower <- MCLower
    Files <- MCFiles
    Envs <- MCEnvs
INVARIANTS
    TypeOK
    RunsAsConfigured
    EveryoneAsked
    NilMeansQuiet
PROPERTIES
    OnlySlowTimesOut
    WorkersSpec
    Terminates
CHECK_DEADLOCK FALSE
