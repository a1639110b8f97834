SPECIFICATION FairSpec
CONSTANTS
    kimi = kimi
    zai = zai
    Platforms = {kimi, zai}
    Ticker = ticker
    MaxVersion <- MCMaxVersion
INVARIANTS
    TypeOK
    BatchIsFresh
    GaugesAgree
PROPERTIES
    Settles
CHECK_DEADLOCK FALSE
