CONSTANTS
    Cids <- AllCids
    WithData <- OnlyGets
    WithAnswer <- OnlyGets
    CidSize = 2
    DataSize = 1
    CrcSize = 1
    BurstSize = 2
    RetryCount = 2
    MaxExchanges = 2
    MaxLine = 3
SPECIFICATION FairSpec
CHECK_DEADLOCK FALSE
INVARIANTS
    TypeOK
    ResultMeans
    LostMeansSilent
PROPERTY
    ExchangeEnds
