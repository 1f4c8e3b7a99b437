SPECIFICATION RangeSpec
CONSTANTS
    Modulus = 32
    MinHead = 2
    MaxHead = 11
    BlockConfirmations = 2
    MaxBlockRangeSize = 3
    MaxUint32 = 20
    StartBlock = 1
    ErcToNative = TRUE
    BridgeAddress = "bridge"
    ValidatorContractAddress = "validators"
    TokenConfigs <- ConfiguredTokens
    ChainLogs <- PossibleLogs
    MaxLogs = 4
INVARIANTS
    Partition
    AllLogsFetched
    LogsOfSideOnce
    EveryLogOnce
    EndsWithRange
