SPECIFICATION Spec
CONSTANTS
    Queries <- TwoQueries
    Logs <- TwoQueryLogs
    StartBlock = 2
    MaxBlockRangeSize = 2
    BlockConfirmations = 0
    BlockRangesChanCap = 1
    LogsChanCap = 1
    SafeLogsRequest = TRUE
    BatchAtOneHeight = FALSE
    NoRow = NoRow
    InitialChainHead = 3
    MaxChainHead = 4
    MaxNodeLag = 1
    MaxStops = 1
INVARIANTS
    FetchedAreStored
