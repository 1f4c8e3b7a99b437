SPECIFICATION FairSpec
CONSTANTS
    Queries <- OneQuery
    Logs <- TwoLogs
    StartBlock = 2
    MaxBlockRangeSize = 2
    BlockConfirmations = 0
    BlockRangesChanCap = 1
    LogsChanCap = 1
    SafeLogsRequest = TRUE
    BatchAtOneHeight = TRUE
    NoRow = NoRow
    InitialChainHead = 4
    MaxChainHead = 4
    MaxNodeLag = 1
    MaxStops = 1
PROPERTIES
 ConfirmedAreHandled
 StoredCursorCatchesUp
