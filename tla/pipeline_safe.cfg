SPECIFICATION Spec
CONSTANTS
    Queries <- TwoQueries
    Logs <- TwoQueryLogs
    StartBlock = 2
    MaxBlockRangeSize = 1
    BlockConfirmations = 1
    BlockRangesChanCap = 1
    LogsChanCap = 1
    SafeLogsRequest = TRUE
    BatchAtOneHeight = FALSE
    NoRow = NoRow
    InitialChainHead = 3
    MaxChainHead = 5
    MaxNodeLag = 1
    MaxStops = 2
INVARIANTS
    TypeOK
    FetchedAreStored
    ProcessedAreHandled
    ConstraintNeverRefuses
    ProcessedHasTimestamp
    FetchedInPipeline
    IInv
PROPERTIES
    ImplementsIndexer
