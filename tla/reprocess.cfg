SPECIFICATION FairSpec
CONSTANTS
    FromBlock = 2
    ToBlock = 5
    MaxBlockRangeSize = 2
    LogBlocks = {2, 4, 5}
    BlockRangesChanCap = 2
    LogsChanCap = 1
    MaxCursor = 6
    MaxLate = 1
    Nil = Nil
INVARIANTS
    TypeOK
    LastNilMeansSubmitted
PROPERTIES
    SetBackOnlyAtCursor
    ImplementsIndexer
    Terminates
CHECK_DEADLOCK FALSE
