SPECIFICATION Spec
CONSTANTS
    SyncedThreshold = 2
    StartBlock = 2
    InitialChainHead = 6
    MaxChainHead = 6
    MaxNodeLag = 0
    MaxStops = 1
INVARIANTS
    SyncedUpToHead
