SPECIFICATION FairSpec
CONSTANTS
    SyncedThreshold = 2
    StartBlock = 2
    InitialChainHead = 4
    MaxChainHead = 5
    MaxNodeLag = 1
    MaxStops = 1
INVARIANTS
    TypeOK
    StaleOneWayOnly
PROPERTIES
    FlagTurnsOn
    FlagTurnsOff
