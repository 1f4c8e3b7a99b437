SPECIFICATION IndexedSpec
CONSTANTS
    Messages <- BridgeMessages
    NoMessage = NoMessage
    Logs <- QuietLogs
    MaxBlock = 3
    BlockTime <- Times
    AlertStart <- AllBlocks
    OtherTimes = {}
    Jobs <- ConfirmationJob
    MaxSetbacks = 0
    MaxRepairs = 1
INVARIANTS
    NoFalseUnknown
