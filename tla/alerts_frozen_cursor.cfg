SPECIFICATION FairSpec
CONSTANTS
    Messages <- BridgeMessages
    NoMessage = NoMessage
    Logs <- BridgeLogs
    MaxBlock = 2
    BlockTime <- Times
    AlertStart <- AllBlocks
    OtherTimes = {1}
    Jobs <- ConfirmationJob
    MaxSetbacks = 0
    MaxRepairs = 0
PROPERTIES
    UnknownIsReported
