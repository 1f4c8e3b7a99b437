SPECIFICATION ReadersSpec
CONSTANTS
    Messages <- BridgeMessages
    NoMessage = NoMessage
    Logs <- ReadersLogs
    MaxBlock = 2
    BlockTime <- Times
    AlertStart <- AllBlocks
    OtherTimes = {}
    Jobs <- FollowedJobs
    MaxSetbacks = 1
    MaxRepairs = 1
    Searches <- SearchRequests
    Followed <- FollowedLogs
    MaxDifference = 0
    RequiredSignatures = {1}
    UploadedSignatures <- Uploaded
INVARIANTS
    TypeOK
    NoFalseUnknownOnceIndexed
    RequestTypeOK
    SearchIsBounded
    FoundUnlessNew
    ShowsWhatWasStored
    UnsignedAreShown
    LatestIsShown
PROPERTIES
    MetricSettles
