SPECIFICATION FairSpec
CONSTANTS
    History <- SmallHistory
    Addresses <- People
    Blacklisted = {"c"}
    MaxReplays = 2
INVARIANTS
    TypeOK
    OneMessagePerPayment
    MessagesTellSender
    HandledAreStored
    ActiveAreValidators
PROPERTIES
    ImplementsTables
    AllAreHandled
CHECK_DEADLOCK FALSE
