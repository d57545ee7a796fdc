SPECIFICATION FairSpec
CONSTANTS
    KeepDays = 1
    MaxSize = 2
    MaxDay = 4
    MaxLines = 4
    MaxCrashes = 1
CHECK_DEADLOCK FALSE
INVARIANTS
    InboxInv
PROPERTIES
    UnreadLoss
    Delivered
