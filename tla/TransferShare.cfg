SPECIFICATION FairSpec
CONSTANTS
    MinIncrement = 1
    BudgetShare = 4
    Rpc = {r1, r2}
    Sizes = {2}
    InitialGrant = 1
    Budget = 1
    MaxRecoveries = 0
    MaxResendRanges = 1
    ReorderPackets = 1
    Streaming = FALSE
    HighWaterMark = 2
    StreamChunk = 2
    Lossy = {}
    MaxLosses = 0
    MaxDuplicates = 0
PROPERTIES GrantsWithinBudget Settles
CHECK_DEADLOCK FALSE
