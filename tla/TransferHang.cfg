SPECIFICATION DeliverySpec
CONSTANTS
    MinIncrement = 1
    BudgetShare = 4
    Rpc = {r1}
    Sizes = {2}
    InitialGrant = 1
    Budget = 2
    MaxRecoveries = 1
    MaxResendRanges = 1
    ReorderPackets = 1
    Streaming = TRUE
    HighWaterMark = 1
    StreamChunk = 2
    Lossy = {"META"}
    MaxLosses = 1
    MaxDuplicates = 0
PROPERTY Settles
CHECK_DEADLOCK FALSE
