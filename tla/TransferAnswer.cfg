SPECIFICATION FairSpec
CONSTANTS
    MinIncrement = 1
    BudgetShare = 4
    Rpc = {r1}
    Sizes = {0, 2}
    InitialGrant = 1
    Budget = 2
    MaxRecoveries = 2
    MaxResendRanges = 1
    ReorderPackets = 1
    Streaming = FALSE
    HighWaterMark = 2
    StreamChunk = 2
    Lossy = {"REQ", "GRANT", "META", "DATA"}
    MaxLosses = 1
    MaxDuplicates = 1
PROPERTY Settles
CHECK_DEADLOCK FALSE
