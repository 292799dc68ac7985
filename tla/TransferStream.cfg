SPECIFICATION FairSpec
CONSTANTS
    MinIncrement = 1
    BudgetShare = 4
    Rpc = {r1}
    Sizes = {3}
    InitialGrant = 1
    Budget = 2
    MaxRecoveries = 1
    MaxResendRanges = 1
    ReorderPackets = 1
    Streaming = TRUE
    HighWaterMark = 1
    StreamChunk = 2
    Lossy = {"REQ", "GRANT", "RESEND", "META", "DATA"}
    MaxLosses = 1
    MaxDuplicates = 1
INVARIANTS TypeOK NothingTruncated StreamIsPrefix Answered GrantsAgree PausedWhenBehind
PROPERTY StreamEnds
CHECK_DEADLOCK FALSE
