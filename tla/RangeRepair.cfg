SPECIFICATION FairSpec
CONSTANTS
    Size = 4
    MaxPayload = 2
    ReorderPackets = 1
    Quarter = 1
    Srtt = 2
    MaxSteps = 2
    Delays = {1, 3}
    Drains = {0, 3}
    Rto = 2
    MaxRto = 4
    MaxRecoveries = 2
    MaxRanges = 1
INVARIANTS TypeOK
PROPERTIES KeepsPromise Patient AskedInTheEnd
CHECK_DEADLOCK FALSE
