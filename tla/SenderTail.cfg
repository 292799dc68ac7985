SPECIFICATION FairSpec
CONSTANTS
    Rpc = {r1}
    Sizes = {3}
    MaxOffset = 3
    MaxInbound = 2
    PlainHeader = 1
    SeqHeader = 2
    InitialDatagram = 4
    Limits = {4}
    TailDuplicate = 3
    NoSeq = FALSE
    Paced = FALSE
    QuicSendQueue = 0
    MaxSeq = 3
    RingSize = 2
    MaxResendRange = 2
PROPERTY RefusedGoesOut
CHECK_DEADLOCK FALSE
