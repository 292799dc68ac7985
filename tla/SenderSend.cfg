SPECIFICATION Spec
CONSTANTS
    Rpc = {r1, r2}
    Sizes = {3}
    MaxOffset = 3
    MaxInbound = 3
    PlainHeader = 1
    SeqHeader = 2
    InitialDatagram = 4
    Limits = {3, 4}
    TailDuplicate = 3
    NoSeq = FALSE
    Paced = FALSE
    QuicSendQueue = 0
    MaxSeq = 3
    RingSize = 2
    MaxResendRange = 2
INVARIANTS TypeOK NoUngrantedSent SentIsPrefix WorkIsCurrent MetaLeadsData
CHECK_DEADLOCK FALSE
