SPECIFICATION FairSpec
CONSTANTS
    Rpc = {r1}
    Sizes = {2}
    MaxOffset = 2
    MaxInbound = 4
    PlainHeader = 1
    SeqHeader = 2
    InitialDatagram = 4
    Limits = {3, 4}
    TailDuplicate = 2
    NoSeq = FALSE
    Paced = TRUE
    QuicSendQueue = 0
    MaxSeq = 3
    RingSize = 2
    MaxResendRange = 2
INVARIANTS ResendsWithinSent RepairedOnce ChosenFits
PROPERTIES OwedUntilSent DueIsSent
CHECK_DEADLOCK FALSE
