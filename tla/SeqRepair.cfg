SPECIFICATION FairSpec
CONSTANTS
    Rpc = {r1}
    Size = 3
    MaxSeq = 6
    Tries = 2
    MaxGap = 1
    MaxSettled = 1
    RingSize = 3
    MaxLosses = 2
    MaxDuplicates = 1
INVARIANTS TypeOK Accounted ResentOnlyIfAsked
PROPERTY RepairedInTheEnd

CHECK_DEADLOCK FALSE
