SPECIFICATION Spec
CONSTANTS
    Floor = 1
    Cap = 4
    K = 2
    LossPercent = 85
    RateWindow = 10
    RttWindow = 1
    Rtts = {1}
    Bytes = {1, 2}
    MaxBytes = 2
    MaxElapsed = 1
    Scale = 1
PROPERTIES QuietKeepsEstimate
CHECK_DEADLOCK FALSE
