SPECIFICATION Spec
CONSTANTS
    Width = 4
    MaxLen = 4
    MaxStream = 5
    Threshold = 5
    BufSize = 4
    Window = 3
    Capacity = 120
    SizeBits = 8
INVARIANT BestBidRests
CHECK_DEADLOCK FALSE
