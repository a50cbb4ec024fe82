SPECIFICATION FairSpec
CONSTANTS
    Frame = {"x", "y"}
    Silence = Silence
    N = 4
    Rates <- Ratios
    Batch = 2
    MaxTries = 1
    Offers <- Arrays
    Reads = {1, 3}
INVARIANT RingSound
INVARIANT RatioKept
PROPERTY PlaysInOrder
PROPERTY BatchReturns
CHECK_DEADLOCK FALSE
