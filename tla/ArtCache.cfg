SPECIFICATION FairSpec
CONSTANTS
    Path <- Files
    Nothing = "nothing"
    Art <- Pictures
    Cover <- Covers
    Bytes <- Sizes
    Broken <- Bad
    Budget = 5
INVARIANT HeldNotFreed
INVARIANT CacheBounded
PROPERTY ArtIsShown
PROPERTY QuitReturns
CHECK_DEADLOCK FALSE
