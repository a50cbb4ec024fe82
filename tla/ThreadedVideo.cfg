SPECIFICATION VideoFairSpec
CONSTANTS
    Pressed <- Combinations
INVARIANT OneRunner
 
PROPERTY MainLoopGoesOn
CHECK_DEADLOCK FALSE
