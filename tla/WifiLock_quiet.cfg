SPECIFICATION FairSpec
CONSTANTS
    Actor = {"run", "push", "syncd", "covers"}
    Mode <- Modes
    Calls <- FewCalls
    Daemon = {"syncd", "covers"}
    Timed = {"push"}
    Mortal = {"run", "push"}
    Overlap = FALSE
    NoPid = NoPid
INVARIANT NoForgottenLock
 
 
 
PROPERTY AttemptReturns
PROPERTY LockGivenUp
CHECK_DEADLOCK FALSE
