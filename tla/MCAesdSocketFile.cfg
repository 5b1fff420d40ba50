SPECIFICATION FairSpec
CONSTANTS
    MaxWriteOps = 2
    NULL = NULL
    EINVAL = EINVAL
    Destroyed = Destroyed
    c1 = c1
    c2 = c2
    x = x
    y = y
    nl = nl
    Client <- MCClient
    Script <- MCFileScript
    Failures = FALSE
    CharDevice = FALSE
    MainThread = MainThread
    stamp = stamp
    Stamp <- MCStamp
    Leftover <- MCLeftover
    MaxTicks = 2
\* The process ends.
CHECK_DEADLOCK FALSE
INVARIANTS
    ReplyIsOwnSnapshot
PROPERTIES
    
    HandlerReturns
    SignalEndsProcessOrMainWaits
