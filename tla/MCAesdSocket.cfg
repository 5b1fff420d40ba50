SPECIFICATION FairSpec
CONSTANTS
    MaxWriteOps = 2
    NULL = NULL
    EINVAL = EINVAL
    Destroyed = Destroyed
    c1 = c1
    c2 = c2
    x = x
    y = y
    nl = nl
    Client <- MCClient
    Script <- MCScript
    Failures = TRUE
    CharDevice = TRUE
    MainThread = MainThread
    stamp = stamp
    Stamp <- MCStamp
    Leftover <- MCLeftover
    MaxTicks = 0
\* The process ends.
CHECK_DEADLOCK FALSE
INVARIANTS
    TypeOK
    ReplyIsOwnSnapshot
    JoinedOnce
    SocketOutlivesWorker
    DeviceLockStaysBehindMutex
PROPERTIES
    SignalEndsProcess
    FinishedIsJoined
    WorkerGetsMutex
