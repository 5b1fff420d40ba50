SPECIFICATION FairSpec
CONSTANTS
    NULL = NULL
    Caller = Caller
    t1 = t1
    t2 = t2
    t3 = t3
    Thread <- MCThread
    Failures = TRUE
    MaxCallerLocks = 2
\* Every thread may have been joined, and the mutex lost.
CHECK_DEADLOCK FALSE
INVARIANTS
    TypeOK
    ThreadOwnsItsData
PROPERTIES
    ImplementsHold
    EveryThreadReturns
    
