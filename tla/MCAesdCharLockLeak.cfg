SPECIFICATION Spec
CONSTANTS
    MaxWriteOps = 2
    NULL = NULL
    EINVAL = EINVAL
    Closed = Closed
    Free = Free
    BadAddress = BadAddress
    OtherCmd = OtherCmd
    t1 = t1
    t2 = t2
    f1 = f1
    b1 = b1
    b2 = b2
    b3 = b3
    b4 = b4
    a = a
    b = b
    nl = nl
    NL = nl
    Task <- MCTask
    File <- MCFile
    Block <- MCBlock
    Payload <- MCPayload
    ReadCount <- MCReadCount
    Seek <- MCSeek
    Arg <- MCArg
    MaxAlloc = 2
    MaxPos = 1
    CopyFaults = FALSE
    Reloads = FALSE
SYMMETRY MCSymmetry
INVARIANTS
    LockIsReleased
