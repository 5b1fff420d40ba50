SPECIFICATION Spec
CONSTANTS
    MaxWriteOps = 3
    NULL = NULL
    p = p
    q = q
    r = r
    Pointer <- MCPointer
    Size <- MCSize
INVARIANTS
    TypeOK
    RingInv
    FindAgreesWithLog
PROPERTIES
    ImplementsLog
