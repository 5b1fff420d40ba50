SPECIFICATION FairSpec
CONSTANTS
    MaxPid = 3
    MaxFds = 2
    Programs <- MCPrograms
    Failures = TRUE
\* Every process ends.
CHECK_DEADLOCK FALSE
INVARIANTS
    TypeOK
    
    NoChildIsLeft
    OutputGoesWhereItsCallSays
    
PROPERTIES
    CallReturns
