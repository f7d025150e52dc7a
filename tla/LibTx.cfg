SPECIFICATION FairSpec
CONSTANTS
    Size = 3
    Numbers = 7
INVARIANT TypeOK
PROPERTY ImplementsFifo
PROPERTY CloseReturns
CHECK_DEADLOCK FALSE
