SPECIFICATION LockSpec
CONSTANTS
    Size = 2
    Numbers = 5
PROPERTY FlushReturns
CHECK_DEADLOCK FALSE
