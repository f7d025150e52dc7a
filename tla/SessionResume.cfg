SPECIFICATION Spec
CONSTANTS
    f1 = f1
    f2 = f2
    Closed = Closed
    File = {f1, f2}
    MaxOpens = 2
SYMMETRY FileSymmetry
CHECK_DEADLOCK FALSE
INVARIANT NewSessionAfterResume
