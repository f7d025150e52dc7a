SPECIFICATION Spec
CONSTANTS
    f1 = f1
    f2 = f2
    f3 = f3
    f4 = f4
    Closed = Closed
    File = {f1, f2, f3, f4}
    MaxOpens = 2
SYMMETRY FileSymmetry
INVARIANT TypeOK
INVARIANT OnePlayback
INVARIANT HandlesMatchFiles
INVARIANT SessionHasHardware
CHECK_DEADLOCK FALSE
