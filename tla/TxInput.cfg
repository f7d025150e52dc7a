SPECIFICATION Spec
CONSTANTS
    p1 = p1
    p2 = p2
    d1 = d1
    d2 = d2
    w1 = w1
    w2 = w2
    NoPkt = NoPkt
    NoDio = NoDio
    NoWriter = NoWriter
    Isr = Isr
    Pkt = {p1, p2}
    Dio = {d1, d2}
    Writers = {w1, w2}
    FifoSize = 3
    XferSize = 1
    Threshold = 2
    Signals = TRUE
    Endings <- DoneOrError
SYMMETRY TxSymmetry
CONSTRAINT Undisturbed
INVARIANT TypeOK
INVARIANT TxOwnership
INVARIANT TrueCompletion
INVARIANT EngineReadsMapped
INVARIANT InputFits
