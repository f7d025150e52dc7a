SPECIFICATION Spec
CONSTANTS
    p1 = p1
    a = a
    f = f
    g = g
    c = c
    NoPkt = NoPkt
    Isr = Isr
    NoThread = NoThread
    Pkt = {p1}
    Adders = {a}
    Fetchers = {f}
    Peekers = {g}
    Controllers = {c}
    Planes <- Luma
    Commands <- StartFlush
    Endings <- Complete
    Pictures <- Fresh
    PicMod = 1
    MaxPib = 0
    Signals = TRUE
    XlatFails = TRUE
    SlowStop = FALSE
    PromptIsr = TRUE
SYMMETRY PktSymmetry
INVARIANT PacketOwnership
INVARIANT SemHeldInside
CHECK_DEADLOCK FALSE
