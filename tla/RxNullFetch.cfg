SPECIFICATION Spec
CONSTANTS
    p1 = p1
    p2 = p2
    a = a
    f = f
    g = g
    c = c
    NoPkt = NoPkt
    Isr = Isr
    NoThread = NoThread
    Pkt = {p1, p2}
    Adders = {a}
    Fetchers = {f}
    Peekers = {g}
    Controllers = {c}
    Planes <- Luma
    Commands <- Start
    Endings <- Complete
    Pictures <- AllPictures
    PicMod = 1
    MaxPib = 1
    Signals = TRUE
    XlatFails = FALSE
    SlowStop = FALSE
    PromptIsr = FALSE
SYMMETRY PktSymmetry
INVARIANT FetchFindsPacket
