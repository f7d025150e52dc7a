SPECIFICATION FairSpec
CONSTANTS
    p1 = p1
    p2 = p2
    a = a
    f = f
    c = c
    NoPkt = NoPkt
    Isr = Isr
    NoThread = NoThread
    Pkt = {p1, p2}
    Adders = {a}
    Fetchers = {f}
    Peekers = {}
    Controllers = {c}
    Planes <- Luma
    Commands <- Start
    Endings <- Complete
    Pictures <- Fresh
    PicMod = 3
    MaxPib = 1
    Signals = FALSE
    XlatFails = FALSE
    SlowStop = FALSE
    PromptIsr = TRUE
INVARIANT FrameOrder
PROPERTY ImplementsFifo
PROPERTY CaptureGoesOn
PROPERTY PicturesFetched
