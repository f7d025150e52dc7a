SPECIFICATION Spec
CONSTANTS
    p1 = p1
    p2 = p2
    a = a
    c = c
    NoPkt = NoPkt
    Isr = Isr
    NoThread = NoThread
    Pkt = {p1, p2}
    Adders = {a}
    Fetchers = {}
    Peekers = {}
    Controllers = {c}
    Planes <- LumaChroma
    Commands <- PauseResume
    Endings <- UnderFifo
    Pictures <- Garbage
    PicMod = 1
    MaxPib = 0
    Signals = TRUE
    XlatFails = FALSE
    SlowStop = FALSE
    PromptIsr = FALSE
SYMMETRY PktSymmetry
INVARIANT TypeOK
INVARIANT PacketOwnership
INVARIANT ActiveMatchesLists
INVARIANT EngineWritesActive
INVARIANT FreeListsIdle
INVARIANT FailedListsWait
