----------------------------- MODULE CrystalhdRx -----------------------------
(***************************************************************************)
(* The receive (capture) side of the crystalhd driver for the BCM70012     *)
(* "Link" device: the pool of RX DMA packets, the free, active and ready   *)
(* queues, the two hardware descriptor lists, the interrupt handler, and   *)
(* the ioctl handlers that run concurrently with it and with each other    *)
(* (the driver uses unlocked_ioctl and takes no lock around a handler).    *)
(*                                                                         *)
(* A step is what the code does between two points where another context   *)
(* can run and see it: one spin-lock section, one queue operation, or one  *)
(* access to a shared field outside every lock.  The interrupt handler is  *)
(* the thread Isr; it is never entered twice at once.                      *)
(*                                                                         *)
(* A definition marked Faulty stands before the one it could be mistaken   *)
(* for; the properties are tested against it, and no action uses it.       *)
(***************************************************************************)
EXTENDS DioQueue, FiniteSets

CONSTANTS
    Pkt,         \* the RX DMA packets (BC_RX_LIST_CNT of them)
    NoPkt,       \* the NULL packet pointer
    Adders,      \* threads that issue BCM_IOC_ADD_RXBUFFS
    Fetchers,    \* threads that issue BCM_IOC_FETCH_RXBUFF
    Peekers,     \* threads that issue BCM_IOC_GET_DRV_STAT
    Controllers, \* threads that issue the capture control ioctls
    Isr,         \* the interrupt context
    NoThread,    \* nobody holds fetch_sem
    Planes,      \* the engines in use: {"y"} in 422, {"y", "uv"} in 420 mode
    Commands,    \* which of the control ioctls the controllers issue
    Endings,     \* how a transfer of a plane may end, see HwComplete
    Pictures,    \* what a captured picture may be: fresh, repeat, garbage
    PicMod,      \* picture numbers run through 1..PicMod and wrap
    MaxPib,      \* how many format changes the decoder announces
    Signals,     \* whether signals interrupt the fetching threads
    XlatFails,   \* whether building a descriptor list may fail
    SlowStop,    \* whether the engine may outlast the 30 polls of a stop
    PromptIsr    \* whether each completion is serviced before the next one

Threads == Adders \cup Fetchers \cup Peekers \cup Controllers \cup {Isr}

ASSUME RxAssumption ==
    /\ NoPkt \notin Pkt
    /\ NoThread \notin Threads
    /\ Isr \notin Adders \cup Fetchers \cup Peekers \cup Controllers
    /\ Planes \in {{"y"}, {"y", "uv"}}
    /\ Commands \subseteq {"start", "discard", "flush", "pause", "resume"}
    /\ Endings \subseteq {"under", "fifo", "abort"}
    /\ Pictures \subseteq {"fresh", "repeat", "garbage"}
    /\ PicMod \in Nat \ {0}
    /\ MaxPib \in Nat
    /\ {Signals, XlatFails, SlowStop, PromptIsr} \subseteq BOOLEAN

Lists == {0, 1}                        \* DMA_ENGINE_CNT descriptor lists
NoList == 2                            \* the tag of a packet on no list
Waiting == {"y", "uv"}                 \* rx_waiting_y_intr, rx_waiting_uv_intr
Failed == {"y_err", "uv_err"}          \* rx_y_error, rx_uv_error
Slots == Lists \X Planes               \* one DMA transfer of one list

VARIABLES
    pool, lost,           \* hw->rx_pkt_pool_head; packets no pointer leads to
    freeq, rdyq, actq,    \* hw->rx_freeq, rx_rdyq, rx_actq
    tag, flags,           \* pkt_tag and flags of each packet
    sts, postIndex,       \* hw->rx_list_sts, rx_list_post_index
    stopPending,          \* hw->stop_pending
    state,                \* ctx->state of an initialised session, without INIT
    lastPic, lastTwoPic,  \* hw->LastPicNo, LastTwoPicNo
    sem,                  \* the holder of hw->fetch_sem
    pc, pkt,              \* per context: where it is, the packet it holds
    look, polled,         \* what a peek looked at; the slots a stop saw idle
    isr,                  \* locals of the interrupt handler
    run, valid, target,   \* device: start bit, valid bits, programmed packet
    errsts, intr,         \* device: error status, interrupt status
    pibs, deco,           \* device: PIBs queued, decoder interrupt
    announced,            \* device: format changes so far
    picture, hwPic        \* device: number in each buffer, last one decoded

queues  == <<pool, lost, freeq, rdyq, actq>>
lists   == <<sts, postIndex, stopPending>>
numbers == <<lastPic, lastTwoPic>>
threads == <<pc, pkt, look, polled, isr>>
notices == <<pibs, deco, announced>>
device  == <<run, valid, target, errsts, intr, notices, picture, hwPic>>
vars    == <<queues, tag, flags, lists, state, numbers, sem, threads, device>>

Ready == {"cap", "fmt"}                \* BC_LINK_READY, INIT left out

-----------------------------------------------------------------------------
(***************************************************************************)
(* Initial state: firmware downloaded, DMA rings set up, nothing captured. *)
(***************************************************************************)
NoErrors == [i \in Lists |-> [p \in Planes |-> {}]]
IsrIdle == [list |-> 0, avail |-> FALSE, cnt |-> 0, snap |-> {},
            err |-> NoErrors]

Init ==
    /\ pool = Pkt /\ lost = {}
    /\ freeq = << >> /\ rdyq = << >> /\ actq = << >>
    /\ tag = [p \in Pkt |-> NoList]
    /\ flags = [p \in Pkt |-> "none"]
    /\ sts = [i \in Lists |-> {}] /\ postIndex = 0 /\ stopPending = FALSE
    /\ state = {}
    /\ lastPic = 0 /\ lastTwoPic = 0 /\ sem = NoThread
    /\ pc = [t \in Threads |-> "idle"]
    /\ pkt = [t \in Threads |-> NoPkt]
    /\ look = [t \in Peekers |-> NoPkt]
    /\ polled = [t \in Controllers |-> {}]
    /\ isr = IsrIdle
    /\ run = FALSE
    /\ valid = [i \in Lists |-> {}]
    /\ target = [i \in Lists |-> NoPkt]
    /\ errsts = NoErrors /\ intr = {}
    /\ pibs = 0 /\ deco = FALSE /\ announced = 0
    /\ picture = [p \in Pkt |-> 0] /\ hwPic = 0

Goto(t, label) == pc' = [pc EXCEPT ![t] = label]
Hold(t, p) == pkt' = [pkt EXCEPT ![t] = p]
Drop(t) == Hold(t, NoPkt)

\* Where a context goes when crystalhd_hw_start_capture or an ioctl is done,
\* and where the interrupt handler goes when a list has been serviced.
Return(t) == IF t = Isr THEN "ack" ELSE "idle"
NextList == IF isr.list = 0 THEN "list1" ELSE "tail"
BothFree == \A i \in Lists : sts[i] = {}
-----------------------------------------------------------------------------
(***************************************************************************)
(* crystalhd_hw_start_capture: at most one packet of the free queue for    *)
(* each list, given to crystalhd_link_hw_post_cap_buff.                    *)
(***************************************************************************)
CapFetch(t) ==
    /\ pc[t] \in {"cap1", "cap2"}
    /\ freeq # << >>
    /\ Hold(t, DioqHead(freeq))
    /\ freeq' = DioqFetch(freeq)
    /\ Goto(t, IF pc[t] = "cap1" THEN "post1" ELSE "post2")
    /\ UNCHANGED <<pool, lost, rdyq, actq, tag, flags, lists, state, numbers,
                   sem, look, polled, isr, device>>

CapNoData(t) ==
    /\ pc[t] \in {"cap1", "cap2"}
    /\ freeq = << >>
    /\ Goto(t, Return(t))
    /\ UNCHANGED <<queues, tag, flags, lists, state, numbers, sem, pkt, look,
                   polled, isr, device>>

Posting == {"post1", "post2", "add_post", "err_post"}

\* rx_list_post_index alternates between the lists; a packet carries the tag
\* of the list it is posted to.
\* Faulty: the index runs past the last list.
NextIndexUnwrapped == postIndex + 1
NextIndex == (postIndex + 1) % 2
\* Faulty: the packet is tagged after the index was advanced.
TagOfNext == NextIndex
PostTag == postIndex

\* crystalhd_link_hw_prog_rxdma on a free list, under rx_lock: tag the packet
\* with the list, mark the list busy, queue the packet, start the engine and
\* write the descriptor addresses with their valid bits.
Program(t) ==
    /\ pc[t] \in Posting
    /\ sts[postIndex] = {}
    /\ tag' = [tag EXCEPT ![pkt[t]] = PostTag]
    /\ sts' = [sts EXCEPT ![postIndex] = Planes]
    /\ postIndex' = NextIndex
    /\ actq' = DioqAdd(actq, pkt[t])
    /\ run' = TRUE
    /\ valid' = [valid EXCEPT ![postIndex] = Planes]
    /\ target' = [target EXCEPT ![postIndex] = pkt[t]]
    /\ picture' = [picture EXCEPT ![pkt[t]] = 0]
    /\ Drop(t)
    /\ Goto(t, CASE pc[t] = "post1" -> "cap2"
                 [] pc[t] = "err_post" -> NextList
                 [] OTHER -> Return(t))
    /\ UNCHANGED <<pool, lost, freeq, rdyq, flags, stopPending, state, numbers,
                   sem, look, polled, isr, errsts, intr, notices, hwPic>>

\* The list is busy: BC_STS_BUSY, decided under rx_lock.
PostBusy(t) ==
    /\ pc[t] \in Posting
    /\ sts[postIndex] # {}
    /\ Goto(t, IF pc[t] = "err_post" THEN "err_busy" ELSE "busy")
    /\ UNCHANGED <<queues, tag, flags, lists, state, numbers, sem, pkt, look,
                   polled, isr, device>>

\* The packet goes to the free queue after the lock was dropped, and
\* crystalhd_hw_start_capture stops at the first list that is busy.
PostBusyFree(t) ==
    /\ pc[t] \in {"busy", "err_busy"}
    /\ freeq' = DioqAdd(freeq, pkt[t])
    /\ Drop(t)
    /\ Goto(t, IF pc[t] = "err_busy" THEN NextList ELSE Return(t))
    /\ UNCHANGED <<pool, lost, rdyq, actq, tag, flags, lists, state, numbers,
                   sem, look, polled, isr, device>>
-----------------------------------------------------------------------------
(***************************************************************************)
(* BCM_IOC_ADD_RXBUFFS.  Whether to post is decided by comparing the state *)
(* with BC_LINK_READY before crystalhd_hw_add_cap_buffer is called.  (The  *)
(* other condition, hw_pause_issued, is never set for a Link device.)      *)
(***************************************************************************)
AllocPkt(p) ==
    /\ p \in pool
    /\ pool' = pool \ {p}
    /\ tag' = [tag EXCEPT ![p] = NoList]
    /\ flags' = [flags EXCEPT ![p] = "none"]

\* Faulty: posting is enabled by the pause bit.
EnPostPaused == state = Ready \cup {"paused"}
EnPost == state = Ready

AddAlloc(t) ==
    /\ t \in Adders
    /\ pc[t] = "idle"
    /\ \E p \in pool :
        /\ AllocPkt(p)
        /\ Hold(t, p)
        /\ Goto(t, IF EnPost THEN "add_post" ELSE "add_free")
    /\ UNCHANGED <<lost, freeq, rdyq, actq, lists, state, numbers, sem, look,
                   polled, isr, device>>

\* crystalhd_xlat_sgl_to_dma_desc fails: the error is returned and the packet
\* just taken from the pool is neither queued nor freed.
XlatFail(t) ==
    /\ XlatFails
    /\ \/ t \in Adders /\ pc[t] = "idle"
       \/ t \in Fetchers /\ pc[t] = "fmt"
    /\ \E p \in pool :
        /\ AllocPkt(p)
        /\ lost' = lost \cup {p}
    /\ Goto(t, "idle")
    /\ UNCHANGED <<freeq, rdyq, actq, lists, state, numbers, sem, pkt, look,
                   polled, isr, device>>

\* en_post is false: the packet waits in the free queue.
AddFree(t) ==
    /\ pc[t] \in {"add_free", "fmt_free"}
    /\ freeq' = DioqAdd(freeq, pkt[t])
    /\ Drop(t)
    /\ Goto(t, IF pc[t] = "add_free" THEN "idle" ELSE "fmt_set")
    /\ UNCHANGED <<pool, lost, rdyq, actq, tag, flags, lists, state, numbers,
                   sem, look, polled, isr, device>>
-----------------------------------------------------------------------------
(***************************************************************************)
(* BCM_IOC_FETCH_RXBUFF: crystalhd_dioq_fetch_wait looks at the count of   *)
(* the ready queue and sleeps at most 250 ms on an empty one; then it takes *)
(* fetch_sem and fetches.  The result of the sleep (rc) is not reset, so a *)
(* loop that slept in vain and then finds a packet goes round again.       *)
(* Repeated pictures (number 0, or one of the last two) go back to the     *)
(* free queue and the wait goes on.                                        *)
(***************************************************************************)
FetchBegin(t) ==
    /\ t \in Fetchers
    /\ pc[t] = "idle"
    /\ "cap" \in state
    /\ Goto(t, "wait")
    /\ UNCHANGED <<queues, tag, flags, lists, state, numbers, sem, pkt, look,
                   polled, isr, device>>

\* The head of the loop: "wait" and "again" with rc = 0, "ebusy" and "spin"
\* with rc = -EBUSY.
FetchLook(t) ==
    /\ \/ pc[t] \in {"wait", "again", "ebusy", "spin"} /\ rdyq = << >>
          /\ Goto(t, "asleep")
       \/ pc[t] \in {"wait", "again"} /\ rdyq # << >> /\ Goto(t, "found")
       \/ pc[t] = "ebusy" /\ rdyq # << >> /\ Goto(t, "spin")
    /\ UNCHANGED <<queues, tag, flags, lists, state, numbers, sem, pkt, look,
                   polled, isr, device>>

\* crystalhd_wait_on_event: the condition is tested before the time.
FetchWake(t) ==
    /\ pc[t] = "asleep"
    /\ Goto(t, IF rdyq # << >> THEN "found" ELSE "ebusy")
    /\ UNCHANGED <<queues, tag, flags, lists, state, numbers, sem, pkt, look,
                   polled, isr, device>>

\* Faulty: a loop that spins never looks at the time.
FetchTimeoutNoSpin(t) ==
    /\ pc[t] \in {"again", "ebusy"}
    /\ Goto(t, "idle")
    /\ UNCHANGED <<queues, tag, flags, lists, state, numbers, sem, pkt, look,
                   polled, isr, device>>

\* BC_PROC_OUTPUT_TIMEOUT is only over after a sleep, a spin or a dropped
\* picture; the time is read at the head of the loop.
FetchTimeout(t) ==
    /\ pc[t] \in {"again", "ebusy", "spin"}
    /\ Goto(t, "idle")
    /\ UNCHANGED <<queues, tag, flags, lists, state, numbers, sem, pkt, look,
                   polled, isr, device>>

\* down_interruptible on fetch_sem.
\* Faulty: fetch_sem is not waited for.
SemIgnored == TRUE
SemFree == sem = NoThread

FetchTake(t) ==
    /\ pc[t] = "found"
    /\ SemFree
    /\ rdyq # << >>
    /\ sem' = t
    /\ Hold(t, DioqHead(rdyq))
    /\ rdyq' = DioqFetch(rdyq)
    /\ Goto(t, "check")
    /\ UNCHANGED <<pool, lost, freeq, actq, tag, flags, lists, state, numbers,
                   look, polled, isr, device>>

\* A signal ends a sleep, and the wait for fetch_sem.
FetchSignal(t) ==
    /\ Signals
    /\ pc[t] = "asleep" \/ (pc[t] = "found" /\ ~SemFree)
    /\ Goto(t, "idle")
    /\ UNCHANGED <<queues, tag, flags, lists, state, numbers, sem, pkt, look,
                   polled, isr, device>>

\* The queue was emptied since the count was read: crystalhd_dioq_fetch
\* returns NULL and its flags field is read with fetch_sem held.
FetchNull(t) ==
    /\ pc[t] = "found"
    /\ SemFree
    /\ rdyq = << >>
    /\ sem' = t
    /\ Goto(t, "oops")
    /\ UNCHANGED <<queues, tag, flags, lists, state, numbers, pkt, look,
                   polled, isr, device>>

\* The number link_GetRptDropParam reads from the picture in the buffer, and
\* the test for a repeated picture or garbage.
\* Faulty: a smaller number is taken for an older picture.
RepeatedOrOlder(p) == picture[p] <= lastPic
Repeated(p) == picture[p] \in {0, lastPic, lastTwoPic}

Remember(n) ==
    IF n = 0 THEN UNCHANGED numbers
             ELSE lastTwoPic' = lastPic /\ lastPic' = n

FetchDrop(t) ==
    /\ pc[t] = "check"
    /\ flags[pkt[t]] # "fmt"
    /\ Repeated(pkt[t])
    /\ Remember(picture[pkt[t]])
    /\ freeq' = DioqAdd(freeq, pkt[t])
    /\ Drop(t)
    /\ sem' = NoThread
    /\ Goto(t, "again")
    /\ UNCHANGED <<pool, lost, rdyq, actq, tag, flags, lists, state, look,
                   polled, isr, device>>

FetchKeep(t) ==
    /\ pc[t] = "check"
    /\ \/ flags[pkt[t]] = "fmt" /\ UNCHANGED numbers
       \/ /\ flags[pkt[t]] # "fmt"
          /\ ~Repeated(pkt[t])
          /\ Remember(picture[pkt[t]])
    /\ sem' = NoThread
    /\ Goto(t, "deliver")
    /\ UNCHANGED <<queues, tag, flags, lists, state, pkt, look, polled, isr,
                   device>>

\* crystalhd_hw_get_cap_buffer frees the packet; bc_cproc_fetch_frame unmaps
\* the picture, or adds the buffer again when the packet told of a new format.
Deliver(t) ==
    /\ pc[t] = "deliver"
    /\ pool' = pool \cup {pkt[t]}
    /\ Drop(t)
    /\ Goto(t, IF flags[pkt[t]] = "fmt" THEN "fmt" ELSE "idle")
    /\ UNCHANGED <<lost, freeq, rdyq, actq, tag, flags, lists, state, numbers,
                   sem, look, polled, isr, device>>

\* bc_cproc_fmt_change: add the buffer without posting it ...
FmtAlloc(t) ==
    /\ pc[t] = "fmt"
    /\ \E p \in pool : AllocPkt(p) /\ Hold(t, p)
    /\ Goto(t, "fmt_free")
    /\ UNCHANGED <<lost, freeq, rdyq, actq, lists, state, numbers, sem, look,
                   polled, isr, device>>

\* ... which fails when another thread emptied the pool in the meantime ...
FmtNoPkt(t) ==
    /\ pc[t] = "fmt"
    /\ pool = {}
    /\ Goto(t, "idle")
    /\ UNCHANGED <<queues, tag, flags, lists, state, numbers, sem, pkt, look,
                   polled, isr, device>>

\* ... set the format bit and start capture if that made the state READY.
FmtSet(t) ==
    /\ pc[t] = "fmt_set"
    /\ state' = state \cup {"fmt"}
    /\ Goto(t, IF state' = Ready THEN "cap1" ELSE "idle")
    /\ UNCHANGED <<queues, tag, flags, lists, numbers, sem, pkt, look, polled,
                   isr, device>>
-----------------------------------------------------------------------------
(***************************************************************************)
(* BCM_IOC_GET_DRV_STAT: crystalhd_link_peek_next_decoded_frame, called    *)
(* with fetch_sem held, looks at the head of the ready queue without       *)
(* taking it and drops a packet when the picture it saw was a repetition.  *)
(***************************************************************************)
PeekBegin(t) ==
    /\ t \in Peekers
    /\ pc[t] = "idle"
    /\ SemFree
    /\ rdyq # << >>
    /\ sem' = t
    /\ look' = [look EXCEPT ![t] = DioqHead(rdyq)]
    /\ Goto(t, "peek")
    /\ UNCHANGED <<queues, tag, flags, lists, state, numbers, pkt, polled, isr,
                   device>>

PeekDrops(t) == flags[look[t]] # "fmt" /\ Repeated(look[t])

PeekKeep(t) ==
    /\ pc[t] = "peek"
    /\ ~PeekDrops(t)
    /\ sem' = NoThread
    /\ look' = [look EXCEPT ![t] = NoPkt]
    /\ Goto(t, "idle")
    /\ UNCHANGED <<queues, tag, flags, lists, state, numbers, pkt, polled, isr,
                   device>>

PeekDrop(t) ==
    /\ pc[t] = "peek"
    /\ PeekDrops(t)
    /\ Remember(picture[look[t]])
    /\ IF rdyq = << >>
       THEN UNCHANGED <<rdyq, pkt>>
       ELSE Hold(t, DioqHead(rdyq)) /\ rdyq' = DioqFetch(rdyq)
    /\ look' = [look EXCEPT ![t] = NoPkt]
    /\ Goto(t, "peek_put")
    /\ UNCHANGED <<pool, lost, freeq, actq, tag, flags, lists, state, sem,
                   polled, isr, device>>

PeekPut(t) ==
    /\ pc[t] = "peek_put"
    /\ IF pkt[t] = NoPkt
       THEN UNCHANGED <<freeq, pkt>>
       ELSE freeq' = DioqAdd(freeq, pkt[t]) /\ Drop(t)
    /\ sem' = NoThread
    /\ Goto(t, "idle")
    /\ UNCHANGED <<pool, lost, rdyq, actq, tag, flags, lists, state, numbers,
                   look, polled, isr, device>>
-----------------------------------------------------------------------------
(***************************************************************************)
(* The capture control ioctls.                                             *)
(***************************************************************************)
StartCapture(t) ==
    /\ "start" \in Commands
    /\ t \in Controllers
    /\ pc[t] = "idle"
    /\ state' = state \cup {"cap"}
    /\ Goto(t, IF state' = Ready THEN "cap1" ELSE "idle")
    /\ UNCHANGED <<queues, tag, flags, lists, numbers, sem, pkt, look, polled,
                   isr, device>>

\* bc_cproc_flush_cap_buffs, with and without bDiscardOnly, down to the point
\* where crystalhd_link_stop_rx_dma_engine has cleared the start bits.
FlushBegin(t, command) ==
    /\ command \in Commands
    /\ t \in Controllers
    /\ pc[t] = "idle"
    /\ "cap" \in state
    /\ state' = IF command = "flush" THEN state \ {"cap", "fmt"} ELSE state
    /\ run' = FALSE
    /\ Goto(t, IF command = "flush" THEN "stop_u" ELSE "stop_d")
    /\ UNCHANGED <<queues, tag, flags, lists, numbers, sem, pkt, look, polled,
                   isr, valid, target, errsts, intr, notices, picture, hwPic>>

\* One read of a valid bit; a slot seen idle is not read again.
StopPoll(t, i, p) ==
    /\ pc[t] \in {"stop_d", "stop_u"}
    /\ <<i, p>> \notin polled[t]
    /\ p \notin valid[i]
    /\ polled' = [polled EXCEPT ![t] = @ \cup {<<i, p>>}]
    /\ sts' = [sts EXCEPT ![i] = @ \ {p}]
    /\ UNCHANGED <<queues, tag, flags, postIndex, stopPending, state, numbers,
                   sem, pc, pkt, look, isr, device>>

\* Every slot was seen idle, and an interrupt raised before was serviced during
\* the 100 ms sleep that ends a poll; or 30 polls went by (a pending signal
\* makes the sleeps return at once).
StopDone(t) ==
    /\ pc[t] \in {"stop_d", "stop_u"}
    /\ \/ SlowStop
       \/ polled[t] = Slots /\ intr = {} /\ pc[Isr] = "idle"
    /\ polled' = [polled EXCEPT ![t] = {}]
    /\ postIndex' = 0
    /\ Goto(t, IF pc[t] = "stop_d" THEN "act_d" ELSE "act_u")
    /\ UNCHANGED <<queues, tag, flags, sts, stopPending, state, numbers, sem,
                   pkt, look, isr, device>>

\* The loops that empty the queues.  A packet taken from one goes back to the
\* free queue (discard) or, its buffer unmapped, to the pool (flush).
\* Faulty: a discard frees the packets it keeps.
PutBackTwice(t, p) ==
    freeq' = DioqAdd(freeq, p) /\ pool' = pool \cup {p}

PutBack(t, p) ==
    IF pc[t] \in {"act_d", "rdy_d"}
    THEN freeq' = DioqAdd(freeq, p) /\ UNCHANGED pool
    ELSE pool' = pool \cup {p} /\ UNCHANGED freeq

DrainActive(t) ==
    /\ pc[t] \in {"act_d", "act_u"}
    /\ IF actq = << >>
       THEN /\ Goto(t, IF pc[t] = "act_d" THEN "rdy_d" ELSE "rdy_u")
            /\ UNCHANGED <<actq, freeq, pool>>
       ELSE /\ actq' = DioqFetch(actq)
            /\ PutBack(t, DioqHead(actq))
            /\ UNCHANGED pc
    /\ UNCHANGED <<lost, rdyq, tag, flags, lists, state, numbers, sem, pkt,
                   look, polled, isr, device>>

DrainReady(t) ==
    /\ pc[t] \in {"rdy_d", "rdy_u"}
    /\ IF rdyq = << >>
       THEN /\ Goto(t, IF pc[t] = "rdy_d" THEN "cap1" ELSE "free_u")
            /\ UNCHANGED <<rdyq, freeq, pool>>
       ELSE /\ rdyq' = DioqFetch(rdyq)
            /\ PutBack(t, DioqHead(rdyq))
            /\ UNCHANGED pc
    /\ UNCHANGED <<lost, actq, tag, flags, lists, state, numbers, sem, pkt,
                   look, polled, isr, device>>

DrainFree(t) ==
    /\ pc[t] = "free_u"
    /\ IF freeq = << >>
       THEN Goto(t, "idle") /\ UNCHANGED <<freeq, pool>>
       ELSE /\ freeq' = DioqFetch(freeq)
            /\ pool' = pool \cup {DioqHead(freeq)}
            /\ UNCHANGED pc
    /\ UNCHANGED <<lost, rdyq, actq, tag, flags, lists, state, numbers, sem,
                   pkt, look, polled, isr, device>>

\* eCMD_C011_DEC_CHAN_PAUSE, accepted by the firmware: crystalhd_link_hw_pause
\* asks for a stop, and finishes it at once when no list is busy.
PauseCmd(t) ==
    /\ "pause" \in Commands
    /\ t \in Controllers
    /\ pc[t] = "idle"
    /\ state' = state \cup {"paused"}
    /\ stopPending' = TRUE
    /\ Goto(t, "pause")
    /\ UNCHANGED <<queues, tag, flags, sts, postIndex, numbers, sem, pkt, look,
                   polled, isr, device>>

PauseCheck(t) ==
    /\ pc[t] = "pause"
    /\ Goto(t, IF BothFree THEN "finalize" ELSE "idle")
    /\ UNCHANGED <<queues, tag, flags, lists, state, numbers, sem, pkt, look,
                   polled, isr, device>>

\* crystalhd_link_hw_finalize_pause, from the ioctl or from the interrupt.
Finalize(t) ==
    /\ pc[t] = "finalize"
    /\ stopPending' = FALSE
    /\ run' = FALSE
    /\ postIndex' = 0
    /\ Goto(t, Return(t))
    /\ UNCHANGED <<queues, tag, flags, sts, state, numbers, sem, pkt, look,
                   polled, isr, valid, target, errsts, intr, notices, picture,
                   hwPic>>

ResumeCmd(t) ==
    /\ "resume" \in Commands
    /\ t \in Controllers
    /\ pc[t] = "idle"
    /\ state' = state \ {"paused"}
    /\ stopPending' = FALSE
    /\ Goto(t, "cap1")
    /\ UNCHANGED <<queues, tag, flags, sts, postIndex, numbers, sem, pkt, look,
                   polled, isr, device>>
-----------------------------------------------------------------------------
(***************************************************************************)
(* The interrupt handler, crystalhd_link_hw_interrupt_handle.  It reads    *)
(* the interrupt status once and clears what it read when it ends.         *)
(***************************************************************************)
IsrEnter ==
    /\ pc[Isr] = "idle"
    /\ intr # {} \/ deco
    /\ isr' = [isr EXCEPT !.snap = intr, !.cnt = pibs]
    /\ Goto(Isr, IF deco THEN "pib" ELSE "rx")
    /\ UNCHANGED <<queues, tag, flags, lists, state, numbers, sem, pkt, look,
                   polled, device>>

\* crystalhd_link_proc_pib: a picture information block that announces a new
\* format is carried to the application by a packet of the free queue.  With
\* no such packet the handler returns, and the block it had read is gone.
IsrPib ==
    /\ pc[Isr] = "pib"
    /\ isr.cnt > 0
    /\ freeq # << >>
    /\ LET p == DioqHead(freeq) IN
        /\ Hold(Isr, p)
        /\ flags' = [flags EXCEPT ![p] = "fmt"]
    /\ freeq' = DioqFetch(freeq)
    /\ pibs' = pibs - 1
    /\ isr' = [isr EXCEPT !.cnt = @ - 1]
    /\ Goto(Isr, "pib_put")
    /\ UNCHANGED <<pool, lost, rdyq, actq, tag, lists, state, numbers, sem,
                   look, polled, run, valid, target, errsts, intr, deco,
                   announced, picture, hwPic>>

IsrPibPut ==
    /\ pc[Isr] = "pib_put"
    /\ rdyq' = DioqAdd(rdyq, pkt[Isr])
    /\ Drop(Isr)
    /\ Goto(Isr, "pib")
    /\ UNCHANGED <<pool, lost, freeq, actq, tag, flags, lists, state, numbers,
                   sem, look, polled, isr, device>>

IsrPibDone ==
    /\ pc[Isr] = "pib"
    /\ isr.cnt = 0 \/ freeq = << >>
    /\ pibs' = IF isr.cnt = 0 THEN pibs ELSE pibs - 1
    /\ deco' = FALSE
    /\ isr' = [isr EXCEPT !.cnt = 0]
    /\ Goto(Isr, "rx")
    /\ UNCHANGED <<queues, tag, flags, lists, state, numbers, sem, pkt, look,
                   polled, run, valid, target, errsts, intr, announced,
                   picture, hwPic>>

\* crystalhd_link_rx_isr reads the error status once, before the two lists.
IsrRx ==
    /\ pc[Isr] = "rx"
    /\ isr' = [isr EXCEPT !.err = IF isr.snap = {} THEN NoErrors ELSE errsts]
    /\ Goto(Isr, IF isr.snap = {} THEN "ack" ELSE "list0")
    /\ UNCHANGED <<queues, tag, flags, lists, state, numbers, sem, pkt, look,
                   polled, device>>

ErrorOf(p) == IF p = "y" THEN "y_err" ELSE "uv_err"

\* crystalhd_link_rx_list0_handler and list1: the new status of list i.  A
\* list without an error bit is left alone, whatever its done interrupts.
Seen(i) == \E p \in Planes : isr.err[i][p] # {}
Broken(i) == {p \in Planes : isr.err[i][p] \cap {"fifo", "abort"} # {}}
Ended(i) == {p \in Planes : "under" \in isr.err[i][p] \/ <<i, p>> \in isr.snap}
NewStatus(i) ==
    IF Seen(i) THEN (sts[i] \ (Ended(i) \cup Broken(i)))
                       \cup {ErrorOf(p) : p \in Broken(i)}
               ELSE sts[i]

\* The error bits read are written back, which clears them.
\* Faulty: they are not.
KeptErrors(i) == errsts[i]
ClearedErrors(i) == [p \in Planes |-> errsts[i][p] \ isr.err[i][p]]

\* The status of a list that waits for no plane any more is reset.
\* Faulty: a list in error is not reset.
DoneIfFree(new) == new = {}
ListDone(new) == new \cap Waiting = {}

\* One list, under rx_lock.  A list that waits for nothing more is free; an
\* aborted descriptor also sets the list to post next back to 0.
IsrList(i) ==
    /\ pc[Isr] = (IF i = 0 THEN "list0" ELSE "list1")
    /\ LET new  == NewStatus(i)
           done == new # sts[i] /\ ListDone(new)
       IN  /\ sts' = [sts EXCEPT ![i] = IF done THEN {} ELSE new]
           /\ isr' = [isr EXCEPT !.list = i, !.avail = @ \/ (done /\ new = {})]
           /\ pc' = [pc EXCEPT ![Isr] =
                        CASE done /\ new = {} -> "done_ok"
                          [] done /\ new # {} -> "done_err"
                          [] ~done -> IF i = 0 THEN "list1" ELSE "tail"]
    /\ postIndex' = IF \E p \in Planes : "abort" \in isr.err[i][p]
                    THEN 0 ELSE postIndex
    /\ errsts' = [errsts EXCEPT ![i] = ClearedErrors(i)]
    /\ UNCHANGED <<queues, tag, flags, stopPending, state, numbers, sem, pkt,
                   look, polled, run, valid, target, intr, notices, picture,
                   hwPic>>

\* crystalhd_rx_pkt_done: the packet of the list leaves the active queue.  A
\* picture goes to the ready queue, a failed transfer is posted again.
IsrDone ==
    /\ pc[Isr] \in {"done_ok", "done_err"}
    /\ \E k \in 1..Len(actq) :
        /\ IsFirstTagged(actq, tag, isr.list, k)
        /\ Hold(Isr, actq[k])
        /\ actq' = RemoveAt(actq, k)
        /\ flags' = IF pc[Isr] = "done_ok"
                    THEN [flags EXCEPT ![actq[k]] = "data"] ELSE flags
    /\ Goto(Isr, IF pc[Isr] = "done_ok" THEN "ready" ELSE "err_post")
    /\ UNCHANGED <<pool, lost, freeq, rdyq, tag, lists, state, numbers, sem,
                   look, polled, isr, device>>

IsrReady ==
    /\ pc[Isr] = "ready"
    /\ rdyq' = DioqAdd(rdyq, pkt[Isr])
    /\ Drop(Isr)
    /\ Goto(Isr, NextList)
    /\ UNCHANGED <<pool, lost, freeq, actq, tag, flags, lists, state, numbers,
                   sem, look, polled, isr, device>>

\* No packet carries the tag: BC_STS_INV_ARG, which nobody looks at.
IsrNoPkt ==
    /\ pc[Isr] \in {"done_ok", "done_err"}
    /\ Tagged(actq, tag, isr.list) = {}
    /\ Goto(Isr, NextList)
    /\ UNCHANGED <<queues, tag, flags, lists, state, numbers, sem, pkt, look,
                   polled, isr, device>>

\* A list became free: capture goes on, or a requested stop is completed.
IsrTail ==
    /\ pc[Isr] = "tail"
    /\ Goto(Isr, CASE isr.avail /\ ~stopPending -> "cap1"
                   [] isr.avail /\ stopPending /\ BothFree -> "finalize"
                   [] OTHER -> "ack")
    /\ UNCHANGED <<queues, tag, flags, lists, state, numbers, sem, pkt, look,
                   polled, isr, device>>

IsrAck ==
    /\ pc[Isr] = "ack"
    /\ intr' = intr \ isr.snap
    /\ isr' = IsrIdle
    /\ Goto(Isr, "idle")
    /\ UNCHANGED <<queues, tag, flags, lists, state, numbers, sem, pkt, look,
                   polled, run, valid, target, errsts, notices, picture,
                   hwPic>>
-----------------------------------------------------------------------------
(***************************************************************************)
(* The device.  A transfer ends well (its list is then in underrun), with  *)
(* a full FIFO or with an aborted descriptor.  The engine works on one     *)
(* list at a time, and no transfer of a list that was armed again ends     *)
(* before the interrupts of its last transfers were cleared.               *)
(***************************************************************************)
NextNumber == (hwPic % PicMod) + 1

HwComplete(i, p, ending) ==
    /\ ending \in Endings
    /\ run /\ p \in valid[i]
    /\ valid[1 - i] \in {{}, Planes}
    /\ \A q \in valid[i] : <<i, q>> \notin intr
    /\ PromptIsr => intr = {} /\ pc[Isr] = "idle"
    /\ valid' = [valid EXCEPT ![i] = @ \ {p}]
    /\ errsts' = [errsts EXCEPT ![i][p] = @ \cup {ending}]
    /\ intr' = intr \cup {<<i, p>>}
    /\ IF p = "y" /\ ending = "under"
       THEN \E kind \in Pictures :
              /\ hwPic' = IF kind = "fresh" THEN NextNumber ELSE hwPic
              /\ picture' = [picture EXCEPT ![target[i]] =
                                IF kind = "garbage" THEN 0 ELSE hwPic']
       ELSE UNCHANGED <<hwPic, picture>>
    /\ UNCHANGED <<queues, tag, flags, lists, state, numbers, sem, threads,
                   run, target, notices>>

\* With its start bit cleared the engine drops the transfers it has left.
HwHalt(i, p) ==
    /\ ~run /\ p \in valid[i]
    /\ valid' = [valid EXCEPT ![i] = @ \ {p}]
    /\ UNCHANGED <<queues, tag, flags, lists, state, numbers, sem, threads,
                   run, target, errsts, intr, notices, picture, hwPic>>

\* The decoder announces a new picture format.
HwPib ==
    /\ announced < MaxPib
    /\ announced' = announced + 1
    /\ pibs' = pibs + 1
    /\ deco' = TRUE
    /\ UNCHANGED <<queues, tag, flags, lists, state, numbers, sem, threads,
                   run, valid, target, errsts, intr, picture, hwPic>>
-----------------------------------------------------------------------------
Capture(t) == CapFetch(t) \/ CapNoData(t) \/ Program(t) \/ PostBusy(t)
              \/ PostBusyFree(t)

AddStep(t) == AddFree(t) \/ Capture(t)

FetchStep(t) == FetchLook(t) \/ FetchWake(t) \/ FetchTimeout(t) \/ FetchTake(t)
                \/ FetchNull(t) \/ FetchDrop(t) \/ FetchKeep(t) \/ Deliver(t)
                \/ FmtAlloc(t) \/ FmtNoPkt(t) \/ AddFree(t) \/ FmtSet(t)
                \/ Capture(t)

PeekStep(t) == PeekKeep(t) \/ PeekDrop(t) \/ PeekPut(t)

ControlStep(t) ==
    \/ \E i \in Lists, p \in Planes : StopPoll(t, i, p)
    \/ StopDone(t) \/ DrainActive(t) \/ DrainReady(t) \/ DrainFree(t)
    \/ PauseCheck(t) \/ Finalize(t) \/ Capture(t)

Command(t) ==
    \/ StartCapture(t) \/ PauseCmd(t) \/ ResumeCmd(t)
    \/ \E command \in {"discard", "flush"} : FlushBegin(t, command)

IsrStep ==
    \/ IsrEnter \/ IsrPib \/ IsrPibPut \/ IsrPibDone \/ IsrRx
    \/ \E i \in Lists : IsrList(i)
    \/ IsrDone \/ IsrReady \/ IsrNoPkt \/ IsrTail \/ IsrAck
    \/ Finalize(Isr) \/ Capture(Isr)

HwStep ==
    \/ \E i \in Lists, p \in Planes :
          HwHalt(i, p) \/ \E ending \in Endings : HwComplete(i, p, ending)
    \/ HwPib

Next ==
    \/ \E t \in Adders : AddAlloc(t) \/ XlatFail(t) \/ AddStep(t)
    \/ \E t \in Fetchers : FetchBegin(t) \/ XlatFail(t) \/ FetchStep(t)
                           \/ FetchSignal(t)
    \/ \E t \in Peekers : PeekBegin(t) \/ PeekStep(t)
    \/ \E t \in Controllers : Command(t) \/ ControlStep(t)
    \/ IsrStep
    \/ HwStep

Spec == Init /\ [][Next]_vars

\* The contexts run to completion: the interrupt is taken and returns, and an
\* ioctl that was begun is scheduled again.  The application fetches and gives
\* its buffers back again and again; starting any other ioctl is never required.
\* The engine, once started, ends the transfers of each list.
Fairness ==
    /\ WF_vars(IsrStep)
    /\ \A t \in Adders : WF_vars(AddAlloc(t) \/ AddStep(t))
    /\ \A t \in Fetchers : WF_vars(FetchBegin(t) \/ FetchStep(t))
    /\ \A t \in Peekers : WF_vars(PeekStep(t))
    /\ \A t \in Controllers : WF_vars(ControlStep(t))
    /\ \A i \in Lists : WF_vars(\E p \in Planes, ending \in Endings :
                                    HwComplete(i, p, ending))

FairSpec == Spec /\ Fairness
-----------------------------------------------------------------------------
(***************************************************************************)
(* Type correctness.                                                       *)
(***************************************************************************)
CaptureLabels == {"cap1", "cap2", "post1", "post2", "busy"}
FetchLabels ==
    {"wait", "again", "ebusy", "spin", "asleep", "found", "check", "deliver",
     "fmt", "fmt_free", "fmt_set", "oops"}
IsrLabels ==
    {"pib", "pib_put", "rx", "list0", "list1", "done_ok", "done_err", "ready",
     "err_post", "err_busy", "tail", "ack"}
ControlLabels ==
    {"stop_d", "stop_u", "act_d", "act_u", "rdy_d", "rdy_u", "free_u", "pause",
     "finalize"}
Labels == {"idle", "add_post", "add_free", "peek", "peek_put"}
          \cup CaptureLabels \cup FetchLabels \cup IsrLabels \cup ControlLabels

\* The values of the queues and packets, of the driver's other state, of each
\* context's place and packet, of the contexts' other locals, of the device,
\* and of the flags that are on or off.
PacketsTypeOK ==
    /\ pool \in SUBSET Pkt /\ lost \in SUBSET Pkt
    /\ freeq \in Seq(Pkt) /\ rdyq \in Seq(Pkt) /\ actq \in Seq(Pkt)
    /\ tag \in [Pkt -> Lists \cup {NoList}]
    /\ flags \in [Pkt -> {"none", "data", "fmt"}]

DriverTypeOK ==
    /\ sts \in [Lists -> SUBSET (Waiting \cup Failed)]
    /\ postIndex \in Lists
    /\ state \in SUBSET {"cap", "fmt", "paused"}
    /\ lastPic \in 0..PicMod /\ lastTwoPic \in 0..PicMod
    /\ sem \in Threads \cup {NoThread}

HandsTypeOK ==
    /\ pc \in [Threads -> Labels]
    /\ pkt \in [Threads -> Pkt \cup {NoPkt}]

LocalsTypeOK ==
    /\ look \in [Peekers -> Pkt \cup {NoPkt}]
    /\ polled \in [Controllers -> SUBSET Slots]
    /\ isr \in [list : Lists, avail : BOOLEAN, cnt : 0..MaxPib,
                snap : SUBSET Slots,
                err : [Lists -> [Planes -> SUBSET Endings]]]

DeviceTypeOK ==
    /\ valid \in [Lists -> SUBSET Planes]
    /\ target \in [Lists -> Pkt \cup {NoPkt}]
    /\ errsts \in [Lists -> [Planes -> SUBSET Endings]]
    /\ intr \in SUBSET Slots
    /\ pibs \in 0..MaxPib /\ announced \in 0..MaxPib
    /\ picture \in [Pkt -> 0..PicMod] /\ hwPic \in 0..PicMod

SwitchesTypeOK ==
    /\ stopPending \in BOOLEAN /\ run \in BOOLEAN /\ deco \in BOOLEAN

TypeOK ==
    /\ PacketsTypeOK /\ DriverTypeOK /\ HandsTypeOK /\ LocalsTypeOK
    /\ DeviceTypeOK /\ SwitchesTypeOK
-----------------------------------------------------------------------------
(***************************************************************************)
(* Safety.                                                                 *)
(***************************************************************************)
Held == {pkt[t] : t \in Threads} \ {NoPkt}
Places == <<pool, lost, Items(freeq), Items(rdyq), Items(actq), Held>>

\* Every packet is in exactly one place, once: the pool, one of the queues, or
\* in the hands of one context (or it was leaked by a failed translation).  No
\* interleaving of interrupt, fetch, peek, add, flush and pause duplicates a
\* packet or makes one disappear (crystalhd_hw.c, crystalhd_misc.c).
Disjoint ==
    LET place == Places
    IN  \A j, k \in DOMAIN place : j # k => place[j] \cap place[k] = {}
NoneLost == LET place == Places IN Pkt = UNION {place[j] : j \in DOMAIN place}
HeldOnce == \A t, u \in Threads : pkt[t] = pkt[u] /\ pkt[t] # NoPkt => t = u
PacketOwnership ==
    /\ Disjoint /\ NoneLost /\ HeldOnce
    /\ NoRepeats(freeq) /\ NoRepeats(rdyq) /\ NoRepeats(actq)

\* While capture is not stopped, the active queue matches the list status: one
\* packet for each busy list, and one for a list that the handler has just
\* marked free and whose packet it is about to fetch by tag.  Both may be there
\* at once, when an ioctl posts to the list before the handler gets to its
\* packet (crystalhd_link_rx_isr releases rx_lock before crystalhd_rx_pkt_done).
Completing(i) == pc[Isr] \in {"done_ok", "done_err"} /\ isr.list = i
ActiveMatchesLists ==
    \A i \in Lists :
        Cardinality(Tagged(actq, tag, i)) =
            (IF sts[i] # {} THEN 1 ELSE 0) + (IF Completing(i) THEN 1 ELSE 0)

\* The engine only writes to the buffer of a packet of the active queue: the
\* packet fetched by tag is never the one just posted to the same list.
EngineWritesActive ==
    \A i \in Lists : valid[i] # {} => target[i] \in Items(actq)

\* A list the driver takes for free has no transfer left in the engine, so
\* crystalhd_link_hw_prog_rxdma never overwrites a descriptor address in use.
FreeListsIdle == \A i \in Lists : sts[i] = {} => valid[i] = {}

\* A list with a failed plane still waits for the other plane, whose interrupt
\* will take it out of the error state; only that interrupt ever does.
FailedListsWait ==
    \A i \in Lists : sts[i] \cap Failed # {} => sts[i] \cap Waiting # {}

\* Pictures wait in the ready queue in the order in which the decoder produced
\* them, provided each completion is serviced before the next (two lists that
\* complete together are serviced list 0 first, crystalhd_link_rx_isr).
Age(p) == (hwPic + PicMod - picture[p]) % PicMod
FrameOrder ==
    \A j, k \in 1..Len(rdyq) :
        j < k /\ flags[rdyq[j]] = "data" /\ flags[rdyq[k]] = "data"
              => Age(rdyq[j]) > Age(rdyq[k])

\* fetch_sem is held exactly by the context that is looking at a picture; the
\* picture numbers of the repeat test change nowhere else.
SemHeldInside ==
    \A t \in Fetchers \cup Peekers :
        sem = t <=> pc[t] \in {"check", "oops", "peek", "peek_put"}

\* crystalhd_dioq_fetch_wait has an element when it goes on after "Found a
\* packet" (crystalhd_misc.c:501).
FetchFindsPacket == \A t \in Fetchers : pc[t] # "oops"

\* No picture is lost, repeated or overtaken on its way from the engine through
\* active queue, interrupt handler, ready queue and fetch to the application,
\* as long as nothing is flushed, the decoder repeats no picture and each
\* completion is serviced before the next: PictureFifo is implemented.  What
\* waits there are the pictures on their way, from the oldest to the youngest.
Coming == {p \in Items(actq) : picture[p] # 0}
              \cup (IF pc[Isr] = "ready" THEN {pkt[Isr]} ELSE {})
Listed == {p \in Items(rdyq) : flags[p] = "data"}
Viewed == {pkt[t] : t \in
              {u \in Fetchers : pc[u] = "check" /\ flags[pkt[u]] = "data"}}
Chain == Coming \cup Listed
Undelivered == Chain \cup Viewed

OfAge(a) == CHOOSE p \in Undelivered : Age(p) = a
Backlog == Cardinality(Undelivered)
Awaiting == [k \in 1..Backlog |-> picture[OfAge(Backlog - k)]]
Delivering == {picture[pkt[t]] : t \in
                  {u \in Fetchers : pc[u] = "deliver" /\ flags[pkt[u]] = "data"}}
Fifo == INSTANCE PictureFifo WITH
    decoded <- hwPic, waiting <- Awaiting, given <- Delivering
ImplementsFifo == Fifo!Spec
-----------------------------------------------------------------------------
(***************************************************************************)
(* Liveness, under Fairness.                                               *)
(***************************************************************************)
\* While capture is enabled a picture in the ready queue is eventually taken,
\* although a fetch that slept in vain spins until it times out.
PicturesFetched ==
    \A p \in Pkt :
        p \in Items(rdyq) /\ "cap" \in state ~> p \notin Items(rdyq)

\* With fresh pictures and an application that gives its buffers back, capture
\* never comes to rest: no order of completion, fetch and add leaves both lists
\* idle for good, although a packet refused by a busy list is only queued after
\* that list may have been freed (crystalhd_link_hw_post_cap_buff).
CaptureGoesOn == state = Ready ~> ~BothFree
=============================================================================
