----------------------------- MODULE CrystalhdTx -----------------------------
(***************************************************************************)
(* The transmit side of the crystalhd driver for the BCM70012 "Link"       *)
(* device: BCM_IOC_PROC_INPUT (bc_cproc_proc_input, bc_cproc_hw_txdma),    *)
(* crystalhd_hw_post_tx, the two hardware lists, the interrupt handler's   *)
(* transmit part (crystalhd_link_tx_isr, crystalhd_hw_tx_req_complete) and *)
(* the cancellation of a request that timed out or was interrupted by a    *)
(* signal (crystalhd_hw_cancel_tx, crystalhd_link_stop_tx_dma_engine).     *)
(*                                                                         *)
(* A writer maps its pages as a direct I/O request, finds room in the      *)
(* device's input buffer, posts the request on the next list and waits.    *)
(* The interrupt handler runs on any processor at the same time; on the    *)
(* Link device it does not take hw->lock.  Steps are cut as in CrystalhdRx.*)
(*                                                                         *)
(* A definition marked Faulty stands before the one it could be mistaken   *)
(* for; the properties are tested against it, and no action uses it.       *)
(***************************************************************************)
EXTENDS DioQueue, FiniteSets

CONSTANTS
    Pkt,         \* the TX DMA packets (BC_TX_LIST_CNT of them)
    NoPkt,       \* the NULL packet pointer
    Dio,         \* the direct I/O requests of the pool
    NoDio,       \* the NULL request pointer
    Writers,     \* threads that issue BCM_IOC_PROC_INPUT
    NoWriter,    \* nobody holds hw->lock
    Isr,         \* the interrupt context
    FifoSize,    \* size of the device's input buffer
    XferSize,    \* size of a transfer, in the same unit
    Threshold,   \* BC_INFIFO_THRESHOLD
    Signals,     \* whether signals interrupt the writers
    Endings      \* how a transfer may end: done, error

ASSUME TxAssumption ==
    /\ IsFiniteSet(Pkt)
    /\ NoPkt \notin Pkt /\ NoDio \notin Dio /\ NoWriter \notin Writers
    /\ Isr \notin Writers
    /\ FifoSize \in Nat /\ XferSize \in Nat \ {0} /\ Threshold \in Nat
    /\ Signals \in BOOLEAN
    /\ Endings \subseteq {"done", "error"}

Lists == {0, 1}                  \* DMA_ENGINE_CNT descriptor lists
NoTag == 2                       \* list_tag 0: the packet is on no list
Contexts == Writers \cup {Isr}

VARIABLES
    freeq, actq,      \* hw->tx_freeq, tx_actq
    tag,              \* list_tag of each packet, the seed left out
    dioReq, cbEvent,  \* dio_req of each packet, the owner of its cb_event
    postIndex, lock,  \* hw->tx_list_post_index; the holder of hw->lock
    cinExit,          \* ctx->cin_wait_exit
    dios,             \* adp->ua_map_free_head: the free direct I/O requests
    evSts,            \* uinfo.ev_sts and comp_sts: "none", "ok", "error"
    pc, pkt, dio,     \* per context: place, packet held; per writer: request
    list,             \* per writer: the list it posted to
    todo, isrSts,     \* interrupt handler: lists to complete, and their status
    snap,             \* interrupt handler: the interrupt status it read
    run, valid,       \* device: start bit; lists with a valid descriptor,
    target,           \*   in the order they were made valid; their requests
    intr, errsts,     \* device: interrupt status, transmit error status
    intrOn, level,    \* device: interrupts enabled; fullness of the input
    taken,            \* history: requests whose data the device has taken
    disturbed         \* history: a post or a cancellation met an earlier request

queues  == <<freeq, actq, tag, dioReq, cbEvent>>
driver  == <<postIndex, lock, cinExit>>
mapping == <<dios, evSts>>
locals  == <<dio, list>>
handler == <<todo, isrSts, snap>>
engine  == <<run, valid, target>>
status  == <<intr, errsts, intrOn>>
device  == <<engine, status, level>>
history == <<taken, disturbed>>
vars    == <<queues, driver, mapping, pc, pkt, locals, handler, device,
             history>>

Init ==
    /\ freeq \in {q \in [1..Cardinality(Pkt) -> Pkt] : NoRepeats(q)}
    /\ actq = << >>
    /\ tag = [p \in Pkt |-> NoTag]
    /\ dioReq = [p \in Pkt |-> NoDio] /\ cbEvent = [p \in Pkt |-> NoWriter]
    /\ postIndex = 0 /\ lock = NoWriter /\ cinExit = FALSE
    /\ dios = Dio /\ evSts = [d \in Dio |-> "none"]
    /\ pc = [t \in Contexts |-> "idle"] /\ pkt = [t \in Contexts |-> NoPkt]
    /\ dio = [w \in Writers |-> NoDio] /\ list = [w \in Writers |-> 0]
    /\ todo = << >> /\ isrSts = "ok" /\ snap = {}
    /\ run = FALSE /\ valid = << >> /\ target = [i \in Lists |-> NoDio]
    /\ intr = {} /\ errsts = {} /\ intrOn = TRUE /\ level = 0
    /\ taken = {} /\ disturbed = FALSE

Goto(t, label) == pc' = [pc EXCEPT ![t] = label]
Hold(t, p) == pkt' = [pkt EXCEPT ![t] = p]
-----------------------------------------------------------------------------
(***************************************************************************)
(* The writer, up to the post.                                             *)
(***************************************************************************)
\* bc_cproc_proc_input: crystalhd_map_dio takes a request off the pool.  Its
\* uinfo is as crystalhd_free_dio left it.
Begin(w) ==
    /\ pc[w] = "idle"
    /\ \E d \in dios :
          /\ dios' = dios \ {d}
          /\ dio' = [dio EXCEPT ![w] = d]
    /\ Goto(w, "check")
    /\ UNCHANGED <<queues, driver, evSts, pkt, list, handler, device, history>>

\* crystalhd_link_check_input_full: the fullness is the distance of the ring's
\* write and read pointers, so a ring that is full to the brim looks empty.
Fullness == level % FifoSize
Room == FifoSize - Fullness
\* Faulty: the room is compared without the threshold.
RoomForOne == Room >= XferSize
InputFree == Room >= Threshold /\ XferSize <= Room - Threshold

Check(w) ==
    /\ pc[w] = "check"
    /\ Goto(w, IF InputFree THEN "fetch" ELSE "busy")
    /\ UNCHANGED <<queues, driver, mapping, pkt, locals, handler, device,
                   history>>

\* bc_cproc_codein_sleep: a flush ends the wait, or a signal during the sleep;
\* otherwise the writer looks again.
CodeinCancelled(w) ==
    /\ pc[w] = "busy" /\ cinExit
    /\ cinExit' = FALSE
    /\ Goto(w, "unmap")
    /\ UNCHANGED <<queues, postIndex, lock, mapping, pkt, locals, handler,
                   device, history>>

CodeinSlept(w) ==
    /\ pc[w] = "busy" /\ ~cinExit
    /\ \/ Goto(w, "check")
       \/ Signals /\ Goto(w, "unmap")
    /\ UNCHANGED <<queues, driver, mapping, pkt, locals, handler, device,
                   history>>

\* crystalhd_hw_post_tx takes a packet; with none left it fails.
FetchFree(w) ==
    /\ pc[w] = "fetch" /\ freeq # << >>
    /\ Hold(w, DioqHead(freeq))
    /\ freeq' = DioqFetch(freeq)
    /\ Goto(w, "post")
    /\ UNCHANGED <<actq, tag, dioReq, cbEvent, driver, mapping, locals,
                   handler, device, history>>

FetchNone(w) ==
    /\ pc[w] = "fetch" /\ freeq = << >>
    /\ Goto(w, "unmap")
    /\ UNCHANGED <<queues, driver, mapping, pkt, locals, handler, device,
                   history>>

\* crystalhd_xlat_sgl_to_dma_desc failed: the packet goes back.
XlatFail(w) ==
    /\ pc[w] = "post"
    /\ freeq' = DioqAdd(freeq, pkt[w]) /\ Hold(w, NoPkt)
    /\ Goto(w, "unmap")
    /\ UNCHANGED <<actq, tag, dioReq, cbEvent, driver, mapping, locals,
                   handler, device, history>>

\* The rest of crystalhd_hw_post_tx, under hw->lock, with
\* crystalhd_link_start_tx_dma_engine: the list's valid bit is set last.
\* Faulty: the tag is that of the list after this one.
TagOfNext == (postIndex + 1) % 2
PostTag == postIndex
\* Faulty: the index runs past the last list.
NextPostUnwrapped == postIndex + 1
NextPost == (postIndex + 1) % 2

\* Something of an earlier request on list i is still to be handled: after a
\* reset of the index a post may meet it.
InUse(i) ==
    \/ Tagged(actq, tag, i) # {} \/ i \in Items(valid)
    \/ \E e \in Endings : <<e, i>> \in intr \ snap
    \/ i \in Items(todo) \/ i \in errsts

\* A list that is armed once more goes to the end of the order.
Armed(i) == {k \in 1..Len(valid) : valid[k] = i}
MakeValid(i) ==
    IF Armed(i) = {} THEN Append(valid, i)
    ELSE Append(RemoveAt(valid, CHOOSE k \in Armed(i) : TRUE), i)

Post(w) ==
    /\ pc[w] = "post" /\ lock = NoWriter
    /\ tag' = [tag EXCEPT ![pkt[w]] = PostTag]
    /\ dioReq' = [dioReq EXCEPT ![pkt[w]] = dio[w]]
    /\ cbEvent' = [cbEvent EXCEPT ![pkt[w]] = w]
    /\ actq' = DioqAdd(actq, pkt[w]) /\ Hold(w, NoPkt)
    /\ list' = [list EXCEPT ![w] = PostTag]
    /\ postIndex' = NextPost
    /\ run' = TRUE
    /\ target' = [target EXCEPT ![postIndex] = dio[w]]
    /\ valid' = MakeValid(postIndex)
    /\ disturbed' = (disturbed \/ InUse(postIndex))
    /\ Goto(w, "posted")
    /\ UNCHANGED <<freeq, lock, cinExit, mapping, dio, handler, status, level,
                   taken>>

\* bc_cproc_hw_txdma forgets a flush that came while it was posting.
Posted(w) ==
    /\ pc[w] = "posted"
    /\ cinExit' = FALSE
    /\ Goto(w, "wait")
    /\ UNCHANGED <<queues, postIndex, lock, mapping, pkt, locals, handler,
                   device, history>>

\* bc_cproc_do_fw_cmd of a flush that aborts input, from any thread.
Flush ==
    /\ cinExit' = TRUE
    /\ UNCHANGED <<queues, postIndex, lock, mapping, pc, pkt, locals, handler,
                   device, history>>
-----------------------------------------------------------------------------
(***************************************************************************)
(* The wait for completion (crystalhd_wait_on_event, 3000 ms) and the      *)
(* cancellation.  The event status is tested before the time; a signal     *)
(* ends the wait whatever the status is.                                   *)
(***************************************************************************)
WaitDone(w) ==
    /\ pc[w] = "wait" /\ evSts[dio[w]] # "none"
    /\ Goto(w, IF evSts[dio[w]] = "ok" THEN "success" ELSE "unmap")
    /\ UNCHANGED <<queues, driver, mapping, pkt, locals, handler, device,
                   history>>

\* Faulty: the caller of a request that timed out is let go at once.
TimeoutLetGo(w) ==
    /\ pc[w] = "wait" /\ evSts[dio[w]] = "none"
    /\ Goto(w, "unmap")
    /\ UNCHANGED <<queues, driver, mapping, pkt, locals, handler, device,
                   history>>

WaitTimeout(w) ==
    /\ pc[w] = "wait" /\ evSts[dio[w]] = "none"
    /\ Goto(w, "stop")
    /\ UNCHANGED <<queues, driver, mapping, pkt, locals, handler, device,
                   history>>

WaitSignal(w) ==
    /\ pc[w] = "wait" /\ Signals
    /\ Goto(w, "stop")
    /\ UNCHANGED <<queues, driver, mapping, pkt, locals, handler, device,
                   history>>

Own(w) == {p \in Pkt : dioReq[p] = dio[w]}

\* crystalhd_link_stop_tx_dma_engine of an engine that does not run.
StopIdle(w) ==
    /\ pc[w] = "stop" /\ lock = NoWriter /\ ~run
    /\ postIndex' = 0
    /\ Goto(w, "cancel")
    /\ UNCHANGED <<queues, lock, cinExit, mapping, pkt, locals, handler,
                   device, history>>

\* It clears the start bit with interrupts disabled and polls the valid bits
\* of both lists 30 times, under hw->lock.
StopBegin(w) ==
    /\ pc[w] = "stop" /\ lock = NoWriter /\ run
    /\ lock' = w /\ run' = FALSE /\ intrOn' = FALSE
    /\ Goto(w, "stopping")
    /\ UNCHANGED <<queues, postIndex, cinExit, mapping, pkt, locals, handler,
                   valid, target, intr, errsts, level, history>>

StopDone(w) ==
    /\ pc[w] = "stopping" /\ valid = << >>
    /\ postIndex' = 0
    /\ intrOn' = TRUE /\ lock' = NoWriter
    /\ Goto(w, "cancel")
    /\ UNCHANGED <<queues, cinExit, mapping, pkt, locals, handler, engine,
                   intr, errsts, level, history>>

\* It fails after the last poll, although that one may have seen both lists
\* idle, and its caller goes on.
StopFail(w) ==
    /\ pc[w] = "stopping"
    /\ disturbed' = (disturbed \/ valid # << >>)
    /\ intrOn' = TRUE /\ lock' = NoWriter
    /\ Goto(w, "cancel")
    /\ UNCHANGED <<queues, postIndex, cinExit, mapping, pkt, locals, handler,
                   engine, intr, errsts, level, taken>>

\* crystalhd_hw_tx_req_complete with BC_STS_IO_USER_ABORT, for which the
\* callback does nothing.  What carries the tag may be another request's packet.
CancelFind(w) ==
    /\ pc[w] = "cancel"
    /\ \E k \in 1..Len(actq) :
          /\ IsFirstTagged(actq, tag, list[w], k)
          /\ Hold(w, actq[k])
          /\ actq' = RemoveAt(actq, k)
          /\ disturbed' = (disturbed \/ Own(w) # {actq[k]})
    /\ Goto(w, "cancel_put")
    /\ UNCHANGED <<freeq, tag, dioReq, cbEvent, driver, mapping, locals,
                   handler, device, taken>>

\* The interrupt handler was there first: the caller gets BC_STS_SUCCESS, and
\* lets its request go although the handler may have still to write to it.
CancelNone(w) ==
    /\ pc[w] = "cancel" /\ Tagged(actq, tag, list[w]) = {}
    /\ disturbed' = (disturbed \/ Own(w) # {})
    /\ Goto(w, "unmap")
    /\ UNCHANGED <<queues, driver, mapping, pkt, locals, handler, device,
                   taken>>

\* Faulty: a packet is returned twice.
PutFreeTwice(p) ==
    /\ dioReq' = [dioReq EXCEPT ![p] = NoDio]
    /\ cbEvent' = [cbEvent EXCEPT ![p] = NoWriter]
    /\ tag' = [tag EXCEPT ![p] = NoTag]
    /\ freeq' = DioqAdd(DioqAdd(freeq, p), p)

\* The end of crystalhd_hw_tx_req_complete, in the interrupt handler too.
PutFree(p) ==
    /\ dioReq' = [dioReq EXCEPT ![p] = NoDio]
    /\ cbEvent' = [cbEvent EXCEPT ![p] = NoWriter]
    /\ tag' = [tag EXCEPT ![p] = NoTag]
    /\ freeq' = DioqAdd(freeq, p)

CancelPut(w) ==
    /\ pc[w] = "cancel_put"
    /\ PutFree(pkt[w]) /\ Hold(w, NoPkt)
    /\ Goto(w, "unmap")
    /\ UNCHANGED <<actq, driver, mapping, locals, handler, device, history>>

\* crystalhd_unmap_dio, crystalhd_free_dio: the ioctl returns.
Unmap(w) ==
    /\ pc[w] \in {"unmap", "success"}
    /\ dios' = dios \cup {dio[w]}
    /\ evSts' = [evSts EXCEPT ![dio[w]] = "none"]
    /\ taken' = taken \ {dio[w]}
    /\ dio' = [dio EXCEPT ![w] = NoDio] /\ list' = [list EXCEPT ![w] = 0]
    /\ Goto(w, "idle")
    /\ UNCHANGED <<queues, driver, pkt, handler, device, disturbed>>
-----------------------------------------------------------------------------
(***************************************************************************)
(* The interrupt handler (crystalhd_link_hw_interrupt_handle, transmit     *)
(* part): completions of list 0 and 1, then errors of list 0 and 1.        *)
(***************************************************************************)
In(S) ==
    CASE S = Lists -> <<0, 1>>
      [] S = {0}   -> <<0>>
      [] S = {1}   -> <<1>>
      [] S = {}    -> << >>

IsrEnter ==
    /\ pc[Isr] = "idle" /\ intrOn /\ intr # {}
    /\ snap' = intr
    /\ todo' = In({i \in Lists : <<"done", i>> \in intr}) /\ isrSts' = "ok"
    /\ Goto(Isr, "find")
    /\ UNCHANGED <<queues, driver, mapping, pkt, locals, device, history>>

\* crystalhd_dioq_find_and_fetch by the list's tag.
IsrFind ==
    /\ pc[Isr] = "find" /\ todo # << >>
    /\ \E k \in 1..Len(actq) :
          /\ IsFirstTagged(actq, tag, Head(todo), k)
          /\ Hold(Isr, actq[k])
          /\ actq' = RemoveAt(actq, k)
    /\ Goto(Isr, "call")
    /\ UNCHANGED <<freeq, tag, dioReq, cbEvent, driver, mapping, locals,
                   handler, device, history>>

Handled == IF isrSts = "error" THEN "reset" ELSE "find"

IsrFindNone ==
    /\ pc[Isr] = "find" /\ todo # << >> /\ Tagged(actq, tag, Head(todo)) = {}
    /\ todo' = Tail(todo)
    /\ Goto(Isr, Handled)
    /\ UNCHANGED <<queues, driver, mapping, pkt, locals, isrSts, snap, device,
                   history>>

\* bc_proc_in_completion writes to the request and wakes its writer.
IsrCall ==
    /\ pc[Isr] = "call"
    /\ evSts' = [evSts EXCEPT ![dioReq[pkt[Isr]]] = isrSts]
    /\ Goto(Isr, "put")
    /\ UNCHANGED <<queues, driver, dios, pkt, locals, handler, device, history>>

IsrPut ==
    /\ pc[Isr] = "put"
    /\ PutFree(pkt[Isr]) /\ Hold(Isr, NoPkt)
    /\ todo' = Tail(todo)
    /\ Goto(Isr, Handled)
    /\ UNCHANGED <<actq, driver, mapping, locals, isrSts, snap, device,
                   history>>

\* The error status is read once the completions are through.
HasError == \E i \in Lists : <<"error", i>> \in snap

IsrErrors ==
    /\ pc[Isr] = "find" /\ todo = << >> /\ HasError
    /\ todo' = In(errsts) /\ isrSts' = "error"
    /\ Goto(Isr, "reset")
    /\ UNCHANGED <<queues, driver, mapping, pkt, locals, snap, device, history>>

\* crystalhd_link_tx_list0_handler and _list1_handler: the mask they test after
\* clearing one bit of it is never 0, so every error resets the index.
IsrReset ==
    /\ pc[Isr] = "reset" /\ todo # << >>
    /\ postIndex' = 0
    /\ errsts' = errsts \ {Head(todo)}
    /\ Goto(Isr, "find")
    /\ UNCHANGED <<queues, lock, cinExit, mapping, pkt, locals, handler,
                   engine, intr, intrOn, level, history>>

IsrAck ==
    /\ todo = << >>
    /\ \/ pc[Isr] = "find" /\ ~HasError
       \/ pc[Isr] = "reset"
    /\ intr' = intr \ snap /\ snap' = {}
    /\ isrSts' = "ok"
    /\ Goto(Isr, "idle")
    /\ UNCHANGED <<queues, driver, mapping, pkt, locals, todo, engine, errsts,
                   intrOn, level, history>>
-----------------------------------------------------------------------------
(***************************************************************************)
(* The device.  It serves the lists in the order they were made valid; a   *)
(* stopped engine may end a transfer or drop it without an interrupt.      *)
(***************************************************************************)
HwEnd(ending) ==
    /\ valid # << >> /\ ending \in Endings
    /\ ending = "done" => level + XferSize <= FifoSize
    /\ LET i == Head(valid) IN
          /\ intr' = intr \cup {<<ending, i>>}
          /\ errsts' = IF ending = "error" THEN errsts \cup {i} ELSE errsts
          /\ level' = IF ending = "done" THEN level + XferSize ELSE level
          /\ taken' = IF ending = "done" THEN taken \cup {target[i]} ELSE taken
          /\ disturbed' = (disturbed \/ \E e \in Endings : <<e, i>> \in intr)
          /\ target' = [target EXCEPT ![i] = NoDio]
    /\ valid' = Tail(valid)
    /\ UNCHANGED <<queues, driver, mapping, pc, pkt, locals, handler, run,
                   intrOn>>

HwHalt ==
    /\ ~run /\ valid # << >>
    /\ valid' = << >> /\ target' = [i \in Lists |-> NoDio]
    /\ UNCHANGED <<queues, driver, mapping, pc, pkt, locals, handler, run,
                   status, level, history>>

\* The decoder consumes input.
HwDrain ==
    /\ level > 0
    /\ level' = level - 1
    /\ UNCHANGED <<queues, driver, mapping, pc, pkt, locals, handler, engine,
                   status, history>>
-----------------------------------------------------------------------------
PostStep(w) == Check(w) \/ CodeinCancelled(w) \/ CodeinSlept(w)
               \/ FetchFree(w) \/ FetchNone(w) \/ Post(w) \/ Posted(w)
Stop(w) == StopIdle(w) \/ StopBegin(w)
CancelStep(w) == StopDone(w) \/ StopFail(w) \/ CancelFind(w) \/ CancelNone(w)
                 \/ CancelPut(w)
WaitStep(w) == WaitDone(w) \/ WaitTimeout(w)
IsrStep == IsrEnter \/ IsrFind \/ IsrFindNone \/ IsrCall \/ IsrPut
           \/ IsrErrors \/ IsrReset \/ IsrAck
HwStep == (\E ending \in Endings : HwEnd(ending)) \/ HwHalt \/ HwDrain

Next ==
    \/ \E w \in Writers :
          \/ Begin(w) \/ PostStep(w) \/ XlatFail(w)
          \/ WaitStep(w) \/ WaitSignal(w)
          \/ Stop(w) \/ CancelStep(w) \/ Unmap(w)
    \/ Flush \/ IsrStep \/ HwStep

Spec == Init /\ [][Next]_vars
-----------------------------------------------------------------------------
(***************************************************************************)
(* Properties.                                                             *)
(***************************************************************************)
Labels ==
    {"idle", "check", "busy", "fetch", "post", "posted", "wait", "stop",
     "stopping", "cancel", "cancel_put", "unmap", "success", "find", "call",
     "put", "reset"}

TypeOK ==
    /\ freeq \in Seq(Pkt) /\ actq \in Seq(Pkt)
    /\ tag \in [Pkt -> Lists \cup {NoTag}]
    /\ dioReq \in [Pkt -> Dio \cup {NoDio}]
    /\ cbEvent \in [Pkt -> Writers \cup {NoWriter}]
    /\ postIndex \in Lists /\ lock \in Writers \cup {NoWriter}
    /\ cinExit \in BOOLEAN
    /\ dios \subseteq Dio /\ evSts \in [Dio -> {"none", "ok", "error"}]
    /\ pc \in [Contexts -> Labels] /\ pkt \in [Contexts -> Pkt \cup {NoPkt}]
    /\ dio \in [Writers -> Dio \cup {NoDio}] /\ list \in [Writers -> Lists]
    /\ todo \in Seq(Lists) /\ isrSts \in {"ok", "error"}
    /\ snap \subseteq {"done", "error"} \X Lists
    /\ intr \subseteq {"done", "error"} \X Lists
    /\ errsts \subseteq Lists
    /\ run \in BOOLEAN /\ valid \in Seq(Lists)
    /\ target \in [Lists -> Dio \cup {NoDio}]
    /\ intrOn \in BOOLEAN /\ level \in 0..FifoSize
    /\ taken \subseteq Dio /\ disturbed \in BOOLEAN

\* Each packet is in exactly one place, once: free, active, or in the hands of
\* a writer or the interrupt handler, whatever is cancelled or completed at the
\* same time (crystalhd_hw_tx_req_complete is run by both).
Held == {pkt[t] : t \in Contexts} \ {NoPkt}
TxOwnership ==
    /\ NoRepeats(freeq \o actq)
    /\ Items(freeq) \cup Items(actq) \cup Held = Pkt
    /\ Held \cap (Items(freeq) \cup Items(actq)) = {}
    /\ \A t, u \in Contexts : pkt[t] = pkt[u] /\ pkt[t] # NoPkt => t = u

\* The tags lead to the right request until, after a reset of the index, a post
\* meets what is left of an earlier request on its list, or a cancellation
\* misses its own request or leaves the engine running (disturbed).  An ioctl
\* only reports success when the device took that request's own data ...
TrueCompletion ==
    disturbed \/ \A w \in Writers : pc[w] = "success" => dio[w] \in taken

\* ... the engine only reads pages that are mapped for a waiting writer ...
EngineReadsMapped ==
    disturbed \/
    \A k \in 1..Len(valid) :
        \E w \in Writers : dio[w] = target[valid[k]]
                           /\ pc[w] \in {"posted", "wait", "stop", "stopping"}

\* ... and the input buffer has room for every transfer that was posted,
\* although its fullness is read before other writers' transfers end.  A buffer
\* that is full to the brim would read as empty.
InputFits == disturbed \/ level + XferSize * Len(valid) < FifoSize
=============================================================================
