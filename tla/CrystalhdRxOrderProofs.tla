----------------------- MODULE CrystalhdRxOrderProofs -----------------------
(***************************************************************************)
(* The order of the pictures of CrystalhdRx, and that the receive path is  *)
(* a FIFO of pictures, once capture was started and is not flushed or      *)
(* paused, with transfers that end well, a decoder that repeats no         *)
(* picture, and an interrupt that is serviced before the next transfer     *)
(* ends.  Numbers that wrap tell as many pictures apart as there are       *)
(* packets.                                                                *)
(***************************************************************************)
EXTENDS CrystalhdRxProofs

Orderly ==
    /\ PromptIsr
    /\ Commands \subseteq {"start"}
    /\ Endings \subseteq {"under"}
    /\ Pictures \subseteq {"fresh"}
    /\ IsFiniteSet(Pkt) /\ Cardinality(Pkt) <= PicMod

\* Nothing stops the engine.
Running ==
    /\ stopPending = FALSE
    /\ \A t \in Threads : pc[t] \notin {"pause", "finalize"}
    /\ \A i \in Lists : valid[i] # {} => run

\* Places of the handler before it reads the error status, and after it has
\* looked at both lists.
Unread == {"idle", "pib", "pib_put", "rx"}
Late == {"tail", "cap1", "cap2", "post1", "post2", "busy", "ack"}

\* No transfer fails: the handler never comes to post a packet again.
NoFailures ==
    /\ \A i \in Lists : sts[i] \subseteq Planes
    /\ pc[Isr] \in Unread \cup {"list0", "list1", "done_ok", "ready"} \cup Late

\* The handler saw every interrupt that is raised, and a plane that ended is
\* awaited only until the handler comes to its list.
SnapWhole == pc[Isr] # "idle" => isr.snap = intr
EndsServed ==
    \A i \in Lists : \A p \in sts[i] \ valid[i] :
        /\ errsts[i][p] # {} /\ <<i, p>> \in intr
        /\ pc[Isr] \in Unread \/ (Ahead(i) /\ isr.err[i][p] # {})

ServiceInv == Running /\ NoFailures /\ SnapWhole /\ EndsServed

\* A busy list's packet has its picture when the luma transfer has ended, and
\* so has the packet the handler is about to fetch.
CapturedByY ==
    \A i \in Lists : sts[i] # {} => (picture[target[i]] # 0 <=> "y" \notin valid[i])
DoneCaptured ==
    \A i \in Lists : Completing(i) =>
        \A p \in Queued(i) \ OfEngine(i) : picture[p] # 0
TagsReal == \A p \in Items(actq) : tag[p] \in Lists
HandFlags ==
    /\ pc[Isr] = "ready" => flags[pkt[Isr]] = "data"
    /\ pc[Isr] = "pib_put" => flags[pkt[Isr]] = "fmt"

PictureInv == CapturedByY /\ DoneCaptured /\ TagsReal /\ HandFlags

\* They are numbered without gap from the youngest on.
ChainInv ==
    /\ \A p \in Chain : picture[p] # 0 /\ hwPic # 0
    /\ \A p \in Chain : \A b \in 0..Age(p) : \E q \in Chain : Age(q) = b
    /\ \A p, q \in Chain : Age(p) = Age(q) => p = q
    /\ \A p \in Coming : Age(p) = 0

OrderInv == /\ OwnInv /\ ListInv /\ ActiveInv
            /\ ServiceInv /\ PictureInv /\ ChainInv /\ FrameOrder

\* A step that leaves the pictures on their way where they are.
Still == /\ Chain' = Chain /\ hwPic' = hwPic
         /\ \A p \in Chain : picture'[p] = picture[p]

\* A step of which the order knows nothing.
Calm ==
    /\ UNCHANGED <<actq, rdyq, sts, target, valid, errsts, intr, picture,
                   hwPic, stopPending, run>>
    /\ isr'.list = isr.list /\ isr'.snap = isr.snap /\ isr'.err = isr.err
    /\ \A p \in Items(actq) : tag'[p] = tag[p]
    /\ \A p \in Items(rdyq) : flags'[p] = flags[p]
    /\ pc[Isr] \in {"ready", "pib_put"} => flags'[pkt[Isr]] = flags[pkt[Isr]]
    /\ \/ pc'[Isr] = pc[Isr] /\ pkt'[Isr] = pkt[Isr]
       \/ pc[Isr] \in {"pib", "rx"} /\ pc'[Isr] \in {"pib", "rx"}
       \/ pc[Isr] \in Late /\ pc'[Isr] \in Late
    /\ \A t \in Threads : pc'[t] \notin {"pause", "finalize"}

\* It keeps what is said of the order.
LEMMA CalmStep ==
    ASSUME OrderInv, Calm
    PROVE  ServiceInv' /\ PictureInv' /\ ChainInv' /\ FrameOrder' /\ Still
<1>0. /\ \A k \in 1..Len(rdyq) : rdyq[k] \in Items(rdyq)
      /\ Items(actq') = Items(actq) /\ Items(rdyq') = Items(rdyq)
  BY ItemAt DEF Calm, OrderInv, OwnInv, TypeInv, PacketsTypeOK
<1>1. \A i \in Lists : /\ Ahead(i)' <=> Ahead(i)
                       /\ Completing(i)' <=> Completing(i)
                       /\ Queued(i)' = Queued(i)
                       /\ OfEngine(i)' = OfEngine(i)
  BY DEF Calm, Ahead, Completing, Queued, OfEngine, Late
<1>2. ServiceInv'
  <2>1. Running' /\ NoFailures'
    BY DEF OrderInv, ServiceInv, Running, NoFailures, Calm, Late, Unread
  <2>2. SnapWhole'
    BY DEF OrderInv, ServiceInv, SnapWhole, Calm, Late
  <2>3. EndsServed'
    <3>1. EndsServed /\ UNCHANGED <<sts, valid, errsts, intr>> /\ isr'.err = isr.err
      BY DEF OrderInv, ServiceInv, Calm
    <3>2. pc[Isr] \in Unread => pc'[Isr] \in Unread
      BY DEF Calm, Late, Unread
    <3>3. \A i \in Lists : Ahead(i) => Ahead(i)'
      BY <1>1
    <3> QED BY <3>1, <3>2, <3>3 DEF EndsServed
  <2> QED BY <2>1, <2>2, <2>3 DEF ServiceInv
<1>3. PictureInv'
  <2>1. CapturedByY' /\ DoneCaptured'
    BY <1>1 DEF OrderInv, PictureInv, CapturedByY, DoneCaptured, Calm
  <2>2. TagsReal' /\ HandFlags'
    BY DEF OrderInv, PictureInv, TagsReal, HandFlags, Calm, Late
  <2> QED BY <2>1, <2>2 DEF PictureInv
<1>4. /\ Coming' = Coming /\ Listed' = Listed /\ Chain' = Chain
      /\ \A p : Age(p)' = Age(p)
  <2>1. Coming' = Coming
    BY <1>0 DEF Coming, Calm, Late
  <2>2. Listed' = Listed
    BY <1>0 DEF Listed, Calm
  <2> QED BY <2>1, <2>2 DEF Chain, Age, Calm
<1>5. ChainInv'
  BY <1>4 DEF OrderInv, ChainInv, Calm
<1>6. FrameOrder'
  BY <1>0, <1>4 DEF OrderInv, FrameOrder, Calm
<1>7. Still
  BY <1>4 DEF Still, Calm
<1> QED BY <1>2, <1>3, <1>5, <1>6, <1>7

-----------------------------------------------------------------------------
(***************************************************************************)
(* The steps that are not calm.                                            *)
(***************************************************************************)
Taking(t) == FetchTake(t) \/ (PeekDrop(t) /\ rdyq # << >>)
Completion == \E i \in Lists, p \in Planes, ending \in Endings :
                  HwComplete(i, p, ending)

\* A context that is not the handler.
LEMMA OthersCalm ==
    ASSUME OrderInv, NEW t \in Threads, t # Isr,
           NEW l, l \notin {"pause", "finalize"}, Goto(t, l),
           pkt'[Isr] = pkt[Isr],
           UNCHANGED <<actq, rdyq, sts, target, valid, errsts, intr, picture,
                       hwPic, stopPending, run, isr>>,
           UNCHANGED <<tag, flags>> \/ \E p \in pool : AllocPkt(p)
    PROVE  Calm
<1>1. /\ pc'[Isr] = pc[Isr]
      /\ \A u \in Threads : pc'[u] \notin {"pause", "finalize"}
  BY DEF OrderInv, OwnInv, TypeInv, Hands, HandsTypeOK, ServiceInv, Running,
         Goto, Threads
<1>2. ASSUME NEW p \in pool, AllocPkt(p)
      PROVE  /\ \A q \in Items(actq) : tag'[q] = tag[q]
             /\ \A q \in Items(rdyq) : flags'[q] = flags[q]
             /\ pc[Isr] \in {"ready", "pib_put"}
                    => flags'[pkt[Isr]] = flags[pkt[Isr]]
  <2>1. \A q \in Items(actq) : tag'[q] = tag[q]
    BY <1>2, PoolNotQueued DEF OrderInv
  <2>2. p \notin Items(rdyq) /\ p \notin Held
    BY PlacesAre DEF OrderInv, OwnInv, PacketOwnership, Disjoint, Places, Spot
  <2>3. Items(rdyq) \subseteq Pkt
    BY ItemTypes DEF OrderInv, OwnInv, TypeInv, PacketsTypeOK
  <2>4. \A q \in Pkt : q # p => flags'[q] = flags[q]
    BY <1>2 DEF AllocPkt, OrderInv, OwnInv, TypeInv, PacketsTypeOK
  <2>5. pc[Isr] \in {"ready", "pib_put"} => pkt[Isr] \in Pkt /\ pkt[Isr] # p
    BY <2>2, RxAssumption
       DEF Held, OrderInv, OwnInv, TypeInv, Hands, HoldersHold, HoldLabels,
           Threads
  <2> QED BY <2>1, <2>2, <2>3, <2>4, <2>5
<1> QED BY <1>1, <1>2 DEF Calm

\* The handler finds the packet it looks for.
LEMMA FoundByTag ==
    ASSUME OwnInv, ActiveInv PROVE ~IsrNoPkt
<1> SUFFICES ASSUME IsrNoPkt PROVE FALSE
  OBVIOUS
<1>1. /\ Tagged(actq, tag, isr.list) = {} /\ Completing(isr.list)
      /\ isr.list \in Lists
  BY DEF IsrNoPkt, Completing, OwnInv, TypeInv, LocalsTypeOK
<1>2. PICK k \in 1..Len(actq) : DoneAt(isr.list, k)
  BY <1>1 DEF ActiveInv
<1> QED BY <1>1, <1>2 DEF DoneAt, IsFirstTagged

LEMMA OrderSteps ==
    ASSUME Orderly, OrderInv, [Next]_vars
    PROVE  \/ Calm
           \/ \E t \in Threads : Program(t) \/ (t # Isr /\ Taking(t))
           \/ \E i \in Lists : IsrList(i)
           \/ IsrDone \/ IsrReady \/ IsrPib \/ IsrPibPut
           \/ IsrEnter \/ IsrRx \/ IsrAck \/ Completion
<1> USE DEF lists, queues, threads, device, notices
<1>0. /\ NoFlush /\ ListInv /\ OwnInv /\ ActiveInv /\ Running /\ NoFailures
      /\ HandsTypeOK /\ LocalsTypeOK /\ Isr \in Threads
  BY DEF Orderly, NoFlush, OrderInv, ServiceInv, OwnInv, TypeInv, Hands, Threads
<1>1. CASE UNCHANGED vars \/ HwPib
  <2>1. UNCHANGED <<actq, rdyq, sts, target, valid, errsts, intr, picture,
                    hwPic, stopPending, run, isr, tag, flags, pc, pkt>>
    BY <1>1 DEF vars, HwPib
  <2> QED BY <1>0, <2>1 DEF Calm, Running
<1>2. ASSUME NEW i \in Lists, NEW p \in Planes, HwHalt(i, p) PROVE FALSE
  BY <1>0, <1>2 DEF HwHalt, Running
<1>3. ASSUME NEW t \in Threads, t # Isr, Capture(t), ~Program(t) PROVE Calm
  <2> USE <1>3 DEF Capture, CapFetch, CapNoData, PostBusy, PostBusyFree
  <2>1. UNCHANGED <<actq, rdyq, sts, target, valid, errsts, intr, picture,
                    hwPic, stopPending, run, isr, tag, flags>>
    OBVIOUS
  <2>2. PICK l : Goto(t, l) /\ l \notin {"pause", "finalize"}
    BY DEF Return, NextList
  <2>3. pkt'[Isr] = pkt[Isr]
    BY <1>0 DEF HandsTypeOK, Hold, Drop
  <2> QED BY <2>1, <2>2, <2>3, OthersCalm
<1>4. ASSUME NEW t \in Threads, t # Isr,
             \/ AddAlloc(t) \/ XlatFail(t) \/ FmtAlloc(t) \/ AddFree(t)
             \/ FetchBegin(t) \/ FetchSignal(t) \/ FetchLook(t) \/ FetchWake(t)
             \/ FetchTimeout(t) \/ FetchNull(t) \/ FetchDrop(t)
             \/ FetchKeep(t) \/ Deliver(t) \/ FmtNoPkt(t)
             \/ FmtSet(t) \/ PeekBegin(t) \/ PeekStep(t) \/ StartCapture(t),
             ~Taking(t)
      PROVE  Calm
  <2> USE <1>4 DEF AddAlloc, XlatFail, FmtAlloc, AddFree, FetchBegin,
              FetchSignal, FetchLook, FetchWake, FetchTimeout, FetchNull,
              FetchDrop, FetchKeep, Deliver, FmtNoPkt, FmtSet, PeekBegin,
              PeekStep, PeekKeep, PeekDrop, PeekPut, StartCapture, Taking
  <2>1. UNCHANGED <<actq, rdyq, sts, target, valid, errsts, intr, picture,
                    hwPic, stopPending, run, isr>>
    OBVIOUS
  <2>2. UNCHANGED <<tag, flags>> \/ \E p \in pool : AllocPkt(p)
    OBVIOUS
  <2>3. PICK l : Goto(t, l) /\ l \notin {"pause", "finalize"}
    OBVIOUS
  <2>4. pkt'[Isr] = pkt[Isr]
    BY <1>0 DEF HandsTypeOK, Hold, Drop
  <2> QED BY <2>1, <2>2, <2>3, <2>4, OthersCalm
<1>5. ASSUME NEW t \in Threads, t # Isr, Command(t) \/ ControlStep(t),
             ~Capture(t)
      PROVE  StartCapture(t)
  <2>1. \/ StartCapture(t) \/ PauseCmd(t) \/ ResumeCmd(t)
        \/ PauseCheck(t) \/ Finalize(t)
    BY <1>0, <1>5, NoFlushSteps
  <2> QED BY <1>0, <2>1
          DEF PauseCmd, ResumeCmd, PauseCheck, Finalize, Running, Orderly
<1>6. ASSUME IsrStep, \A i \in Lists : ~IsrList(i), ~Program(Isr),
             ~IsrDone, ~IsrReady, ~IsrPib, ~IsrPibPut, ~IsrEnter, ~IsrRx,
             ~IsrAck
      PROVE  Calm
  <2>1. IsrPibDone \/ IsrTail \/ Capture(Isr)
    <3>1. ~IsrNoPkt
      BY <1>0, FoundByTag
    <3>2. ~Finalize(Isr)
      BY <1>0 DEF Finalize, Running
    <3> QED BY <1>6, <3>1, <3>2 DEF IsrStep
  <2>2. CASE IsrPibDone
    <3>1. /\ UNCHANGED <<actq, rdyq, sts, target, valid, errsts, intr, picture,
                         hwPic, stopPending, run, tag, flags>>
          /\ isr'.list = isr.list /\ isr'.snap = isr.snap /\ isr'.err = isr.err
      BY <1>0, <2>2 DEF IsrPibDone, LocalsTypeOK
    <3>2. /\ pc[Isr] = "pib" /\ pc'[Isr] = "rx"
          /\ \A t \in Threads : pc'[t] \notin {"pause", "finalize"}
      BY <1>0, <2>2 DEF IsrPibDone, Goto, HandsTypeOK, Running
    <3> QED BY <3>1, <3>2 DEF Calm
  <2>3. CASE IsrTail \/ Capture(Isr)
    <3> USE <1>6, <2>3 DEF IsrTail, Capture, CapFetch, CapNoData, PostBusy,
                PostBusyFree
    <3>1. UNCHANGED <<actq, rdyq, sts, target, valid, errsts, intr, picture,
                      hwPic, stopPending, run, isr, tag, flags>>
      OBVIOUS
    <3>2. PICK l : Goto(Isr, l) /\ l \in Late
      BY <1>0 DEF Return, NextList, Late, Running, NoFailures, Posting, Unread
    <3>3. pc[Isr] \in Late
      BY <1>0 DEF Late, NoFailures, Posting, Unread
    <3>4. pc'[Isr] = l /\ \A t \in Threads : pc'[t] \notin {"pause", "finalize"}
      BY <1>0, <3>2 DEF Goto, HandsTypeOK, Running, Late
    <3> QED BY <3>1, <3>2, <3>3, <3>4 DEF Calm, Late
  <2> QED BY <2>1, <2>2, <2>3
<1>7. ASSUME NEW t \in Adders \cup Fetchers \cup Peekers \cup Controllers
      PROVE  t \in Threads /\ t # Isr
  BY RxAssumption DEF Threads
<1>8. CASE \E t \in Adders : AddAlloc(t) \/ XlatFail(t) \/ AddStep(t)
  BY <1>3, <1>4, <1>7, <1>8 DEF AddStep
<1>9. CASE \E t \in Fetchers : FetchBegin(t) \/ XlatFail(t) \/ FetchStep(t)
                               \/ FetchSignal(t)
  BY <1>3, <1>4, <1>7, <1>9 DEF FetchStep, Taking
<1>10. CASE \E t \in Peekers : PeekBegin(t) \/ PeekStep(t)
  BY <1>4, <1>7, <1>10
<1>11. CASE \E t \in Controllers : Command(t) \/ ControlStep(t)
  <2>1. PICK t \in Controllers : Command(t) \/ ControlStep(t)
    BY <1>11
  <2>2. ~Taking(t) \/ Taking(t)
    OBVIOUS
  <2> QED BY <1>3, <1>4, <1>5, <1>7, <2>1, <2>2
<1>12. CASE IsrStep
  BY <1>0, <1>6, <1>12
<1>13. CASE HwStep
  BY <1>1, <1>2, <1>13 DEF HwStep, Completion
<1> QED BY <1>1, <1>8, <1>9, <1>10, <1>11, <1>12, <1>13 DEF Next

-----------------------------------------------------------------------------
(***************************************************************************)
(* Every transfer that ended is served in the pass of the handler that its *)
(* interrupt starts.                                                       *)
(***************************************************************************)
LEMMA ServiceProgram ==
    ASSUME OrderInv, NEW t \in Threads, Program(t)
    PROVE  ServiceInv'
<1>0. /\ HandsTypeOK /\ Running /\ NoFailures /\ SnapWhole /\ EndsServed
      /\ sts \in [Lists -> SUBSET (Waiting \cup Failed)] /\ postIndex \in Lists
      /\ valid \in [Lists -> SUBSET Planes] /\ Isr \in Threads
  BY DEF OrderInv, OwnInv, TypeInv, Hands, ServiceInv, DriverTypeOK,
         DeviceTypeOK, Threads
<1>1. /\ sts' = [sts EXCEPT ![postIndex] = Planes] /\ run' = TRUE
      /\ valid' = [valid EXCEPT ![postIndex] = Planes]
      /\ UNCHANGED <<isr, errsts, intr, stopPending>>
  BY DEF Program, notices
<1>2. PICK l : /\ Goto(t, l) /\ l \notin {"pause", "finalize"}
               /\ t = Isr => l \in {"cap2", "ack"} /\ pc[Isr] \in Late
  BY <1>0 DEF Program, Return, NextList, NoFailures, Posting, Unread, Late
<1>3. \/ pc'[Isr] = pc[Isr]
      \/ pc[Isr] \in Late /\ pc'[Isr] \in Late
  BY <1>0, <1>2 DEF Goto, HandsTypeOK, Late
<1>4. \A i \in Lists : Ahead(i) => Ahead(i)'
  BY <1>1, <1>3 DEF Ahead, Late
<1>5. \A i \in Lists : \/ sts'[i] = sts[i] /\ valid'[i] = valid[i]
                       \/ sts'[i] = Planes /\ valid'[i] = Planes
  BY <1>0, <1>1
<1>6. Running'
  BY <1>0, <1>1, <1>2 DEF Running, Goto, HandsTypeOK
<1>7. NoFailures' /\ SnapWhole'
  BY <1>0, <1>1, <1>3, <1>5 DEF NoFailures, SnapWhole, Late, Unread
<1>8. EndsServed'
  <2> SUFFICES ASSUME NEW i \in Lists, NEW p \in sts'[i] \ valid'[i]
               PROVE  /\ errsts[i][p] # {} /\ <<i, p>> \in intr
                      /\ \/ pc'[Isr] \in Unread
                         \/ Ahead(i)' /\ isr.err[i][p] # {}
    BY <1>1 DEF EndsServed
  <2>1. p \in sts[i] \ valid[i]
    BY <1>5
  <2>2. /\ errsts[i][p] # {} /\ <<i, p>> \in intr
        /\ pc[Isr] \in Unread \/ (Ahead(i) /\ isr.err[i][p] # {})
    BY <1>0, <2>1 DEF EndsServed
  <2> QED BY <1>3, <1>4, <2>2 DEF Unread, Late
<1> QED BY <1>6, <1>7, <1>8 DEF ServiceInv

LEMMA ServiceTaking ==
    ASSUME OrderInv, NEW t \in Threads, t # Isr, Taking(t)
    PROVE  ServiceInv'
<1>1. /\ UNCHANGED <<sts, valid, errsts, intr, isr, stopPending, run>>
      /\ \E l : Goto(t, l) /\ l \notin {"pause", "finalize"}
  BY DEF Taking, FetchTake, PeekDrop, lists, device
<1>2. /\ pc'[Isr] = pc[Isr]
      /\ \A u \in Threads : pc'[u] \notin {"pause", "finalize"}
  BY <1>1 DEF OrderInv, OwnInv, TypeInv, Hands, HandsTypeOK, ServiceInv,
              Running, Goto, Threads
<1>3. \A i \in Lists : Ahead(i)' <=> Ahead(i)
  BY <1>1, <1>2 DEF Ahead
<1> QED BY <1>1, <1>2, <1>3
        DEF OrderInv, ServiceInv, Running, NoFailures, SnapWhole, EndsServed

LEMMA ServiceList ==
    ASSUME Orderly, OrderInv, NEW i \in Lists, IsrList(i)
    PROVE  ServiceInv'
<1> DEFINE new == NewStatus(i)
           done == new # sts[i] /\ ListDone(new)
<1>0. /\ HandsTypeOK /\ LocalsTypeOK /\ Isr \in Threads
      /\ Running /\ NoFailures /\ SnapWhole /\ EndsServed
      /\ sts \in [Lists -> SUBSET (Waiting \cup Failed)]
      /\ \A j \in Lists, p \in Planes : isr.err[j][p] \subseteq {"under"}
      /\ Planes \subseteq Waiting
  <2>1. /\ HandsTypeOK /\ LocalsTypeOK /\ Isr \in Threads
        /\ Running /\ NoFailures /\ SnapWhole /\ EndsServed
        /\ sts \in [Lists -> SUBSET (Waiting \cup Failed)]
    BY DEF OrderInv, OwnInv, TypeInv, Hands, ServiceInv, DriverTypeOK, Threads
  <2>2. isr.err \in [Lists -> [Planes -> SUBSET Endings]]
    BY <2>1 DEF LocalsTypeOK
  <2>3. Endings \subseteq {"under"}
    BY DEF Orderly
  <2>4. Planes \subseteq Waiting
    BY RxAssumption DEF Waiting
  <2> QED BY <2>1, <2>2, <2>3, <2>4
<1>1. /\ pc[Isr] = (IF i = 0 THEN "list0" ELSE "list1")
      /\ Ahead(i) /\ ~(i = 1 /\ Ahead(0)) /\ pc[Isr] \notin Unread
  BY DEF IsrList, Ahead, Lists, Unread
<1>2. /\ isr'.list = i /\ isr'.snap = isr.snap /\ isr'.err = isr.err
      /\ sts' = [sts EXCEPT ![i] = IF done THEN {} ELSE new]
      /\ errsts' = [errsts EXCEPT ![i] = ClearedErrors(i)]
      /\ UNCHANGED <<valid, intr, stopPending, run>>
  BY <1>0 DEF IsrList, LocalsTypeOK
<1>3. new \subseteq sts[i] /\ \A p \in new : p \in valid[i]
  <2>1. Broken(i) = {}
    BY <1>0 DEF Broken
  <2>2. new \subseteq sts[i]
    BY <2>1 DEF NewStatus
  <2>3. ASSUME NEW p \in new, p \notin valid[i] PROVE FALSE
    <3>1. p \in sts[i] /\ p \in Planes
      BY <1>0, <2>2 DEF NoFailures
    <3>2. isr.err[i][p] # {}
      BY <1>0, <1>1, <2>3, <3>1 DEF EndsServed
    <3>3. Seen(i) /\ p \in Ended(i)
      BY <1>0, <3>1, <3>2 DEF Seen, Ended
    <3> QED BY <2>1, <2>3, <3>3 DEF NewStatus
  <2> QED BY <2>2, <2>3
<1>4. done => new = {}
  BY <1>0, <1>3 DEF ListDone, NoFailures
<1>5. PICK l : /\ Goto(Isr, l)
               /\ \/ l = "done_ok" \/ (l = "list1" /\ i = 0)
                  \/ (l = "tail" /\ i # 0)
  <2>1. Goto(Isr, CASE done /\ new = {} -> "done_ok"
                    [] done /\ new # {} -> "done_err"
                    [] ~done -> IF i = 0 THEN "list1" ELSE "tail")
    BY DEF IsrList, Goto
  <2> HIDE DEF done, new
  <2>2. CASE done
    <3>1. Goto(Isr, "done_ok")
      BY <1>4, <2>1, <2>2
    <3> QED BY <3>1
  <2>3. CASE ~done
    <3>1. Goto(Isr, IF i = 0 THEN "list1" ELSE "tail")
      BY <2>1, <2>3
    <3> QED BY <3>1
  <2> QED BY <2>2, <2>3
<1>6. pc'[Isr] = l /\ \A t \in Threads : pc'[t] \notin {"pause", "finalize"}
  BY <1>0, <1>5 DEF Goto, HandsTypeOK, Running
<1> HIDE DEF done, new
<1>7. /\ sts'[i] \subseteq sts[i] /\ sts'[i] \subseteq valid[i]
      /\ \A j \in Lists : j # i => sts'[j] = sts[j] /\ errsts'[j] = errsts[j]
  <2>1. errsts \in [Lists -> [Planes -> SUBSET Endings]]
    BY DEF OrderInv, OwnInv, TypeInv, DeviceTypeOK
  <2> QED BY <1>0, <1>2, <1>3, <2>1
<1>8. Running'
  BY <1>0, <1>2, <1>6 DEF Running
<1>9. NoFailures' /\ SnapWhole'
  <2>1. NoFailures'
    BY <1>0, <1>5, <1>6, <1>7 DEF NoFailures, Late
  <2>2. SnapWhole'
    BY <1>0, <1>1, <1>2 DEF SnapWhole, Unread
  <2> QED BY <2>1, <2>2
<1>10. EndsServed'
  <2> SUFFICES ASSUME NEW j \in Lists, NEW p \in sts'[j] \ valid[j]
               PROVE  /\ errsts'[j][p] # {} /\ <<j, p>> \in intr
                      /\ Ahead(j)' /\ isr.err[j][p] # {}
    BY <1>2 DEF EndsServed
  <2>1. j # i
    BY <1>7
  <2>2. /\ errsts[j][p] # {} /\ <<j, p>> \in intr
        /\ Ahead(j) /\ isr.err[j][p] # {}
    BY <1>0, <1>1, <1>7, <2>1 DEF EndsServed
  <2>3. i = 0 /\ j = 1
    BY <1>1, <2>1, <2>2 DEF Lists
  <2>4. Ahead(j)'
    BY <1>2, <1>5, <1>6, <2>3 DEF Ahead
  <2> QED BY <1>7, <2>1, <2>2, <2>4
<1> QED BY <1>8, <1>9, <1>10 DEF ServiceInv

\* Steps of the handler that only move a packet.
LEMMA ServiceMoves ==
    ASSUME OrderInv, IsrDone \/ IsrReady \/ IsrPib \/ IsrPibPut
    PROVE  ServiceInv'
<1>0. /\ HandsTypeOK /\ LocalsTypeOK /\ Isr \in Threads
      /\ Running /\ NoFailures /\ SnapWhole /\ EndsServed
  BY DEF OrderInv, OwnInv, TypeInv, Hands, ServiceInv, Threads
<1>1. /\ UNCHANGED <<sts, valid, errsts, intr, stopPending, run>>
      /\ isr'.list = isr.list /\ isr'.snap = isr.snap /\ isr'.err = isr.err
  BY <1>0 DEF IsrDone, IsrReady, IsrPib, IsrPibPut, lists, device, LocalsTypeOK
<1>2. PICK l : /\ Goto(Isr, l)
               /\ \/ pc[Isr] \in Unread /\ l \in {"pib", "pib_put"}
                  \/ pc[Isr] = "done_ok" /\ l = "ready"
                  \/ pc[Isr] = "ready" /\ l = NextList
  BY <1>0 DEF IsrDone, IsrReady, IsrPib, IsrPibPut, Unread, NoFailures, Late
<1>3. pc'[Isr] = l /\ \A t \in Threads : pc'[t] \notin {"pause", "finalize"}
  BY <1>0, <1>2 DEF Goto, HandsTypeOK, Running, NextList
<1>4. pc[Isr] # "idle"
  BY DEF IsrDone, IsrReady, IsrPib, IsrPibPut
<1>5. Running' /\ NoFailures' /\ SnapWhole'
  BY <1>0, <1>1, <1>2, <1>3, <1>4
     DEF Running, NoFailures, SnapWhole, NextList, Late, Unread
<1>6. \A i \in Lists : Ahead(i) => Ahead(i)'
  BY <1>1, <1>2, <1>3 DEF Ahead, NextList, Unread
<1>7. pc[Isr] \in Unread => pc'[Isr] \in Unread
  BY <1>2, <1>3 DEF Unread
<1>8. EndsServed'
  BY <1>0, <1>1, <1>6, <1>7 DEF EndsServed
<1> QED BY <1>5, <1>8 DEF ServiceInv

LEMMA ServiceReads ==
    ASSUME OrderInv, IsrEnter \/ IsrRx \/ IsrAck
    PROVE  ServiceInv'
<1>0. /\ HandsTypeOK /\ LocalsTypeOK /\ Isr \in Threads
      /\ Running /\ NoFailures /\ SnapWhole /\ EndsServed
  BY DEF OrderInv, OwnInv, TypeInv, Hands, ServiceInv, Threads
<1>1. UNCHANGED <<sts, valid, errsts, stopPending, run>>
  BY DEF IsrEnter, IsrRx, IsrAck, lists, device
<1>2. CASE IsrEnter
  <2>1. /\ intr' = intr /\ isr'.snap = intr /\ pc[Isr] = "idle"
        /\ \E l \in {"pib", "rx"} : Goto(Isr, l)
    BY <1>0, <1>2 DEF IsrEnter, device, LocalsTypeOK
  <2>2. /\ pc'[Isr] \in {"pib", "rx"}
        /\ \A t \in Threads : pc'[t] \notin {"pause", "finalize"}
    BY <1>0, <2>1 DEF Goto, HandsTypeOK, Running
  <2> QED BY <1>0, <1>1, <2>1, <2>2
          DEF ServiceInv, Running, NoFailures, SnapWhole, EndsServed, Unread
<1>3. CASE IsrRx
  <2>1. /\ intr' = intr /\ isr'.snap = isr.snap /\ pc[Isr] = "rx"
        /\ \/ Goto(Isr, "ack") /\ isr.snap = {}
           \/ Goto(Isr, "list0") /\ isr'.err = errsts
    BY <1>0, <1>3 DEF IsrRx, device, LocalsTypeOK
  <2>2. /\ \A t \in Threads : pc'[t] \notin {"pause", "finalize"}
        /\ \/ pc'[Isr] = "ack" /\ intr = {}
           \/ pc'[Isr] = "list0" /\ isr'.err = errsts
    BY <1>0, <2>1 DEF Goto, HandsTypeOK, Running, SnapWhole
  <2>3. Running' /\ NoFailures' /\ SnapWhole'
    BY <1>0, <1>1, <2>1, <2>2 DEF Running, NoFailures, SnapWhole, Late
  <2>4. EndsServed'
    BY <1>0, <1>1, <2>1, <2>2 DEF EndsServed, Ahead
  <2> QED BY <2>3, <2>4 DEF ServiceInv
<1>4. CASE IsrAck
  <2>1. /\ intr' = {} /\ pc[Isr] = "ack" /\ Goto(Isr, "idle")
    BY <1>0, <1>4 DEF IsrAck, SnapWhole
  <2>2. /\ pc'[Isr] = "idle"
        /\ \A t \in Threads : pc'[t] \notin {"pause", "finalize"}
    BY <1>0, <2>1 DEF Goto, HandsTypeOK, Running
  <2>3. \A i \in Lists : sts[i] \ valid[i] = {}
    BY <1>0, <2>1 DEF EndsServed, Ahead, Unread
  <2> QED BY <1>0, <1>1, <2>2, <2>3
          DEF ServiceInv, Running, NoFailures, SnapWhole, EndsServed, Unread
<1> QED BY <1>2, <1>3, <1>4

LEMMA ServiceEnds ==
    ASSUME Orderly, OrderInv, NEW i \in Lists, NEW p \in Planes,
           NEW ending \in Endings, HwComplete(i, p, ending)
    PROVE  ServiceInv'
<1>0. /\ Running /\ NoFailures /\ SnapWhole /\ EndsServed
      /\ valid \in [Lists -> SUBSET Planes]
      /\ errsts \in [Lists -> [Planes -> SUBSET Endings]]
  BY DEF OrderInv, OwnInv, TypeInv, ServiceInv, DeviceTypeOK
<1>1. /\ UNCHANGED <<pc, sts, isr, stopPending, run>>
      /\ valid' = [valid EXCEPT ![i] = @ \ {p}]
      /\ errsts' = [errsts EXCEPT ![i][p] = @ \cup {ending}]
      /\ intr' = intr \cup {<<i, p>>} /\ pc[Isr] = "idle"
  BY DEF HwComplete, threads, lists, Orderly
<1>2. \A j \in Lists : valid'[j] = IF j = i THEN valid[j] \ {p} ELSE valid[j]
  BY <1>0, <1>1
<1>3. \A j \in Lists, q \in Planes :
         errsts'[j][q] = IF j = i /\ q = p THEN errsts[j][q] \cup {ending}
                                           ELSE errsts[j][q]
  BY <1>0, <1>1
<1>4. EndsServed'
  <2> SUFFICES ASSUME NEW j \in Lists, NEW q \in sts[j] \ valid'[j]
               PROVE  errsts'[j][q] # {} /\ <<j, q>> \in intr'
    BY <1>1 DEF EndsServed, Unread
  <2>1. q \in Planes
    BY <1>0 DEF NoFailures
  <2>2. CASE j = i /\ q = p
    BY <1>1, <1>3, <2>1, <2>2
  <2>3. CASE ~(j = i /\ q = p)
    BY <1>0, <1>1, <1>2, <1>3, <2>1, <2>3 DEF EndsServed
  <2> QED BY <2>2, <2>3
<1> QED BY <1>0, <1>1, <1>2, <1>4
        DEF ServiceInv, Running, NoFailures, SnapWhole

-----------------------------------------------------------------------------
(***************************************************************************)
(* The pictures on their way.                                              *)
(***************************************************************************)
\* What the types and the ownership of packets say about a state in order.
LEMMA OrderTypes ==
    ASSUME OrderInv
    PROVE  /\ PacketsTypeOK /\ DriverTypeOK /\ HandsTypeOK /\ LocalsTypeOK
           /\ DeviceTypeOK /\ Isr \in Threads
           /\ Items(actq) \subseteq Pkt /\ Items(rdyq) \subseteq Pkt
           /\ Items(actq) \cap Items(rdyq) = {}
           /\ NoRepeats(actq) /\ NoRepeats(rdyq)
           /\ \A t \in Threads :
                 pkt[t] # NoPkt => /\ pkt[t] \notin Items(actq)
                                   /\ pkt[t] \notin Items(rdyq)
                                   /\ \A u \in Threads : pkt[u] = pkt[t] => u = t
           /\ \A p \in Items(freeq) : p \notin Items(rdyq)
<1>1. /\ PacketsTypeOK /\ DriverTypeOK /\ HandsTypeOK /\ LocalsTypeOK
      /\ DeviceTypeOK /\ Isr \in Threads /\ PacketOwnership
  BY DEF OrderInv, OwnInv, TypeInv, Hands, Threads
<1>2. Items(actq) \subseteq Pkt /\ Items(rdyq) \subseteq Pkt
  BY <1>1, ItemTypes DEF PacketsTypeOK
<1>3. /\ Items(actq) \cap Items(rdyq) = {} /\ Items(freeq) \cap Items(rdyq) = {}
      /\ Held \cap Items(actq) = {} /\ Held \cap Items(rdyq) = {}
  BY <1>1, PlacesAre DEF PacketOwnership, Disjoint, Places, Spot
<1>4. \A t \in Threads : pkt[t] # NoPkt => pkt[t] \in Held
  BY DEF Held
<1>5. \A t, u \in Threads : pkt[t] = pkt[u] /\ pkt[t] # NoPkt => t = u
  BY <1>1 DEF PacketOwnership, HeldOnce
<1>6. NoRepeats(actq) /\ NoRepeats(rdyq)
  BY <1>1 DEF PacketOwnership
<1> QED BY <1>1, <1>2, <1>3, <1>4, <1>5, <1>6

\* A busy list's packet is in the active queue with the tag of the list.
LEMMA TargetActive ==
    ASSUME OrderInv, NEW i \in Lists, sts[i] # {}
    PROVE  target[i] \in Items(actq) /\ tag[target[i]] = i
<1>1. target[i] \in Queued(i)
  BY DEF OrderInv, ActiveInv, OfEngine, DoneAt
<1> QED BY <1>1 DEF Queued

\* The remainder of a number below twice the divisor.
LEMMA Rest ==
    ASSUME NEW x \in 0..(2 * PicMod - 1)
    PROVE  x % PicMod = IF x < PicMod THEN x ELSE x - PicMod
<1>1. PicMod \in Nat /\ PicMod > 0
  BY RxAssumption
<1>2. CASE x < PicMod
  BY <1>1, <1>2
<1>3. CASE x >= PicMod
  <2>1. x - PicMod \in 0..(PicMod - 1) /\ x = PicMod * 1 + (x - PicMod)
    BY <1>1, <1>3
  <2>2. (x - PicMod) % PicMod = x - PicMod
    BY <1>1, <2>1
  <2>3. x % PicMod = (x - PicMod) % PicMod
    BY <1>1, <1>3, SMTT(20)
  <2> QED BY <1>1, <1>3, <2>2, <2>3
<1> QED BY <1>1, <1>2, <1>3

\* The number after a number, and the age of a number, without remainders.
LEMMA Successor ==
    ASSUME NEW n \in 0..PicMod
    PROVE  /\ (n % PicMod) + 1 \in 1..PicMod
           /\ (n % PicMod) + 1 = IF n = PicMod THEN 1 ELSE n + 1
<1>1. PicMod \in Nat /\ PicMod > 0
  BY RxAssumption
<1>2. n % PicMod = IF n < PicMod THEN n ELSE n - PicMod
  BY <1>1, Rest
<1> QED BY <1>1, <1>2

LEMMA AgeOfNumber ==
    ASSUME NEW p, hwPic \in 1..PicMod, picture[p] \in 1..PicMod
    PROVE  /\ Age(p) \in 0..(PicMod - 1)
           /\ Age(p) = IF picture[p] <= hwPic THEN hwPic - picture[p]
                                              ELSE hwPic + PicMod - picture[p]
<1> DEFINE x == hwPic + PicMod - picture[p]
<1>1. PicMod \in Nat /\ PicMod > 0
  BY RxAssumption
<1>2. x \in 0..(2 * PicMod - 1)
  BY <1>1
<1>3. x % PicMod = IF x < PicMod THEN x ELSE x - PicMod
  BY <1>2, Rest
<1>4. x < PicMod <=> ~(picture[p] <= hwPic)
  BY <1>1
<1> QED BY <1>1, <1>3, <1>4 DEF Age

\* With each new picture the others grow older, as far as the numbers reach.
LEMMA AgeGrows ==
    ASSUME NEW p, hwPic \in 1..PicMod, picture[p] \in 1..PicMod,
           Age(p) + 1 < PicMod, hwPic' = NextNumber, picture'[p] = picture[p]
    PROVE  Age(p)' = Age(p) + 1
<1> DEFINE a == Age(p)
           z == NextNumber + PicMod - picture[p]
<1>1. PicMod \in Nat /\ PicMod > 0
  BY RxAssumption
<1>2. /\ NextNumber \in 1..PicMod
      /\ NextNumber = IF hwPic = PicMod THEN 1 ELSE hwPic + 1
  BY <1>1, Successor DEF NextNumber
<1>3. Age(p)' = z % PicMod
  BY DEF Age
<1>4. z \in 0..(2 * PicMod - 1)
  BY <1>1, <1>2
<1>5. z % PicMod = IF z < PicMod THEN z ELSE z - PicMod
  BY <1>4, Rest
<1>6. a = IF picture[p] <= hwPic THEN hwPic - picture[p]
                                 ELSE hwPic + PicMod - picture[p]
  BY AgeOfNumber
<1>7. a + 1 < PicMod
  OBVIOUS
<1> HIDE DEF a
<1>8. IF z < PicMod THEN z = a + 1 ELSE z - PicMod = a + 1
  <2>1. CASE hwPic = PicMod
    BY <1>1, <1>2, <1>6, <1>7, <2>1
  <2>2. CASE hwPic # PicMod
    BY <1>1, <1>2, <1>6, <1>7, <2>2
  <2> QED BY <2>1, <2>2
<1>9. Age(p)' = a + 1
  BY <1>3, <1>5, <1>8
<1> QED BY <1>9 DEF a

\* The youngest.
LEMMA AgeZero ==
    ASSUME NEW p, hwPic \in 1..PicMod, picture[p] \in 1..PicMod
    PROVE  Age(p) = 0 <=> picture[p] = hwPic
  BY AgeOfNumber, RxAssumption

\* Ages of pictures on their way are numbers below PicMod.
LEMMA AgeNat ==
    ASSUME OrderInv, NEW p \in Chain
    PROVE  /\ p \in Pkt /\ hwPic \in 1..PicMod /\ picture[p] \in 1..PicMod
           /\ Age(p) \in 0..(PicMod - 1)
           /\ Age(p) = IF picture[p] <= hwPic THEN hwPic - picture[p]
                                              ELSE hwPic + PicMod - picture[p]
<1>1. p \in Pkt
  BY OrderTypes
     DEF Chain, Coming, Listed, OrderInv, OwnInv, TypeInv, Hands, HoldersHold,
         HoldLabels
<1>2. PicMod \in Nat /\ PicMod > 0
  BY RxAssumption
<1>3. hwPic \in 1..PicMod /\ picture[p] \in 1..PicMod
  <2>1. hwPic # 0 /\ picture[p] # 0
    BY DEF OrderInv, ChainInv
  <2>2. hwPic \in 0..PicMod /\ picture[p] \in 0..PicMod
    BY <1>1, OrderTypes DEF DeviceTypeOK
  <2> QED BY <1>2, <2>1, <2>2
<1> QED BY <1>1, <1>3, AgeOfNumber

\* Pictures that stay keep their ages.
LEMMA ChainKept ==
    ASSUME OrderInv, Coming' \subseteq Coming, Still
    PROVE  ChainInv'
<1>1. \A p \in Chain : Age(p)' = Age(p)
  BY DEF Age, Still
<1>2. Coming \subseteq Chain
  BY DEF Chain
<1> QED BY <1>1, <1>2 DEF OrderInv, ChainInv, Still

\* One that leaves the ready queue alone.
LEMMA OrderKept ==
    ASSUME OrderInv, rdyq' = rdyq, hwPic' = hwPic,
           \A p \in Items(rdyq) : flags'[p] = flags[p],
           \A p \in Listed : picture'[p] = picture[p]
    PROVE  FrameOrder' /\ Listed' = Listed
<1>1. \A k \in 1..Len(rdyq) : rdyq[k] \in Items(rdyq)
  BY OrderTypes, ItemAt DEF PacketsTypeOK
<1>2. Listed' = Listed
  BY DEF Listed
<1>3. \A k \in 1..Len(rdyq) :
         flags[rdyq[k]] = "data" => Age(rdyq[k])' = Age(rdyq[k])
  BY <1>1 DEF Listed, Age
<1> QED BY <1>1, <1>2, <1>3 DEF OrderInv, FrameOrder

-----------------------------------------------------------------------------
(***************************************************************************)
(* Posting a packet: it has no picture yet.                                *)
(***************************************************************************)
LEMMA ProgramPictures ==
    ASSUME OrderInv, NEW t \in Threads, Program(t)
    PROVE  PictureInv' /\ ChainInv' /\ FrameOrder' /\ Still
<1> DEFINE p == pkt[t]
           b == postIndex
<1>0. /\ HandsTypeOK /\ PacketsTypeOK /\ DeviceTypeOK /\ DriverTypeOK
      /\ Isr \in Threads /\ b \in Lists /\ "y" \in Planes
  BY OrderTypes, RxAssumption DEF DriverTypeOK
<1>1. p \in Pkt /\ p \notin Items(actq) /\ p \notin Items(rdyq)
  <2>1. p \in Pkt
    BY DEF Program, Posting, OrderInv, OwnInv, TypeInv, Hands, HoldersHold,
           HoldLabels
  <2>2. p # NoPkt
    BY <2>1, RxAssumption
  <2> QED BY <2>1, <2>2, OrderTypes
<1>2. /\ sts[b] = {} /\ sts' = [sts EXCEPT ![b] = Planes]
      /\ tag' = [tag EXCEPT ![p] = b]
      /\ target' = [target EXCEPT ![b] = p]
      /\ valid' = [valid EXCEPT ![b] = Planes]
      /\ picture' = [picture EXCEPT ![p] = 0]
      /\ actq' = DioqAdd(actq, p) /\ UNCHANGED <<rdyq, flags, hwPic, isr>>
      /\ Drop(t)
  BY DEF Program, PostTag, notices
<1>3. Items(actq') = Items(actq) \cup {p}
  BY <1>0, <1>1, <1>2, AddItem DEF PacketsTypeOK
<1>4. /\ \A q \in Pkt : q # p => tag'[q] = tag[q] /\ picture'[q] = picture[q]
      /\ tag'[p] = b /\ picture'[p] = 0
  BY <1>0, <1>1, <1>2 DEF PacketsTypeOK, DeviceTypeOK
<1>5. /\ \A i \in Lists : i # b => /\ sts'[i] = sts[i] /\ valid'[i] = valid[i]
                                   /\ target'[i] = target[i]
      /\ sts'[b] = Planes /\ valid'[b] = Planes /\ target'[b] = p
  BY <1>0, <1>2 DEF DriverTypeOK, DeviceTypeOK
<1>6. \/ t # Isr /\ pc'[Isr] = pc[Isr] /\ pkt'[Isr] = pkt[Isr]
      \/ t = Isr /\ pc[Isr] \in Late /\ pc'[Isr] \in Late
  <2>1. PICK l : Goto(t, l) /\ (t = Isr => l \in {"cap2", "ack"} /\ pc[Isr] \in Late)
    BY <1>0 DEF Program, Return, NextList, OrderInv, ServiceInv, NoFailures,
                Posting, Unread, Late
  <2> QED BY <1>0, <1>2, <2>1 DEF Goto, HandsTypeOK, Late, Drop, Hold
<1> HIDE DEF p, b
<1>7. CapturedByY'
  <2> SUFFICES ASSUME NEW i \in Lists, sts'[i] # {}
               PROVE  picture'[target'[i]] # 0 <=> "y" \notin valid'[i]
    BY DEF CapturedByY
  <2>1. CASE i = b
    BY <1>0, <1>4, <1>5, <2>1
  <2>2. CASE i # b
    <3>1. sts[i] # {}
      BY <1>5, <2>2
    <3>2. target[i] \in Items(actq)
      BY <3>1, TargetActive
    <3>3. target[i] \in Pkt /\ target[i] # p
      BY <1>1, <3>2, OrderTypes
    <3>4. picture'[target'[i]] = picture[target[i]] /\ valid'[i] = valid[i]
      BY <1>4, <1>5, <2>2, <3>3
    <3> QED BY <3>1, <3>4 DEF OrderInv, PictureInv, CapturedByY
  <2> QED BY <2>1, <2>2
<1>8. DoneCaptured'
  <2> SUFFICES ASSUME NEW i \in Lists, Completing(i)',
                      NEW q \in Queued(i)', q \notin OfEngine(i)'
               PROVE  picture'[q] # 0
    BY DEF DoneCaptured
  <2>1. Completing(i)
    BY <1>2, <1>6 DEF Completing, Late
  <2>2. q # p
    BY <1>0, <1>4, <1>5 DEF Queued, OfEngine
  <2>3. q \in Items(actq) /\ tag'[q] = i
    BY <1>3, <2>2 DEF Queued
  <2>4. q \in Pkt
    BY <2>3, OrderTypes
  <2>5. q \in Queued(i) /\ picture'[q] = picture[q]
    BY <1>4, <2>2, <2>3, <2>4 DEF Queued
  <2>6. q \notin OfEngine(i)
    BY <1>2, <1>5 DEF OfEngine
  <2> QED BY <2>1, <2>5, <2>6 DEF OrderInv, PictureInv, DoneCaptured
<1>9. TagsReal'
  <2> SUFFICES ASSUME NEW q \in Items(actq') PROVE tag'[q] \in Lists
    BY DEF TagsReal
  <2>1. q = p \/ (q # p /\ q \in Items(actq) /\ q \in Pkt)
    BY <1>3, OrderTypes
  <2> QED BY <1>0, <1>4, <2>1 DEF OrderInv, PictureInv, TagsReal
<1>10. HandFlags'
  BY <1>2, <1>6 DEF OrderInv, PictureInv, HandFlags, Late
<1>11. FrameOrder' /\ Listed' = Listed
  <2>1. \A q \in Listed : picture'[q] = picture[q]
    BY <1>1, <1>4, OrderTypes DEF Listed
  <2> QED BY <1>2, <2>1, OrderKept
<1>12. Coming' = Coming
  <2>1. {q \in Items(actq') : picture'[q] # 0} = {q \in Items(actq) : picture[q] # 0}
    BY <1>1, <1>3, <1>4, OrderTypes
  <2> QED BY <1>6, <2>1 DEF Coming, Late
<1>13. Still
  <2>1. p \notin Chain
    <3>1. p \notin Items(actq) /\ p \notin Listed
      BY <1>1 DEF Listed
    <3>2. pc[Isr] = "ready" => p # pkt[Isr]
      <4>1. p # NoPkt
        BY <1>1, RxAssumption
      <4>2. t # Isr => p # pkt[Isr]
        BY <1>0, <4>1, OrderTypes DEF p
      <4> QED BY <1>6, <4>2 DEF Late
    <3> QED BY <3>1, <3>2 DEF Chain, Coming
  <2>2. \A q \in Chain : q \in Pkt
    BY AgeNat
  <2>3. Chain' = Chain
    BY <1>11, <1>12 DEF Chain
  <2> QED BY <1>2, <1>4, <2>1, <2>2, <2>3 DEF Still
<1>14. ChainInv'
  BY <1>12, <1>13, ChainKept
<1> QED BY <1>7, <1>8, <1>9, <1>10, <1>11, <1>13, <1>14 DEF PictureInv

-----------------------------------------------------------------------------
(***************************************************************************)
(* Steps of the handler between the lists and the ready queue.             *)
(***************************************************************************)
\* What the handler does with a packet changes neither lists nor pictures.
LEMMA CapturedKept ==
    ASSUME OrderInv, UNCHANGED <<sts, target, picture, valid>>
    PROVE  CapturedByY'
  BY DEF OrderInv, PictureInv, CapturedByY

\* The packet fetched by tag has its picture.
LEMMA DonePictures ==
    ASSUME OrderInv, IsrDone
    PROVE  PictureInv' /\ ChainInv' /\ FrameOrder' /\ Still
<1>0. /\ HandsTypeOK /\ PacketsTypeOK /\ LocalsTypeOK /\ Isr \in Threads
      /\ pc[Isr] = "done_ok"
  BY OrderTypes DEF IsrDone, OrderInv, ServiceInv, NoFailures, Unread, Late
<1>1. PICK k \in 1..Len(actq) :
         /\ IsFirstTagged(actq, tag, isr.list, k)
         /\ Hold(Isr, actq[k])
         /\ actq' = RemoveAt(actq, k)
         /\ flags' = [flags EXCEPT ![actq[k]] = "data"]
  BY <1>0 DEF IsrDone
<1> DEFINE i == isr.list
           x == actq[k]
<1>2. i \in Lists /\ Completing(i)
  BY <1>0 DEF LocalsTypeOK, Completing
<1>3. PICK n \in 1..Len(actq) : DoneAt(i, n)
  BY <1>2 DEF OrderInv, ActiveInv
<1>4. n = k
  <2>1. IsFirstTagged(actq, tag, i, n) /\ IsFirstTagged(actq, tag, i, k)
    BY <1>1, <1>3 DEF DoneAt
  <2>2. Len(actq) \in Nat
    BY <1>0, LenProperties DEF PacketsTypeOK
  <2> QED BY <2>1, <2>2 DEF IsFirstTagged, Tagged
<1>5. x \in Items(actq) /\ x \in Queued(i) \ OfEngine(i)
  BY <1>0, <1>3, <1>4, ItemAt DEF DoneAt, PacketsTypeOK
<1>6. picture[x] # 0 /\ x \in Pkt /\ x \notin Items(rdyq)
  BY <1>2, <1>5, OrderTypes DEF OrderInv, PictureInv, DoneCaptured
<1>7. Items(actq') = Items(actq) \ {x}
  BY <1>0, <1>1, RemoveItem, OrderTypes DEF PacketsTypeOK
<1>8. /\ UNCHANGED <<rdyq, sts, target, picture, valid, hwPic, tag>>
      /\ pc'[Isr] = "ready" /\ pkt'[Isr] = x
  BY <1>0, <1>1 DEF IsrDone, lists, device, Goto, Hold, HandsTypeOK
<1> HIDE DEF x, i
<1>9. flags'[x] = "data" /\ \A q \in Items(rdyq) : flags'[q] = flags[q]
  <2>1. flags' = [flags EXCEPT ![x] = "data"]
    BY <1>1 DEF x
  <2> QED BY <1>0, <1>6, <2>1, OrderTypes DEF PacketsTypeOK
<1>10. PictureInv'
  <2>1. CapturedByY'
    BY <1>8, CapturedKept
  <2>2. DoneCaptured' /\ HandFlags'
    BY <1>8, <1>9 DEF DoneCaptured, HandFlags, Completing
  <2>3. TagsReal'
    BY <1>7, <1>8 DEF TagsReal, OrderInv, PictureInv
  <2> QED BY <2>1, <2>2, <2>3 DEF PictureInv
<1>11. FrameOrder' /\ Listed' = Listed
  BY <1>8, <1>9, OrderKept
<1>12. Coming' = Coming
  BY <1>0, <1>5, <1>6, <1>7, <1>8 DEF Coming
<1>13. ChainInv' /\ Still
  BY <1>8, <1>11, <1>12, ChainKept DEF Chain, Still
<1> QED BY <1>10, <1>11, <1>13

\* The picture that joins the ready queue is the youngest.
LEMMA ReadyPictures ==
    ASSUME OrderInv, IsrReady
    PROVE  PictureInv' /\ ChainInv' /\ FrameOrder' /\ Still
<1> DEFINE x == pkt[Isr]
           n == Len(rdyq)
<1>0. /\ HandsTypeOK /\ PacketsTypeOK /\ LocalsTypeOK /\ Isr \in Threads
      /\ pc[Isr] = "ready" /\ n \in Nat
  BY OrderTypes, LenProperties DEF IsrReady, PacketsTypeOK
<1>1. x \in Pkt /\ x \notin Items(actq) /\ x \notin Items(rdyq)
  <2>1. x \in Pkt
    BY <1>0 DEF OrderInv, OwnInv, TypeInv, Hands, HoldersHold, HoldLabels
  <2>2. x # NoPkt
    BY <2>1, RxAssumption
  <2> QED BY <1>0, <2>1, <2>2, OrderTypes
<1>2. /\ rdyq' = DioqAdd(rdyq, x) /\ Drop(Isr) /\ Goto(Isr, NextList)
      /\ UNCHANGED <<actq, sts, target, picture, valid, hwPic, tag, flags, isr>>
  BY DEF IsrReady, lists, device
<1>3. Items(rdyq') = Items(rdyq) \cup {x}
  BY <1>0, <1>1, <1>2, AddItem DEF PacketsTypeOK
<1>4. pc'[Isr] \in {"list1", "tail"}
  BY <1>0, <1>2 DEF Goto, HandsTypeOK, NextList
<1>5. flags[x] = "data"
  BY <1>0 DEF OrderInv, PictureInv, HandFlags
<1>6. x \in Coming /\ x \in Chain /\ x \notin Listed
  BY <1>0, <1>1 DEF Coming, Chain, Listed
<1>7. PictureInv'
  <2>1. CapturedByY'
    BY <1>2, CapturedKept
  <2>2. DoneCaptured' /\ HandFlags'
    BY <1>4 DEF DoneCaptured, HandFlags, Completing
  <2>3. TagsReal'
    BY <1>2 DEF TagsReal, OrderInv, PictureInv
  <2> QED BY <2>1, <2>2, <2>3 DEF PictureInv
<1>8. Listed' = Listed \cup {x}
  BY <1>2, <1>3, <1>5 DEF Listed
<1>9. Coming' = Coming \ {x}
  BY <1>0, <1>1, <1>2, <1>4 DEF Coming
<1>10. ChainInv' /\ Still
  <2>1. Chain' = Chain
    BY <1>6, <1>8, <1>9 DEF Chain
  <2> QED BY <1>2, <1>9, <2>1, ChainKept DEF Still
<1>11. \A j \in 1..n : flags[rdyq[j]] = "data" => Age(rdyq[j]) > Age(x)
  <2> SUFFICES ASSUME NEW j \in 1..n, flags[rdyq[j]] = "data"
               PROVE  Age(rdyq[j]) > Age(x)
    OBVIOUS
  <2>1. rdyq[j] \in Listed /\ rdyq[j] \in Chain
    BY <1>0, ItemAt DEF Listed, Chain, PacketsTypeOK
  <2>2. Age(x) = 0
    BY <1>6 DEF OrderInv, ChainInv
  <2>3. Age(rdyq[j]) # 0
    BY <1>6, <2>1, <2>2 DEF OrderInv, ChainInv
  <2>4. Age(rdyq[j]) \in Nat
    BY <2>1, AgeNat, RxAssumption
  <2> QED BY <2>2, <2>3, <2>4
<1>12. FrameOrder'
  <2>1. /\ rdyq' = Append(rdyq, x) /\ Len(rdyq') = n + 1 /\ rdyq'[n + 1] = x
        /\ \A j \in 1..n : rdyq'[j] = rdyq[j]
    BY <1>0, <1>1, <1>2, AppendProperties DEF DioqAdd, PacketsTypeOK
  <2>2. \A q : Age(q)' = Age(q)
    BY <1>2 DEF Age
  <2> SUFFICES ASSUME NEW j \in 1..(n + 1), NEW k \in 1..(n + 1), j < k,
                      flags[rdyq'[j]] = "data", flags[rdyq'[k]] = "data"
               PROVE  Age(rdyq'[j]) > Age(rdyq'[k])
    BY <1>2, <2>1, <2>2 DEF FrameOrder, Age
  <2> HIDE DEF x, n
  <2>3. j \in 1..n
    BY <1>0
  <2>4. CASE k = n + 1
    BY <1>11, <2>1, <2>3, <2>4
  <2>5. CASE k \in 1..n
    BY <2>1, <2>3, <2>5 DEF OrderInv, FrameOrder, n
  <2> QED BY <1>0, <2>4, <2>5
<1> QED BY <1>7, <1>10, <1>12

\* A packet that tells of a format change carries no picture.
LEMMA PibPictures ==
    ASSUME OrderInv, IsrPib
    PROVE  PictureInv' /\ ChainInv' /\ FrameOrder' /\ Still
<1> DEFINE p == DioqHead(freeq)
<1>0. /\ HandsTypeOK /\ PacketsTypeOK /\ Isr \in Threads
      /\ pc[Isr] = "pib" /\ freeq # << >>
  BY OrderTypes DEF IsrPib
<1>1. p \in Pkt /\ p \notin Items(rdyq)
  BY <1>0, FetchItem, OrderTypes DEF PacketsTypeOK
<1>2. /\ UNCHANGED <<actq, rdyq, sts, target, picture, valid, hwPic, tag>>
      /\ flags' = [flags EXCEPT ![p] = "fmt"]
      /\ pc'[Isr] = "pib_put" /\ pkt'[Isr] = p
  BY <1>0 DEF IsrPib, lists, Goto, Hold, HandsTypeOK
<1> HIDE DEF p
<1>3. flags'[p] = "fmt" /\ \A q \in Items(rdyq) : flags'[q] = flags[q]
  BY <1>0, <1>1, <1>2, OrderTypes DEF PacketsTypeOK
<1>4. PictureInv'
  <2>1. CapturedByY'
    BY <1>2, CapturedKept
  <2>2. DoneCaptured' /\ HandFlags'
    BY <1>2, <1>3 DEF DoneCaptured, HandFlags, Completing
  <2>3. TagsReal'
    BY <1>2 DEF TagsReal, OrderInv, PictureInv
  <2> QED BY <2>1, <2>2, <2>3 DEF PictureInv
<1>5. FrameOrder' /\ Listed' = Listed
  BY <1>2, <1>3, OrderKept
<1>6. Coming' = Coming
  BY <1>0, <1>2 DEF Coming
<1>7. ChainInv' /\ Still
  BY <1>2, <1>5, <1>6, ChainKept DEF Chain, Still
<1> QED BY <1>4, <1>5, <1>7

LEMMA PibPutPictures ==
    ASSUME OrderInv, IsrPibPut
    PROVE  PictureInv' /\ ChainInv' /\ FrameOrder' /\ Still
<1> DEFINE x == pkt[Isr]
           n == Len(rdyq)
<1>0. /\ HandsTypeOK /\ PacketsTypeOK /\ Isr \in Threads
      /\ pc[Isr] = "pib_put" /\ n \in Nat
  BY OrderTypes, LenProperties DEF IsrPibPut, PacketsTypeOK
<1>1. x \in Pkt
  BY <1>0 DEF OrderInv, OwnInv, TypeInv, Hands, HoldersHold, HoldLabels
<1>2. /\ rdyq' = DioqAdd(rdyq, x) /\ Goto(Isr, "pib")
      /\ UNCHANGED <<actq, sts, target, picture, valid, hwPic, tag, flags, isr>>
  BY DEF IsrPibPut, lists, device
<1>3. Items(rdyq') = Items(rdyq) \cup {x}
  BY <1>0, <1>1, <1>2, AddItem DEF PacketsTypeOK
<1>4. pc'[Isr] = "pib" /\ flags[x] = "fmt"
  BY <1>0, <1>2 DEF Goto, HandsTypeOK, OrderInv, PictureInv, HandFlags
<1>5. PictureInv'
  <2>1. CapturedByY'
    BY <1>2, CapturedKept
  <2>2. DoneCaptured' /\ HandFlags'
    BY <1>4 DEF DoneCaptured, HandFlags, Completing
  <2>3. TagsReal'
    BY <1>2 DEF TagsReal, OrderInv, PictureInv
  <2> QED BY <2>1, <2>2, <2>3 DEF PictureInv
<1>6. Listed' = Listed /\ Coming' = Coming
  BY <1>0, <1>2, <1>3, <1>4 DEF Listed, Coming
<1>7. ChainInv' /\ Still
  BY <1>2, <1>6, ChainKept DEF Chain, Still
<1>8. FrameOrder'
  <2>1. /\ rdyq' = Append(rdyq, x) /\ Len(rdyq') = n + 1 /\ rdyq'[n + 1] = x
        /\ \A j \in 1..n : rdyq'[j] = rdyq[j]
    BY <1>0, <1>1, <1>2, AppendProperties DEF DioqAdd, PacketsTypeOK
  <2> SUFFICES ASSUME NEW j \in 1..(n + 1), NEW k \in 1..(n + 1), j < k,
                      flags[rdyq'[j]] = "data", flags[rdyq'[k]] = "data"
               PROVE  Age(rdyq'[j]) > Age(rdyq'[k])
    BY <1>2, <2>1 DEF FrameOrder, Age
  <2> HIDE DEF x
  <2>2. k # n + 1
    BY <1>4, <2>1
  <2>3. j \in 1..n /\ k \in 1..n
    BY <1>0, <2>2
  <2> QED BY <2>1, <2>3 DEF OrderInv, FrameOrder
<1> QED BY <1>5, <1>7, <1>8

\* A list is found finished after its luma transfer has ended.
LEMMA ListPictures ==
    ASSUME OrderInv, ServiceInv', ListInv', NEW i \in Lists, IsrList(i)
    PROVE  PictureInv' /\ ChainInv' /\ FrameOrder' /\ Still
<1> DEFINE new == NewStatus(i)
           done == new # sts[i] /\ ListDone(new)
<1>0. /\ HandsTypeOK /\ PacketsTypeOK /\ LocalsTypeOK /\ DriverTypeOK
      /\ DeviceTypeOK /\ Isr \in Threads /\ pc[Isr] \in {"list0", "list1"}
  BY OrderTypes DEF IsrList
<1>1. /\ UNCHANGED <<actq, rdyq, target, picture, valid, hwPic, tag, flags, pkt>>
      /\ isr'.list = i
      /\ sts' = [sts EXCEPT ![i] = IF done THEN {} ELSE new]
      /\ pc' = [pc EXCEPT ![Isr] =
                   CASE done /\ new = {} -> "done_ok"
                     [] done /\ new # {} -> "done_err"
                     [] ~done -> IF i = 0 THEN "list1" ELSE "tail"]
  BY <1>0 DEF IsrList, LocalsTypeOK, queues
<1>2. sts[i] = {} => sts'[i] = {}
  <2>1. sts'[i] \subseteq Planes
    BY DEF ServiceInv, NoFailures
  <2>2. sts'[i] = IF done THEN {} ELSE new
    BY <1>0, <1>1 DEF DriverTypeOK
  <2>3. Planes \cap Failed = {}
    BY RxAssumption DEF Failed
  <2>4. new \cap Planes \subseteq sts[i]
    <3>1. {ErrorOf(p) : p \in Broken(i)} \subseteq Failed
      BY DEF ErrorOf, Failed
    <3> QED BY <2>3, <3>1 DEF NewStatus
  <2> QED BY <2>1, <2>2, <2>4
<1>3. /\ pc'[Isr] \in {"done_ok", "done_err", "list1", "tail"}
      /\ pc'[Isr] \in {"done_ok", "done_err"} => done
  <2> HIDE DEF done, new
  <2>1. pc'[Isr] = CASE done /\ new = {} -> "done_ok"
                     [] done /\ new # {} -> "done_err"
                     [] ~done -> IF i = 0 THEN "list1" ELSE "tail"
    BY <1>0, <1>1 DEF HandsTypeOK
  <2>2. CASE done
    BY <2>1, <2>2
  <2>3. CASE ~done
    <3>1. pc'[Isr] = IF i = 0 THEN "list1" ELSE "tail"
      BY <2>1, <2>3
    <3> QED BY <3>1
  <2> QED BY <2>2, <2>3
<1>4. \A j \in Lists : j # i => sts'[j] = sts[j]
  BY <1>1 DEF OrderInv
<1>5. done => sts'[i] = {} /\ sts[i] # {}
  <2>1. ASSUME done PROVE sts'[i] = {}
    BY <1>0, <1>1, <2>1 DEF DriverTypeOK
  <2>2. ASSUME done, sts[i] = {} PROVE FALSE
    <3>1. new # {} /\ new \cap Waiting = {}
      BY <2>2 DEF ListDone
    <3>2. new = {ErrorOf(p) : p \in Broken(i)} /\ Broken(i) # {}
      BY <2>2, <3>1 DEF NewStatus
    <3>3. pc'[Isr] = "done_err"
      BY <1>0, <1>1, <2>2, <3>1 DEF HandsTypeOK
    <3> QED BY <3>3 DEF ServiceInv, NoFailures, Unread, Late
  <2> QED BY <2>1, <2>2
<1> HIDE DEF done, new
<1>6. CapturedByY'
  <2>1. \A j \in Lists : sts'[j] # {} => sts[j] # {}
    BY <1>2, <1>4
  <2> QED BY <1>1, <2>1 DEF CapturedByY, OrderInv, PictureInv
<1>7. DoneCaptured'
  <2> SUFFICES ASSUME NEW j \in Lists, Completing(j)', NEW q \in Queued(j)'
               PROVE  picture[q] # 0
    BY <1>1 DEF DoneCaptured
  <2>1. j = i /\ done
    BY <1>1, <1>3 DEF Completing
  <2>2. ~Completing(i) /\ Queued(i)' = Queued(i)
    BY <1>0, <1>1 DEF Completing, Queued
  <2>3. q \in OfEngine(i)
    BY <2>1, <2>2 DEF OrderInv, ActiveInv
  <2>4. sts[i] # {} /\ q = target[i]
    BY <2>3 DEF OfEngine
  <2>5. "y" \notin valid[i]
    BY <1>1, <1>5, <2>1 DEF ListInv, ValidAwaited
  <2> QED BY <2>4, <2>5 DEF OrderInv, PictureInv, CapturedByY
<1>8. TagsReal' /\ HandFlags'
  <2>1. TagsReal'
    BY <1>1 DEF TagsReal, OrderInv, PictureInv
  <2>2. HandFlags'
    BY <1>3 DEF HandFlags
  <2> QED BY <2>1, <2>2
<1>9. FrameOrder' /\ Listed' = Listed
  BY <1>1, OrderKept
<1>10. Coming' = Coming
  BY <1>0, <1>1, <1>3 DEF Coming
<1>11. ChainInv' /\ Still
  BY <1>1, <1>9, <1>10, ChainKept DEF Chain, Still
<1> QED BY <1>6, <1>7, <1>8, <1>9, <1>11 DEF PictureInv

\* Reading and clearing the status registers.
LEMMA ReadPictures ==
    ASSUME OrderInv, IsrEnter \/ IsrRx \/ IsrAck
    PROVE  PictureInv' /\ ChainInv' /\ FrameOrder' /\ Still
<1>0. HandsTypeOK /\ Isr \in Threads
  BY OrderTypes
<1>1. /\ UNCHANGED <<actq, rdyq, sts, target, picture, valid, hwPic, tag, flags>>
      /\ pc[Isr] \in {"idle", "rx", "ack"}
      /\ \E l \in {"pib", "rx", "list0", "ack", "idle"} : Goto(Isr, l)
  BY DEF IsrEnter, IsrRx, IsrAck, lists, device, queues
<1>2. pc'[Isr] \in {"pib", "rx", "list0", "ack", "idle"}
  BY <1>0, <1>1 DEF Goto, HandsTypeOK
<1>3. PictureInv'
  <2>1. CapturedByY'
    BY <1>1, CapturedKept
  <2>2. DoneCaptured' /\ HandFlags'
    BY <1>2 DEF DoneCaptured, HandFlags, Completing
  <2>3. TagsReal'
    BY <1>1 DEF TagsReal, OrderInv, PictureInv
  <2> QED BY <2>1, <2>2, <2>3 DEF PictureInv
<1>4. FrameOrder' /\ Listed' = Listed
  BY <1>1, OrderKept
<1>5. Coming' = Coming
  BY <1>1, <1>2 DEF Coming
<1>6. ChainInv' /\ Still
  BY <1>1, <1>4, <1>5, ChainKept DEF Chain, Still
<1> QED BY <1>3, <1>4, <1>6

-----------------------------------------------------------------------------
(***************************************************************************)
(* Taking the head of the ready queue, which is the oldest picture.        *)
(***************************************************************************)
LEMMA HeadOldest ==
    ASSUME OrderInv, rdyq # << >>, Head(rdyq) \in Listed,
           NEW p \in Chain, p # Head(rdyq)
    PROVE  Age(p) < Age(Head(rdyq))
<1> DEFINE h == Head(rdyq)
           n == Len(rdyq)
<1>0. PacketsTypeOK
  BY OrderTypes
<1>1. n \in Nat \ {0} /\ h = rdyq[1]
  BY <1>0, EmptySeq, LenProperties, HeadTailProperties DEF PacketsTypeOK
<1> HIDE DEF n
<1>2. h \in Chain /\ Age(h) \in Nat /\ Age(p) \in Nat
  BY AgeNat, RxAssumption DEF Chain
<1>3. CASE p \in Listed
  <2>1. PICK k \in 1..n : rdyq[k] = p
    BY <1>0, <1>3, ItemAt DEF Listed, PacketsTypeOK, n
  <2>2. k # 1
    BY <1>1, <2>1
  <2>3. 1 \in 1..n /\ 1 < k /\ flags[rdyq[1]] = "data" /\ flags[rdyq[k]] = "data"
    BY <1>1, <1>3, <2>1, <2>2 DEF Listed
  <2>4. Age(rdyq[1]) > Age(rdyq[k])
    BY <2>1, <2>3 DEF OrderInv, FrameOrder, n
  <2> QED BY <1>1, <1>2, <2>1, <2>4
<1>4. CASE p \in Coming
  <2>1. Age(p) = 0
    BY <1>4 DEF OrderInv, ChainInv
  <2>2. Age(h) # 0
    BY <1>2, <2>1 DEF OrderInv, ChainInv
  <2> QED BY <1>2, <2>1, <2>2
<1> QED BY <1>3, <1>4 DEF Chain

LEMMA TakingPictures ==
    ASSUME OrderInv, NEW t \in Threads, t # Isr, Taking(t)
    PROVE  /\ PictureInv' /\ ChainInv' /\ FrameOrder'
           /\ Chain' = Chain \ {Head(rdyq)} /\ UNCHANGED <<hwPic, picture>>
<1> DEFINE h == Head(rdyq)
           n == Len(rdyq)
<1>0. HandsTypeOK /\ PacketsTypeOK /\ Isr \in Threads
  BY OrderTypes
<1>1. /\ UNCHANGED <<actq, sts, target, picture, valid, hwPic, tag, flags, isr>>
      /\ rdyq # << >> /\ rdyq' = DioqFetch(rdyq) /\ Hold(t, DioqHead(rdyq))
      /\ \E l : Goto(t, l)
  BY DEF Taking, FetchTake, PeekDrop, lists, device
<1>2. /\ n \in Nat \ {0} /\ h = rdyq[1] /\ h \in Items(rdyq)
      /\ rdyq' = Tail(rdyq) /\ Len(rdyq') = n - 1
      /\ \A k \in 1..(n - 1) : rdyq'[k] = rdyq[k + 1]
      /\ Items(rdyq') = Items(rdyq) \ {h}
  <2>1. n \in Nat \ {0}
    BY <1>0, <1>1, EmptySeq, LenProperties DEF PacketsTypeOK
  <2>2. /\ h = rdyq[1] /\ Len(Tail(rdyq)) = n - 1
        /\ \A k \in 1..(n - 1) : Tail(rdyq)[k] = rdyq[k + 1]
    BY <1>0, <1>1, <2>1, HeadTailProperties DEF PacketsTypeOK
  <2>3. h \in Items(rdyq) /\ Items(Tail(rdyq)) = Items(rdyq) \ {h}
    BY <1>0, <1>1, FetchItem, OrderTypes DEF PacketsTypeOK, DioqHead, DioqFetch
  <2> QED BY <1>1, <2>1, <2>2, <2>3 DEF DioqFetch
<1>3. pc'[Isr] = pc[Isr] /\ pkt'[Isr] = pkt[Isr]
  BY <1>0, <1>1 DEF Goto, Hold, HandsTypeOK
<1>4. PictureInv'
  <2>1. CapturedByY'
    BY <1>1, CapturedKept
  <2>2. \A i \in Lists : /\ Completing(i)' <=> Completing(i)
                         /\ Queued(i)' = Queued(i) /\ OfEngine(i)' = OfEngine(i)
    BY <1>1, <1>3 DEF Completing, Queued, OfEngine
  <2>3. DoneCaptured'
    BY <1>1, <2>2 DEF DoneCaptured, OrderInv, PictureInv
  <2>4. TagsReal' /\ HandFlags'
    BY <1>1, <1>3 DEF TagsReal, HandFlags, OrderInv, PictureInv
  <2> QED BY <2>1, <2>3, <2>4 DEF PictureInv
<1>5. \A p : Age(p)' = Age(p)
  BY <1>1 DEF Age
<1> HIDE DEF h, n
<1>6. /\ Coming' = Coming /\ Listed' = Listed \ {h}
      /\ Chain' = Coming \cup (Listed \ {h})
  <2>1. Coming' = Coming
    BY <1>1, <1>3 DEF Coming
  <2>2. Listed' = Listed \ {h}
    BY <1>1, <1>2 DEF Listed
  <2> QED BY <2>1, <2>2 DEF Chain
<1>7. Coming \cap Items(rdyq) = {}
  <2>1. pc[Isr] = "ready" => pkt[Isr] \in Pkt
    BY <1>0 DEF OrderInv, OwnInv, TypeInv, Hands, HoldersHold, HoldLabels
  <2>2. pc[Isr] = "ready" => pkt[Isr] \notin Items(rdyq)
    BY <1>0, <2>1, OrderTypes, RxAssumption
  <2> QED BY <2>2, OrderTypes DEF Coming
<1>8. ASSUME h \in Listed, NEW p \in Chain, p # h PROVE Age(p) < Age(h)
  BY <1>1, <1>8, HeadOldest DEF h
<1>9. Chain' \subseteq Chain
  BY <1>6 DEF Chain
<1>10. ChainInv'
  <2>1. ASSUME NEW p \in Chain', NEW b \in 0..Age(p)
        PROVE  \E q \in Chain' : Age(q) = b
    <3>1. PICK q \in Chain : Age(q) = b
      BY <1>9, <2>1 DEF OrderInv, ChainInv
    <3>2. CASE q \in Chain'
      BY <3>1, <3>2
    <3>3. CASE q \notin Chain'
      <4>1. q = h /\ h \in Listed /\ h \notin Chain'
        BY <1>6, <3>1, <3>3 DEF Chain
      <4>2. Age(p) < Age(h)
        BY <1>8, <1>9, <4>1
      <4>3. Age(p) \in Nat /\ Age(h) \in Nat
        BY <1>9, <3>1, <4>1, AgeNat, RxAssumption
      <4> QED BY <3>1, <4>1, <4>2, <4>3
    <3> QED BY <3>2, <3>3
  <2>2. ASSUME NEW p \in Chain', NEW b \in 0..(Age(p)')
        PROVE  \E q \in Chain' : Age(q)' = b
    <3>1. b \in 0..Age(p)
      BY <1>5
    <3>2. PICK q \in Chain' : Age(q) = b
      BY <2>1, <3>1
    <3> QED BY <1>5, <3>2
  <2>3. \A p \in Chain' : picture'[p] # 0 /\ hwPic' # 0
    BY <1>1, <1>9 DEF OrderInv, ChainInv
  <2>4. \A p, q \in Chain' : Age(p)' = Age(q)' => p = q
    BY <1>5, <1>9 DEF OrderInv, ChainInv
  <2>5. \A p \in Coming' : Age(p)' = 0
    BY <1>5, <1>6 DEF OrderInv, ChainInv
  <2> QED BY <2>2, <2>3, <2>4, <2>5 DEF ChainInv
<1>11. FrameOrder'
  <2> SUFFICES ASSUME NEW j \in 1..(n - 1), NEW k \in 1..(n - 1), j < k,
                      flags[rdyq'[j]] = "data", flags[rdyq'[k]] = "data"
               PROVE  Age(rdyq'[j]) > Age(rdyq'[k])
    BY <1>1, <1>2 DEF FrameOrder, Age
  <2>1. /\ j + 1 \in 1..n /\ k + 1 \in 1..n /\ j + 1 < k + 1
        /\ rdyq'[j] = rdyq[j + 1] /\ rdyq'[k] = rdyq[k + 1]
    BY <1>2
  <2> QED BY <2>1 DEF OrderInv, FrameOrder, n
<1>12. Chain' = Chain \ {h} /\ UNCHANGED <<hwPic, picture>>
  <2>1. h \notin Coming
    BY <1>2, <1>7
  <2> QED BY <1>1, <1>6, <2>1 DEF Chain
<1> QED BY <1>4, <1>10, <1>11, <1>12 DEF h

-----------------------------------------------------------------------------
(***************************************************************************)
(* A transfer ends.                                                        *)
(***************************************************************************)
\* Packets of all ages from 0 to n are fewer than all packets when one more
\* exists, so n is less than the numbers reach.
LEMMA YoungEnough ==
    ASSUME Orderly, NEW x \in Pkt, NEW S \in SUBSET (Pkt \ {x}), NEW n \in Nat,
           \A b \in 0..n : \E q \in S : Age(q) = b
    PROVE  n + 1 < PicMod
<1>0. PicMod \in Nat
  BY RxAssumption
<1> DEFINE ages == 0..n
           f == [b \in ages |-> CHOOSE q \in S : Age(q) = b]
<1>1. \A b \in ages : f[b] \in S /\ Age(f[b]) = b
  OBVIOUS
<1> HIDE DEF f
<1>2. f \in Injection(ages, Pkt \ {x})
  <2>1. f \in [ages -> Pkt \ {x}]
    BY <1>1 DEF f
  <2>2. \A a, b \in ages : f[a] = f[b] => a = b
    BY <1>1
  <2> HIDE DEF ages
  <2> QED BY <2>1, <2>2 DEF Injection, IsInjective
<1>3. /\ IsFiniteSet(Pkt \ {x}) /\ Cardinality(Pkt \ {x}) = Cardinality(Pkt) - 1
      /\ Cardinality(Pkt) \in Nat /\ Cardinality(Pkt) <= PicMod
  BY FS_RemoveElement, FS_CardinalityType DEF Orderly
<1>4. Cardinality(ages) = n + 1
  <2>1. n \in Int /\ 0 \in Int
    OBVIOUS
  <2> QED BY <2>1, FS_Interval
<1>5. Cardinality(ages) <= Cardinality(Pkt \ {x})
  <2> HIDE DEF ages
  <2> QED BY <1>2, <1>3, FS_Injection
<1> HIDE DEF ages
<1> QED BY <1>0, <1>3, <1>4, <1>5

\* When the handler rests and no interrupt is raised, every picture is in the
\* ready queue: both lists are as they were posted.
LEMMA NothingFresh ==
    ASSUME Orderly, OrderInv, intr = {}, pc[Isr] = "idle",
           \A i \in Lists : "y" \in valid[i] \/ valid[i] = {}
    PROVE  Coming = {}
<1>1. \A i \in Lists : sts[i] = valid[i]
  <2>1. \A i \in Lists : sts[i] \subseteq valid[i]
    BY DEF OrderInv, ServiceInv, EndsServed
  <2>2. \A i \in Lists : valid[i] \subseteq sts[i]
    BY DEF OrderInv, ListInv, ValidAwaited
  <2> QED BY <2>1, <2>2
<1>2. ASSUME NEW p \in Items(actq) PROVE picture[p] = 0
  <2>1. tag[p] \in Lists /\ p \in Queued(tag[p])
    BY <1>2 DEF OrderInv, PictureInv, TagsReal, Queued
  <2>2. p \in OfEngine(tag[p])
    BY <2>1 DEF OrderInv, ActiveInv, Completing
  <2>3. sts[tag[p]] # {} /\ p = target[tag[p]]
    BY <2>2 DEF OfEngine
  <2>4. "y" \in valid[tag[p]]
    BY <1>1, <2>1, <2>3
  <2> QED BY <2>1, <2>3, <2>4 DEF OrderInv, PictureInv, CapturedByY
<1> QED BY <1>2 DEF Coming

\* The luma transfer of a list brings a picture.
Decoding(x) ==
    /\ x \in Items(actq) \ Chain /\ Chain' = Chain \cup {x}
    /\ hwPic' = NextNumber /\ picture' = [picture EXCEPT ![x] = NextNumber]

LEMMA LumaPictures ==
    ASSUME Orderly, OrderInv, NEW i \in Lists, HwComplete(i, "y", "under")
    PROVE  PictureInv' /\ ChainInv' /\ FrameOrder' /\ Decoding(target[i])
<1>0. PICK x : x = target[i]
  OBVIOUS
<1>1. /\ HandsTypeOK /\ PacketsTypeOK /\ DeviceTypeOK /\ DriverTypeOK
      /\ Isr \in Threads /\ PicMod \in Nat \ {0} /\ hwPic \in 0..PicMod
  BY OrderTypes, RxAssumption DEF DeviceTypeOK
<1>2. /\ UNCHANGED <<actq, rdyq, tag, flags, sts, target, pc, pkt, isr>>
      /\ "y" \in valid[i] /\ valid[1 - i] \in {{}, Planes}
      /\ valid' = [valid EXCEPT ![i] = @ \ {"y"}]
      /\ hwPic' = NextNumber /\ picture' = [picture EXCEPT ![x] = hwPic']
      /\ intr = {} /\ pc[Isr] = "idle"
  BY <1>0 DEF HwComplete, Orderly, queues, lists, threads
<1>3. NextNumber \in 1..PicMod
  BY <1>1, Successor DEF NextNumber
<1>4. /\ sts[i] # {} /\ x \in Items(actq) /\ tag[x] = i /\ x \in Pkt
      /\ x \notin Items(rdyq) /\ picture[x] = 0
  <2>1. sts[i] # {}
    BY <1>2 DEF OrderInv, ListInv, ValidAwaited
  <2>2. picture[x] = 0
    BY <1>2, <1>0, <2>1 DEF OrderInv, PictureInv, CapturedByY
  <2> QED BY <1>0, <2>1, <2>2, TargetActive, OrderTypes
<1>5. Coming = {}
  <2>1. "y" \in Planes
    BY RxAssumption
  <2>2. \A j \in Lists : j = i \/ j = 1 - i
    BY DEF Lists
  <2> QED BY <1>2, <2>1, <2>2, NothingFresh
<1>6. /\ picture'[x] = NextNumber /\ picture'[x] # 0
      /\ \A q \in Pkt : q # x => picture'[q] = picture[q]
  BY <1>1, <1>2, <1>3, <1>4 DEF DeviceTypeOK
<1>7. CapturedByY'
  <2> SUFFICES ASSUME NEW j \in Lists, sts[j] # {}
               PROVE  picture'[target[j]] # 0 <=> "y" \notin valid'[j]
    BY <1>2 DEF CapturedByY
  <2>1. CASE j = i
    <3>1. "y" \notin valid'[j]
      BY <1>1, <1>2, <2>1 DEF DeviceTypeOK
    <3> QED BY <1>6, <1>0, <2>1, <3>1
  <2>2. CASE j # i
    <3>1. target[j] \in Pkt /\ target[j] # x
      BY <1>4, <2>2, TargetActive, OrderTypes
    <3>2. valid'[j] = valid[j]
      BY <1>1, <1>2, <2>2 DEF DeviceTypeOK
    <3> QED BY <1>6, <3>1, <3>2 DEF OrderInv, PictureInv, CapturedByY
  <2> QED BY <2>1, <2>2
<1>8. DoneCaptured' /\ TagsReal' /\ HandFlags'
  <2>1. DoneCaptured' /\ HandFlags'
    BY <1>2 DEF DoneCaptured, HandFlags, Completing
  <2>2. TagsReal'
    BY <1>2 DEF TagsReal, OrderInv, PictureInv
  <2> QED BY <2>1, <2>2
<1>9. x \notin Chain /\ Chain = Listed /\ Chain \subseteq Pkt
  BY <1>4, <1>5, AgeNat DEF Chain, Listed
<1>10. Listed' = Listed /\ Coming' = {x}
  <2>1. \A q \in Items(actq) : q \in Pkt /\ picture[q] = 0
    BY <1>5, OrderTypes DEF Coming
  <2>2. {q \in Items(actq) : picture'[q] # 0} = {x}
    BY <1>4, <1>6, <2>1
  <2>3. Coming' = {x}
    BY <1>2, <2>2 DEF Coming
  <2> QED BY <1>2, <2>3 DEF Listed
<1>11. Chain' = Chain \cup {x}
  BY <1>9, <1>10 DEF Chain
<1>12. ASSUME NEW p \in Chain
       PROVE  Age(p)' = Age(p) + 1 /\ picture'[p] # 0
  <2>1. hwPic \in 1..PicMod /\ picture[p] \in 1..PicMod /\ Age(p) \in Nat
    BY AgeNat, RxAssumption
  <2>2. Age(p) + 1 < PicMod
    <3>1. Chain \in SUBSET (Pkt \ {x})
      BY <1>9
    <3>2. PICK n \in Nat : n = Age(p)
      BY <2>1
    <3>3. \A b \in 0..n : \E q \in Chain : Age(q) = b
      BY <3>2 DEF OrderInv, ChainInv
    <3>4. n + 1 < PicMod
      BY <1>4, <3>1, <3>3, YoungEnough
    <3> QED BY <3>2, <3>4
  <2>3. picture'[p] = picture[p]
    BY <1>6, <1>9
  <2>4. picture[p] # 0
    BY <2>1
  <2> QED BY <1>2, <2>1, <2>2, <2>3, <2>4, AgeGrows
<1>13. Age(x)' = 0
  <2>1. Age(x)' = (NextNumber + PicMod - NextNumber) % PicMod
    BY <1>2, <1>6 DEF Age
  <2>2. NextNumber + PicMod - NextNumber = PicMod
    BY <1>1, <1>3
  <2>3. PicMod % PicMod = 0
    <3>1. PicMod \in 0..(2 * PicMod - 1)
      BY <1>1
    <3> QED BY <1>1, <3>1, Rest
  <2> QED BY <2>1, <2>2, <2>3
<1>14. \A p \in Chain : Age(p) \in Nat
  BY <1>1, AgeNat
<1>15. ChainInv'
  <2>1. \A p \in Chain' : picture'[p] # 0 /\ hwPic' # 0
    BY <1>2, <1>3, <1>6, <1>11, <1>12
  <2>2. ASSUME NEW p \in Chain', NEW b \in 0..(Age(p)')
        PROVE  \E q \in Chain' : Age(q)' = b
    <3>1. CASE b = 0
      BY <1>11, <1>13, <3>1
    <3>2. CASE b # 0
      <4>1. p # x
        BY <1>13, <2>2, <3>2
      <4>2. p \in Chain /\ Age(p)' = Age(p) + 1 /\ Age(p) \in Nat
        BY <1>11, <1>12, <1>14, <4>1
      <4>3. b - 1 \in 0..Age(p)
        BY <2>2, <3>2, <4>2
      <4>4. PICK q \in Chain : Age(q) = b - 1
        BY <4>2, <4>3 DEF OrderInv, ChainInv
      <4>5. Age(q)' = b
        BY <1>12, <2>2, <4>2, <4>3, <4>4
      <4> QED BY <1>11, <4>4, <4>5
    <3> QED BY <3>1, <3>2
  <2>3. ASSUME NEW p \in Chain', NEW q \in Chain', Age(p)' = Age(q)'
        PROVE  p = q
    <3>1. \A r \in Chain : Age(r)' # Age(x)'
      BY <1>12, <1>13, <1>14
    <3>2. CASE p \in Chain /\ q \in Chain
      <4>1. Age(p) = Age(q)
        BY <1>12, <1>14, <2>3, <3>2
      <4> QED BY <3>2, <4>1 DEF OrderInv, ChainInv
    <3> QED BY <1>11, <2>3, <3>1, <3>2
  <2>4. \A p \in Coming' : Age(p)' = 0
    BY <1>10, <1>13
  <2> QED BY <2>1, <2>2, <2>3, <2>4 DEF ChainInv
<1>16. FrameOrder'
  <2> SUFFICES ASSUME NEW j \in 1..Len(rdyq), NEW k \in 1..Len(rdyq), j < k,
                      flags[rdyq[j]] = "data", flags[rdyq[k]] = "data"
               PROVE  Age(rdyq[j])' > Age(rdyq[k])'
    BY <1>2 DEF FrameOrder
  <2>1. rdyq[j] \in Chain /\ rdyq[k] \in Chain
    BY <1>1, <1>9, ItemAt DEF Listed, PacketsTypeOK
  <2>2. Age(rdyq[j]) > Age(rdyq[k])
    BY DEF OrderInv, FrameOrder
  <2>3. PICK u \in Chain, v \in Chain : u = rdyq[j] /\ v = rdyq[k]
    BY <2>1
  <2>4. Age(u)' > Age(v)'
    BY <1>12, <1>14, <2>2, <2>3
  <2> QED BY <1>2, <2>3, <2>4 DEF Age
<1>17. Decoding(x)
  BY <1>2, <1>4, <1>9, <1>11 DEF Decoding
<1> QED BY <1>0, <1>7, <1>8, <1>15, <1>16, <1>17 DEF PictureInv

\* That of the chroma plane does not.
LEMMA ChromaPictures ==
    ASSUME OrderInv, NEW i \in Lists, NEW p \in Planes, p # "y",
           NEW ending, HwComplete(i, p, ending)
    PROVE  PictureInv' /\ ChainInv' /\ FrameOrder' /\ Still
<1>1. /\ UNCHANGED <<actq, rdyq, tag, flags, sts, target, pc, pkt, isr,
                     picture, hwPic>>
      /\ valid' = [valid EXCEPT ![i] = @ \ {p}]
  BY DEF HwComplete, queues, lists, threads
<1>2. \A j \in Lists : "y" \in valid'[j] <=> "y" \in valid[j]
  BY <1>1, OrderTypes DEF DeviceTypeOK
<1>3. \A j \in Lists : /\ Completing(j)' <=> Completing(j)
                       /\ Queued(j)' = Queued(j) /\ OfEngine(j)' = OfEngine(j)
  BY <1>1 DEF Completing, Queued, OfEngine
<1>4. CapturedByY' /\ DoneCaptured'
  BY <1>1, <1>2, <1>3 DEF OrderInv, PictureInv, CapturedByY, DoneCaptured
<1>5. TagsReal' /\ HandFlags'
  BY <1>1 DEF OrderInv, PictureInv, TagsReal, HandFlags
<1>6. FrameOrder' /\ Listed' = Listed
  BY <1>1, OrderKept
<1>7. Coming' = Coming
  BY <1>1 DEF Coming
<1>8. ChainInv' /\ Still
  BY <1>1, <1>6, <1>7, ChainKept DEF Chain, Still
<1> QED BY <1>4, <1>5, <1>6, <1>8 DEF PictureInv

-----------------------------------------------------------------------------
(***************************************************************************)
(* The theorem about the order.                                            *)
(***************************************************************************)
LEMMA OrderInit ==
    ASSUME Init PROVE OrderInv
<1>1. OwnInv /\ ListInv
  BY TypeInit, OwnInit, ListInit DEF OwnInv
<1>2. /\ Items(actq) = {} /\ Items(rdyq) = {} /\ Len(rdyq) = 0
      /\ sts = [i \in Lists |-> {}] /\ valid = [i \in Lists |-> {}]
      /\ \A t \in Threads : pc[t] = "idle"
      /\ Isr \in Threads /\ stopPending = FALSE
  BY DEF Init, Items, ToSet, Threads
<1>3. ActiveInv
  BY <1>2 DEF ActiveInv, Completing, Queued, OfEngine
<1>4. ServiceInv
  BY <1>2 DEF ServiceInv, Running, NoFailures, SnapWhole, EndsServed, Unread
<1>5. PictureInv
  BY <1>2 DEF PictureInv, CapturedByY, DoneCaptured, Completing, TagsReal,
              HandFlags
<1>6. Coming = {} /\ Chain = {}
  BY <1>2 DEF Coming, Listed, Chain
<1>7. ChainInv /\ FrameOrder
  BY <1>2, <1>6 DEF ChainInv, FrameOrder
<1> QED BY <1>1, <1>3, <1>4, <1>5, <1>7 DEF OrderInv

\* What becomes of the pictures on their way.
Taken == /\ \E t \in Threads : Taking(t) /\ rdyq # << >>
         /\ Chain' = Chain \ {Head(rdyq)} /\ UNCHANGED <<hwPic, picture>>
Effect == Still \/ Taken \/ \E x \in Items(actq) : Decoding(x)

LEMMA OrderStep ==
    ASSUME Orderly, OrderInv, [Next]_vars
    PROVE  OrderInv' /\ Effect
<1>1. NoFlush
  BY DEF Orderly, NoFlush
<1>2. OwnInv' /\ ListInv' /\ ActiveInv'
  BY <1>1, TypeStep, OwnStep, ListStep, ActiveStep DEF OrderInv, OwnInv
<1> SUFFICES ServiceInv' /\ PictureInv' /\ ChainInv' /\ FrameOrder' /\ Effect
  BY <1>2 DEF OrderInv
<1>3. CASE Calm
  BY <1>3, CalmStep DEF Effect
<1>4. ASSUME NEW t \in Threads, Program(t) \/ (t # Isr /\ Taking(t))
      PROVE  ServiceInv' /\ PictureInv' /\ ChainInv' /\ FrameOrder' /\ Effect
  <2>1. CASE Program(t)
    BY <2>1, ServiceProgram, ProgramPictures DEF Effect
  <2>2. CASE t # Isr /\ Taking(t)
    <3>1. rdyq # << >>
      BY <2>2 DEF Taking, FetchTake
    <3> QED BY <2>2, <3>1, ServiceTaking, TakingPictures DEF Effect, Taken
  <2> QED BY <1>4, <2>1, <2>2
<1>5. ASSUME NEW i \in Lists, IsrList(i)
      PROVE  ServiceInv' /\ PictureInv' /\ ChainInv' /\ FrameOrder' /\ Effect
  <2>1. ServiceInv'
    BY <1>5, ServiceList
  <2> QED BY <1>2, <1>5, <2>1, ListPictures DEF Effect
<1>6. CASE IsrDone \/ IsrReady \/ IsrPib \/ IsrPibPut
  <2>1. ServiceInv'
    BY <1>6, ServiceMoves
  <2> QED BY <1>6, <2>1, DonePictures, ReadyPictures, PibPictures, PibPutPictures
          DEF Effect
<1>7. CASE IsrEnter \/ IsrRx \/ IsrAck
  BY <1>7, ServiceReads, ReadPictures DEF Effect
<1>8. ASSUME NEW i \in Lists, NEW p \in Planes, NEW ending \in Endings,
             HwComplete(i, p, ending)
      PROVE  ServiceInv' /\ PictureInv' /\ ChainInv' /\ FrameOrder' /\ Effect
  <2>1. ServiceInv'
    BY <1>8, ServiceEnds
  <2>2. ending = "under"
    BY DEF Orderly
  <2>3. CASE p = "y"
    <3>1. Decoding(target[i])
      BY <1>8, <2>2, <2>3, LumaPictures
    <3>2. target[i] \in Items(actq)
      BY <3>1 DEF Decoding
    <3> QED BY <1>8, <2>1, <2>2, <2>3, <3>1, <3>2, LumaPictures DEF Effect
  <2>4. CASE p # "y"
    BY <1>8, <2>1, <2>4, ChromaPictures DEF Effect
  <2> QED BY <2>3, <2>4
<1> QED BY <1>3, <1>4, <1>5, <1>6, <1>7, <1>8, OrderSteps DEF Completion

\* The pictures wait in the ready queue in the order of their decoding, for any
\* number of packets that the picture numbers tell apart and of threads that
\* add, fetch and peek: two lists, each served as the handler finds it, two
\* planes that end in either order and packets that return at any time never
\* let a picture overtake another.
THEOREM PicturesInOrder ==
    ASSUME Orderly
    PROVE  Spec => []FrameOrder
<1>1. Init => OrderInv
  BY OrderInit
<1>2. OrderInv /\ [Next]_vars => OrderInv'
  BY OrderStep
<1>3. OrderInv => FrameOrder
  BY DEF OrderInv
<1> QED BY <1>1, <1>2, <1>3, PTL DEF Spec

-----------------------------------------------------------------------------
(***************************************************************************)
(* The path as a FIFO: what the contexts that look at pictures see.        *)
(***************************************************************************)
Readers == Fetchers \cup Peekers
Viewing == {"check", "deliver", "peek", "peek_put"}

\* A step that no reader takes while it has a picture: what the readers hold
\* stays as it is, and the ready queue grows at most at its end.
Grown == \/ rdyq' = rdyq
         \/ \E x \in Pkt : rdyq' = Append(rdyq, x) /\ flags'[x] \in {"data", "fmt"}
Aside ==
    /\ UNCHANGED <<numbers, look>>
    /\ \A u \in Readers :
          \/ pc[u] \notin Viewing /\ pc'[u] \notin Viewing
          \/ /\ pc'[u] = pc[u] /\ pkt'[u] = pkt[u]
             /\ pc[u] \in {"check", "deliver"}
                    => /\ flags'[pkt[u]] = flags[pkt[u]]
                       /\ picture'[pkt[u]] = picture[pkt[u]]
    /\ \A p \in Items(rdyq) : flags'[p] = flags[p]
    /\ Grown

\* A packet in a hand or in the ready queue is nowhere else.
LEMMA HeldApart ==
    ASSUME OrderInv, NEW t \in Threads, pkt[t] \in Pkt
    PROVE  /\ pkt[t] \notin pool /\ pkt[t] \notin Items(freeq)
           /\ pkt[t] \notin Items(actq) /\ pkt[t] \notin Items(rdyq)
           /\ \A u \in Threads : pkt[u] = pkt[t] => u = t
<1>1. pkt[t] \in Held /\ pkt[t] # NoPkt
  BY RxAssumption DEF Held
<1>2. PacketOwnership
  BY DEF OrderInv, OwnInv
<1>3. /\ Held \cap pool = {} /\ Held \cap Items(freeq) = {}
      /\ Held \cap Items(actq) = {} /\ Held \cap Items(rdyq) = {}
  BY <1>2, PlacesAre DEF PacketOwnership, Disjoint, Places, Spot
<1> QED BY <1>1, <1>2, <1>3 DEF PacketOwnership, HeldOnce

LEMMA ReadyApart ==
    ASSUME OrderInv, NEW p \in Items(rdyq)
    PROVE  /\ p \in Pkt /\ p \notin pool /\ p \notin Items(freeq)
           /\ p \notin Items(actq)
<1>1. PacketOwnership
  BY DEF OrderInv, OwnInv
<1>2. /\ Items(rdyq) \cap pool = {} /\ Items(rdyq) \cap Items(freeq) = {}
      /\ Items(rdyq) \cap Items(actq) = {}
  BY <1>1, PlacesAre DEF PacketOwnership, Disjoint, Places, Spot
<1> QED BY <1>2, OrderTypes

\* A fetch that looks at a picture, or returns one, holds its packet.
LEMMA ReaderHolds ==
    ASSUME OrderInv, NEW u \in Readers, pc[u] \in {"check", "deliver"}
    PROVE  pkt[u] \in Pkt
  BY RxAssumption
     DEF OrderInv, OwnInv, TypeInv, Hands, HoldersHold, HoldLabels, Readers,
         Threads

\* Flags are given to packets from the pool or a queue other than the ready
\* queue, pictures change in packets of the active queue or when one is posted.
FlagsApart ==
    \/ UNCHANGED flags
    \/ \E p \in pool \cup Items(freeq) \cup Items(actq) :
           \E f : flags' = [flags EXCEPT ![p] = f]
PicturesApart(t) ==
    \/ UNCHANGED picture
    \/ pkt[t] \in Pkt /\ picture' = [picture EXCEPT ![pkt[t]] = 0]
    \/ \E p \in Items(actq) : \E n : picture' = [picture EXCEPT ![p] = n]

LEMMA AsideStep ==
    ASSUME OrderInv, NEW t \in Threads, pc[t] \notin Viewing,
           pc'[t] \notin Viewing,
           \A u \in Threads : u # t => pc'[u] = pc[u] /\ pkt'[u] = pkt[u],
           Grown, FlagsApart, PicturesApart(t), UNCHANGED <<numbers, look>>
    PROVE  Aside
<1>0. /\ Readers \subseteq Threads
      /\ flags \in [Pkt -> {"none", "data", "fmt"}]
      /\ picture \in [Pkt -> 0..PicMod]
  BY OrderTypes DEF Readers, Threads, PacketsTypeOK, DeviceTypeOK
<1>1. \A p \in Items(rdyq) : flags'[p] = flags[p]
  BY <1>0, ReadyApart DEF FlagsApart
<1>2. ASSUME NEW u \in Readers, pc[u] \in {"check", "deliver"}
      PROVE  flags'[pkt[u]] = flags[pkt[u]] /\ picture'[pkt[u]] = picture[pkt[u]]
  <2>1. pkt[u] \in Pkt /\ u \in Threads /\ u # t
    BY <1>0, <1>2, ReaderHolds DEF Viewing
  <2>2. /\ pkt[u] \notin pool \cup Items(freeq) \cup Items(actq)
        /\ pkt[t] # pkt[u]
    BY <2>1, HeldApart
  <2>3. flags'[pkt[u]] = flags[pkt[u]]
    BY <1>0, <2>1, <2>2 DEF FlagsApart
  <2>4. picture'[pkt[u]] = picture[pkt[u]]
    BY <1>0, <2>1, <2>2 DEF PicturesApart
  <2> QED BY <2>3, <2>4
<1>3. ASSUME NEW u \in Readers
      PROVE  \/ pc[u] \notin Viewing /\ pc'[u] \notin Viewing
             \/ pc'[u] = pc[u] /\ pkt'[u] = pkt[u]
  BY <1>0
<1> QED BY <1>1, <1>2, <1>3 DEF Aside

\* The steps that readers take with a picture.
Reading ==
    \/ \E t \in Fetchers : FetchTake(t) \/ FetchDrop(t) \/ FetchKeep(t) \/ Deliver(t)
    \/ \E t \in Peekers : PeekBegin(t) \/ PeekStep(t)

LEMMA CaptureAside ==
    ASSUME OrderInv, NEW t \in Threads, Capture(t)
    PROVE  Aside
<1> USE DEF Capture, CapFetch, CapNoData, Program, PostBusy, PostBusyFree,
        Posting, queues, lists, device, notices, numbers
<1>0. HandsTypeOK
  BY OrderTypes
<1>1. PICK l : Goto(t, l) /\ l \notin Viewing
  BY DEF Return, NextList, Viewing
<1>2. /\ pc[t] \notin Viewing /\ pc'[t] \notin Viewing
      /\ \A u \in Threads : u # t => pc'[u] = pc[u] /\ pkt'[u] = pkt[u]
  BY <1>0, <1>1 DEF Viewing, Goto, Hold, Drop, HandsTypeOK
<1>3. UNCHANGED <<numbers, look, rdyq, flags>>
  OBVIOUS
<1>4. PicturesApart(t)
  <2>1. CASE Program(t)
    <3>1. pkt[t] \in Pkt
      BY <2>1 DEF OrderInv, OwnInv, TypeInv, Hands, HoldersHold, HoldLabels
    <3> QED BY <2>1, <3>1 DEF PicturesApart
  <2>2. CASE ~Program(t)
    <3>1. UNCHANGED picture
      BY <2>2
    <3> QED BY <3>1 DEF PicturesApart
  <2> QED BY <2>1, <2>2
<1> QED BY <1>2, <1>3, <1>4, AsideStep DEF Grown, FlagsApart

\* Steps of the application that no picture is in.
LEMMA AppAside ==
    ASSUME OrderInv, NEW t \in Threads,
           \/ AddAlloc(t) \/ XlatFail(t) \/ FmtAlloc(t) \/ AddFree(t)
           \/ FetchBegin(t) \/ FetchSignal(t) \/ FetchLook(t) \/ FetchWake(t)
           \/ FetchTimeout(t) \/ FetchNull(t) \/ FmtNoPkt(t) \/ FmtSet(t)
           \/ StartCapture(t)
    PROVE  Aside
<1> USE DEF AddAlloc, XlatFail, FmtAlloc, AddFree, FetchBegin, FetchSignal,
        FetchLook, FetchWake, FetchTimeout, FetchNull, FmtNoPkt, FmtSet,
        StartCapture, queues, lists, device, notices, numbers
<1>0. HandsTypeOK
  BY OrderTypes
<1>1. PICK l : Goto(t, l) /\ l \notin Viewing
  BY DEF Viewing
<1>2. /\ pc[t] \notin Viewing /\ pc'[t] \notin Viewing
      /\ \A u \in Threads : u # t => pc'[u] = pc[u] /\ pkt'[u] = pkt[u]
  BY <1>0, <1>1 DEF Viewing, Goto, Hold, Drop, HandsTypeOK
<1>3. UNCHANGED <<numbers, look, rdyq, picture>>
  OBVIOUS
<1>4. UNCHANGED flags \/ \E p \in pool : AllocPkt(p)
  OBVIOUS
<1>5. FlagsApart
  BY <1>4 DEF FlagsApart, AllocPkt
<1> QED BY <1>2, <1>3, <1>5, AsideStep DEF Grown, PicturesApart

LEMMA IsrAside ==
    ASSUME OrderInv, IsrStep PROVE Aside
<1> USE DEF queues, lists, device, notices, numbers
<1>0. HandsTypeOK /\ PacketsTypeOK /\ Isr \in Threads /\ LocalsTypeOK
  BY OrderTypes
<1>1. CASE Capture(Isr)
  BY <1>0, <1>1, CaptureAside
<1>2. CASE ~Capture(Isr)
  <2>1. /\ pc[Isr] \notin Viewing /\ pc'[Isr] \notin Viewing
        /\ \A u \in Threads : u # Isr => pc'[u] = pc[u]
    <3>1. CASE \E i \in Lists : IsrList(i)
      <4>1. PICK l : Goto(Isr, l) /\ l \in {"done_ok", "done_err", "list1", "tail"}
        BY <3>1 DEF IsrList, Goto
      <4> QED BY <1>0, <3>1, <4>1 DEF IsrList, Goto, HandsTypeOK, Viewing
    <3>2. CASE ~\E i \in Lists : IsrList(i)
      <4>1. PICK l : Goto(Isr, l) /\ l \notin Viewing
        BY <1>2, <3>2
           DEF IsrStep, IsrEnter, IsrPib, IsrPibPut, IsrPibDone, IsrRx, IsrDone,
               IsrReady, IsrNoPkt, IsrTail, IsrAck, Finalize, NextList, Viewing,
               Return
      <4>2. pc[Isr] \notin Viewing
        BY <1>2, <3>2
           DEF IsrStep, IsrEnter, IsrPib, IsrPibPut, IsrPibDone, IsrRx, IsrDone,
               IsrReady, IsrNoPkt, IsrTail, IsrAck, Finalize, Viewing
      <4> QED BY <1>0, <4>1, <4>2 DEF Goto, HandsTypeOK, Viewing
    <3> QED BY <3>1, <3>2
  <2>2. \A u \in Threads : u # Isr => pkt'[u] = pkt[u]
    BY <1>0, <1>2
       DEF IsrStep, IsrEnter, IsrPib, IsrPibPut, IsrPibDone, IsrRx, IsrList,
           IsrDone, IsrReady, IsrNoPkt, IsrTail, IsrAck, Finalize, Hold, Drop,
           HandsTypeOK
  <2>3. UNCHANGED <<numbers, look, picture>>
    BY <1>2
       DEF IsrStep, IsrEnter, IsrPib, IsrPibPut, IsrPibDone, IsrRx, IsrList,
           IsrDone, IsrReady, IsrNoPkt, IsrTail, IsrAck, Finalize
  <2>4. FlagsApart
    <3>1. CASE IsrPib
      <4>1. DioqHead(freeq) \in Items(freeq)
        BY <1>0, <3>1, FetchItem DEF IsrPib, PacketsTypeOK
      <4> QED BY <3>1, <4>1 DEF IsrPib, FlagsApart
    <3>2. CASE IsrDone
      <4>1. PICK k \in 1..Len(actq) :
               flags' = IF pc[Isr] = "done_ok"
                        THEN [flags EXCEPT ![actq[k]] = "data"] ELSE flags
        BY <3>2 DEF IsrDone
      <4>2. actq[k] \in Items(actq)
        BY <1>0, ItemAt DEF PacketsTypeOK
      <4> QED BY <4>1, <4>2 DEF FlagsApart
    <3>3. CASE ~IsrPib /\ ~IsrDone
      <4>1. UNCHANGED flags
        BY <1>2, <3>3
           DEF IsrStep, IsrEnter, IsrPibPut, IsrPibDone, IsrRx, IsrList,
               IsrReady, IsrNoPkt, IsrTail, IsrAck, Finalize
      <4> QED BY <4>1 DEF FlagsApart
    <3> QED BY <3>1, <3>2, <3>3
  <2>5. Grown
    <3>1. CASE IsrReady \/ IsrPibPut
      <4>1. rdyq' = Append(rdyq, pkt[Isr]) /\ UNCHANGED flags
        BY <3>1 DEF IsrReady, IsrPibPut, DioqAdd
      <4>2. pkt[Isr] \in Pkt /\ flags[pkt[Isr]] \in {"data", "fmt"}
        BY <1>0, <3>1
           DEF IsrReady, IsrPibPut, OrderInv, PictureInv, HandFlags, OwnInv,
               TypeInv, Hands, HoldersHold, HoldLabels
      <4> QED BY <4>1, <4>2 DEF Grown
    <3>2. CASE ~IsrReady /\ ~IsrPibPut
      <4>1. UNCHANGED rdyq
        BY <1>2, <3>2
           DEF IsrStep, IsrEnter, IsrPib, IsrPibDone, IsrRx, IsrList,
               IsrDone, IsrNoPkt, IsrTail, IsrAck, Finalize
      <4> QED BY <4>1 DEF Grown
    <3> QED BY <3>1, <3>2
  <2> QED BY <1>0, <2>1, <2>2, <2>3, <2>4, <2>5, AsideStep DEF PicturesApart
<1> QED BY <1>1, <1>2

LEMMA HwAside ==
    ASSUME OrderInv, HwStep PROVE Aside
<1> USE DEF queues, lists, device, notices, numbers, threads
<1>0. HandsTypeOK /\ Isr \in Threads /\ NoFailures
  BY OrderTypes DEF OrderInv, ServiceInv
<1>1. /\ UNCHANGED <<pc, pkt, numbers, look, rdyq, flags>>
  BY DEF HwStep, HwComplete, HwHalt, HwPib
<1>2. PicturesApart(Isr)
  <2>1. CASE UNCHANGED picture
    BY <2>1 DEF PicturesApart
  <2>2. CASE ~UNCHANGED picture
    <3>1. PICK i \in Lists, p \in Planes, e \in Endings : HwComplete(i, p, e)
      BY <2>2 DEF HwStep, HwHalt, HwPib
    <3>2. PICK n : picture' = [picture EXCEPT ![target[i]] = n]
      BY <2>2, <3>1 DEF HwComplete
    <3>3. sts[i] # {}
      BY <3>1 DEF HwComplete, OrderInv, ListInv, ValidAwaited
    <3>4. target[i] \in Items(actq)
      BY <3>3, TargetActive
    <3> QED BY <3>2, <3>4 DEF PicturesApart
  <2> QED BY <2>1, <2>2
<1>3. pc[Isr] \notin Viewing
  BY <1>0 DEF NoFailures, Unread, Late, Viewing
<1> QED BY <1>0, <1>1, <1>2, <1>3, AsideStep DEF Grown, FlagsApart

LEMMA ReaderSteps ==
    ASSUME Orderly, OrderInv, [Next]_vars
    PROVE  Aside \/ Reading
<1>0. /\ NoFlush /\ ListInv /\ Running /\ NoFailures /\ HandsTypeOK
      /\ Isr \in Threads
  BY OrderTypes DEF Orderly, NoFlush, OrderInv, ServiceInv
<1>1. CASE UNCHANGED vars
  <2>1. UNCHANGED <<pc, pkt, numbers, look, rdyq, flags, picture>>
    BY <1>1 DEF vars, queues, device, threads
  <2>2. pc[Isr] \notin Viewing
    BY <1>0 DEF NoFailures, Unread, Late, Viewing
  <2> QED BY <1>0, <2>1, <2>2, AsideStep DEF Grown, FlagsApart, PicturesApart
<1>2. ASSUME NEW t \in Controllers, Command(t) \/ ControlStep(t), ~Capture(t)
      PROVE  StartCapture(t)
  <2>1. t \in Threads
    BY DEF Threads
  <2>2. \/ StartCapture(t) \/ PauseCmd(t) \/ ResumeCmd(t)
        \/ PauseCheck(t) \/ Finalize(t)
    BY <1>0, <1>2, <2>1, NoFlushSteps
  <2> QED BY <1>0, <2>1, <2>2
          DEF PauseCmd, ResumeCmd, PauseCheck, Finalize, Running, Orderly
<1>3. ASSUME NEW t \in Adders \cup Fetchers \cup Peekers \cup Controllers
      PROVE  t \in Threads
  BY DEF Threads
<1>4. CASE \E t \in Adders : AddAlloc(t) \/ XlatFail(t) \/ AddStep(t)
  BY <1>3, <1>4, AppAside, CaptureAside DEF AddStep
<1>5. CASE \E t \in Fetchers : FetchBegin(t) \/ XlatFail(t) \/ FetchStep(t)
                               \/ FetchSignal(t)
  BY <1>3, <1>5, AppAside, CaptureAside DEF FetchStep, Reading
<1>6. CASE \E t \in Peekers : PeekBegin(t) \/ PeekStep(t)
  BY <1>6 DEF Reading
<1>7. CASE \E t \in Controllers : Command(t) \/ ControlStep(t)
  BY <1>2, <1>3, <1>7, AppAside, CaptureAside
<1> QED BY <1>1, <1>4, <1>5, <1>6, <1>7, IsrAside, HwAside DEF Next

-----------------------------------------------------------------------------
(***************************************************************************)
(* The pictures not yet delivered, and the numbers of those that were.     *)
(***************************************************************************)
\* What readers see carries a picture or tells of a format change; a peek looks
\* at the head of the ready queue.
LookInv ==
    /\ \A p \in Items(rdyq) : flags[p] \in {"data", "fmt"}
    /\ \A t \in Fetchers : pc[t] = "check" => flags[pkt[t]] \in {"data", "fmt"}
    /\ \A t \in Peekers :
          /\ pc[t] # "peek_put"
          /\ pc[t] = "peek" => rdyq # << >> /\ look[t] = Head(rdyq)

\* The picture a fetch looks at is the one before all that follow.
ViewedInv ==
    \A x \in Viewed :
        /\ picture[x] # 0 /\ hwPic # 0
        /\ \A p \in Chain : Age(p) < Age(x)
        /\ Age(x) = 0 \/ \E p \in Chain : Age(p) + 1 = Age(x)

\* The last two numbers that were kept are those before the oldest picture.
Oldest(p) == p \in Undelivered /\ \A q \in Undelivered : Age(q) <= Age(p)
After(n) == (n % PicMod) + 1
LastInv ==
    /\ lastTwoPic # 0 => lastPic # 0 /\ lastPic = After(lastTwoPic)
    /\ lastPic # 0 /\ Undelivered = {} => hwPic = lastPic
    /\ lastPic # 0 => \A p \in Undelivered : Oldest(p) => picture[p] = After(lastPic)

FifoInv == OrderInv /\ SemHeldInside /\ LookInv /\ ViewedInv /\ LastInv

\* Only one fetch looks at a time.
LEMMA OneViewed ==
    ASSUME OrderInv, SemHeldInside
    PROVE  /\ \A t \in Fetchers : pc[t] = "check" /\ flags[pkt[t]] = "data"
                                     => Viewed = {pkt[t]}
           /\ (\A t \in Fetchers : sem = t => pc[t] # "check") => Viewed = {}
           /\ \A x \in Viewed : x \in Pkt /\ x \notin Chain /\ x \notin Items(actq)
<1>1. \A t, u \in Fetchers : pc[t] = "check" /\ pc[u] = "check" => t = u
  BY DEF SemHeldInside
<1>2. \A t \in Fetchers : pc[t] = "check" => sem = t
  BY DEF SemHeldInside
<1>3. ASSUME NEW t \in Fetchers, pc[t] = "check", flags[pkt[t]] = "data"
      PROVE  Viewed = {pkt[t]}
  BY <1>1, <1>3 DEF Viewed
<1>4. ASSUME NEW x \in Viewed
      PROVE  x \in Pkt /\ x \notin Chain /\ x \notin Items(actq)
  <2>1. PICK t \in Fetchers : pc[t] = "check" /\ x = pkt[t]
    BY DEF Viewed
  <2>2. t \in Threads /\ t # Isr /\ x \in Pkt
    BY <2>1, ReaderHolds, RxAssumption DEF Readers, Threads
  <2>3. /\ x \notin Items(actq) /\ x \notin Items(rdyq)
        /\ \A u \in Threads : pkt[u] = x => u = t
    BY <2>1, <2>2, HeldApart
  <2> QED BY <2>2, <2>3 DEF Chain, Coming, Listed, Threads
<1> QED BY <1>2, <1>3, <1>4 DEF Viewed

\* Undelivered pictures have numbers, and ages without gap and repetition.
LEMMA UndeliveredAges ==
    ASSUME OrderInv, SemHeldInside, ViewedInv, NEW p \in Undelivered
    PROVE  /\ p \in Pkt /\ hwPic \in 1..PicMod /\ picture[p] \in 1..PicMod
           /\ Age(p) \in 0..(PicMod - 1)
           /\ \A b \in 0..Age(p) : \E q \in Undelivered : Age(q) = b
           /\ \A q \in Undelivered : Age(q) = Age(p) => q = p
<1>0. PicMod \in Nat \ {0}
  BY RxAssumption
<1>1. ASSUME NEW q \in Undelivered
      PROVE  /\ q \in Pkt /\ hwPic \in 1..PicMod /\ picture[q] \in 1..PicMod
             /\ Age(q) \in 0..(PicMod - 1)
  <2>1. CASE q \in Chain
    BY <2>1, AgeNat
  <2>2. CASE q \in Viewed
    <3>1. q \in Pkt /\ hwPic # 0 /\ picture[q] # 0
      BY <2>2, OneViewed DEF ViewedInv
    <3>2. hwPic \in 1..PicMod /\ picture[q] \in 1..PicMod
      BY <1>0, <3>1, OrderTypes DEF DeviceTypeOK
    <3> QED BY <3>1, <3>2, AgeOfNumber
  <2> QED BY <2>1, <2>2 DEF Undelivered
<1>2. ASSUME NEW q \in Chain, NEW b \in 0..Age(q)
      PROVE  \E s \in Undelivered : Age(s) = b
  BY <1>2 DEF OrderInv, ChainInv, Undelivered
<1>3. ASSUME NEW q \in Viewed, NEW b \in 0..Age(q)
      PROVE  \E s \in Undelivered : Age(s) = b
  <2>1. q \in Undelivered /\ Age(q) \in Nat
    BY <1>0, <1>1 DEF Undelivered
  <2>2. CASE b = Age(q)
    BY <2>1, <2>2
  <2>3. CASE b # Age(q)
    <3>1. PICK s \in Chain : Age(s) + 1 = Age(q)
      BY <1>3, <2>1, <2>3 DEF ViewedInv
    <3>2. s \in Undelivered /\ Age(s) \in Nat
      BY <1>0, <1>1 DEF Undelivered
    <3>3. b \in 0..Age(s)
      BY <1>3, <2>1, <2>3, <3>1, <3>2
    <3> QED BY <1>2, <3>3
  <2> QED BY <2>2, <2>3
<1>4. \A q, s \in Chain : Age(q) = Age(s) => q = s
  BY DEF OrderInv, ChainInv
<1>5. \A q \in Viewed, s \in Chain : Age(q) # Age(s)
  BY <1>0, <1>1 DEF ViewedInv, Undelivered
<1>6. \A q, s \in Viewed : q = s
  BY OneViewed DEF Viewed
<1> QED BY <1>1, <1>2, <1>3, <1>4, <1>5, <1>6 DEF Undelivered

\* No picture on its way is taken for one of the last two.
LEMMA NotRepeated ==
    ASSUME FifoInv, PicMod >= 3, NEW p, Oldest(p)
    PROVE  ~Repeated(p)
<1>1. p \in Undelivered /\ PicMod \in Nat \ {0}
  BY RxAssumption DEF Oldest
<1>2. picture[p] \in 1..PicMod
  BY <1>1, UndeliveredAges DEF FifoInv
<1>3. lastPic \in 0..PicMod /\ lastTwoPic \in 0..PicMod
  BY OrderTypes DEF DriverTypeOK, FifoInv
<1>4. lastPic # 0 => picture[p] = IF lastPic = PicMod THEN 1 ELSE lastPic + 1
  <2>1. lastPic # 0 => picture[p] = After(lastPic)
    BY <1>1 DEF FifoInv, LastInv
  <2> QED BY <1>3, <2>1, Successor DEF After
<1>5. lastTwoPic # 0
        => lastPic # 0 /\ lastPic = IF lastTwoPic = PicMod THEN 1 ELSE lastTwoPic + 1
  BY <1>1, <1>3, Successor DEF FifoInv, LastInv, After
<1> HIDE DEF Oldest
<1>6. picture[p] # lastPic
  BY <1>1, <1>2, <1>3, <1>4
<1>7. picture[p] # lastTwoPic
  BY <1>1, <1>2, <1>3, <1>4, <1>5
<1> QED BY <1>2, <1>6, <1>7 DEF Repeated

\* A fetch looks at the oldest picture, and so does a peek.
LEMMA ViewedOldest ==
    ASSUME FifoInv, NEW x \in Viewed PROVE Oldest(x)
<1>1. x \in Undelivered /\ Age(x) \in Nat
  BY UndeliveredAges, RxAssumption DEF FifoInv, Undelivered
<1>2. \A p \in Chain : Age(p) \in Nat
  BY AgeNat, RxAssumption DEF FifoInv
<1>3. Viewed = {x}
  BY OneViewed DEF Viewed, FifoInv
<1> QED BY <1>1, <1>2, <1>3 DEF Oldest, Undelivered, FifoInv, ViewedInv

LEMMA PeekedOldest ==
    ASSUME FifoInv, NEW t \in Peekers, pc[t] = "peek", flags[look[t]] # "fmt"
    PROVE  Oldest(look[t])
<1> DEFINE h == Head(rdyq)
<1>1. rdyq # << >> /\ look[t] = h
  BY DEF FifoInv, LookInv
<1>2. Viewed = {}
  <2>1. sem = t
    BY DEF FifoInv, SemHeldInside
  <2> QED BY <2>1, OneViewed DEF FifoInv
<1>3. h \in Items(rdyq)
  BY <1>1, FetchItem, OrderTypes DEF PacketsTypeOK, DioqHead, FifoInv
<1>4. h \in Listed
  BY <1>1, <1>3 DEF Listed, FifoInv, LookInv
<1>5. \A p \in Chain : p # h => Age(p) < Age(h)
  BY <1>1, <1>4, HeadOldest DEF FifoInv
<1>6. \A p \in Chain : Age(p) \in Nat
  BY AgeNat, RxAssumption DEF FifoInv
<1>7. h \in Chain /\ Undelivered = Chain
  BY <1>2, <1>4 DEF Chain, Undelivered
<1> HIDE DEF h
<1>8. Oldest(h)
  BY <1>5, <1>6, <1>7 DEF Oldest
<1> QED BY <1>1, <1>8

\* So nothing is dropped.
LEMMA NoDrops ==
    ASSUME FifoInv, PicMod >= 3
    PROVE  /\ \A t \in Fetchers : ~FetchDrop(t)
           /\ \A t \in Peekers : ~PeekDrop(t) /\ ~PeekPut(t)
<1>1. ASSUME NEW t \in Fetchers, FetchDrop(t) PROVE FALSE
  <2>1. pc[t] = "check" /\ flags[pkt[t]] # "fmt" /\ Repeated(pkt[t])
    BY <1>1 DEF FetchDrop
  <2>2. pkt[t] \in Viewed
    BY <2>1 DEF Viewed, FifoInv, LookInv
  <2> QED BY <2>1, <2>2, ViewedOldest, NotRepeated
<1>2. ASSUME NEW t \in Peekers, PeekDrop(t) PROVE FALSE
  <2>1. pc[t] = "peek" /\ flags[look[t]] # "fmt" /\ Repeated(look[t])
    BY <1>2 DEF PeekDrop, PeekDrops
  <2> QED BY <2>1, PeekedOldest, NotRepeated
<1>3. \A t \in Peekers : ~PeekPut(t)
  BY DEF PeekPut, FifoInv, LookInv
<1> QED BY <1>1, <1>2, <1>3

-----------------------------------------------------------------------------
(***************************************************************************)
(* How a step changes them.                                                *)
(***************************************************************************)
\* A step that is not a fetch or a drop leaves the pictures, or adds one.
LEMMA EffectGrown ==
    ASSUME OrderInv, Effect, Grown
    PROVE  Still \/ \E x \in Items(actq) : Decoding(x)
<1> SUFFICES ASSUME Taken PROVE FALSE
  BY DEF Effect
<1>1. rdyq # << >> /\ rdyq' = Tail(rdyq)
  BY DEF Taken, Taking, FetchTake, PeekDrop, DioqFetch
<1>2. rdyq \in Seq(Pkt)
  BY OrderTypes DEF PacketsTypeOK
<1>3. Len(rdyq) \in Nat /\ Len(Tail(rdyq)) = Len(rdyq) - 1
  BY <1>1, <1>2, LenProperties, HeadTailProperties
<1>4. \A x \in Pkt : Len(Append(rdyq, x)) = Len(rdyq) + 1
  BY <1>2, AppendProperties
<1>5. ASSUME NEW x \in Pkt, rdyq' = Append(rdyq, x) PROVE FALSE
  <2>1. Len(Tail(rdyq)) = Len(Append(rdyq, x))
    BY <1>1, <1>5
  <2> QED BY <1>3, <1>4, <2>1
<1>6. rdyq' # rdyq
  <2>1. Len(Tail(rdyq)) # Len(rdyq)
    BY <1>3
  <2> QED BY <1>1, <2>1
<1> QED BY <1>5, <1>6 DEF Grown

LEMMA EffectStill ==
    ASSUME OrderInv, Effect, UNCHANGED <<rdyq, picture>>
    PROVE  Still
<1> SUFFICES ASSUME NEW x \in Items(actq), Decoding(x) PROVE FALSE
  BY EffectGrown DEF Grown
<1>1. x \in Pkt /\ picture[x] = 0
  BY OrderTypes DEF Decoding, Chain, Coming
<1>2. picture'[x] = NextNumber
  BY <1>1, OrderTypes DEF Decoding, DeviceTypeOK
<1>3. NextNumber # 0
  <2>1. hwPic \in 0..PicMod
    BY OrderTypes DEF DeviceTypeOK
  <2> QED BY <2>1, Successor, RxAssumption DEF NextNumber
<1> QED BY <1>1, <1>2, <1>3

\* Readers that stand aside see what they saw.
LEMMA AsideViews ==
    ASSUME OrderInv, Aside
    PROVE  /\ Viewed' = Viewed /\ \A x \in Viewed : picture'[x] = picture[x]
           /\ Delivering' = Delivering
<1>1. ASSUME NEW t \in Fetchers
      PROVE  /\ pc'[t] = "check" <=> pc[t] = "check"
             /\ pc'[t] = "deliver" <=> pc[t] = "deliver"
             /\ pc[t] \in {"check", "deliver"}
                  => /\ pkt'[t] = pkt[t] /\ flags'[pkt[t]] = flags[pkt[t]]
                     /\ picture'[pkt[t]] = picture[pkt[t]]
  BY DEF Aside, Viewing, Readers
<1> QED BY <1>1 DEF Viewed, Delivering

LEMMA AsideLooks ==
    ASSUME OrderInv, LookInv, Aside
    PROVE  LookInv'
<1>0. PacketsTypeOK
  BY OrderTypes
<1>1. ASSUME NEW p \in Items(rdyq') PROVE flags'[p] \in {"data", "fmt"}
  <2>1. CASE p \in Items(rdyq)
    BY <2>1 DEF Aside, LookInv
  <2>2. CASE p \notin Items(rdyq)
    <3>1. PICK x \in Pkt : rdyq' = Append(rdyq, x) /\ flags'[x] \in {"data", "fmt"}
      BY <1>1, <2>2 DEF Aside, Grown
    <3>2. Items(rdyq') = Items(rdyq) \cup {x}
      BY <1>0, <3>1, AddItem DEF PacketsTypeOK, DioqAdd
    <3> QED BY <1>1, <2>2, <3>1, <3>2
  <2> QED BY <2>1, <2>2
<1>2. \A t \in Fetchers : pc'[t] = "check" => flags'[pkt'[t]] \in {"data", "fmt"}
  BY DEF Aside, Viewing, Readers, LookInv
<1>3. \A t \in Peekers :
         /\ pc'[t] # "peek_put" /\ look'[t] = look[t]
         /\ pc'[t] = "peek" => pc[t] = "peek"
  BY DEF Aside, Viewing, Readers, LookInv
<1>4. rdyq # << >> => rdyq' # << >> /\ Head(rdyq') = Head(rdyq)
  <2> SUFFICES ASSUME rdyq # << >>, NEW x \in Pkt, rdyq' = Append(rdyq, x)
               PROVE  rdyq' # << >> /\ Head(rdyq') = Head(rdyq)
    BY DEF Aside, Grown
  <2>1. /\ rdyq' \in Seq(Pkt) /\ rdyq' # << >> /\ Len(rdyq) \in Nat \ {0}
        /\ \A k \in 1..Len(rdyq) : rdyq'[k] = rdyq[k]
    BY <1>0, AppendProperties, EmptySeq, LenProperties DEF PacketsTypeOK
  <2>2. Head(rdyq') = rdyq'[1] /\ Head(rdyq) = rdyq[1]
    BY <1>0, <2>1, HeadTailProperties DEF PacketsTypeOK
  <2> QED BY <2>1, <2>2
<1> QED BY <1>1, <1>2, <1>3, <1>4 DEF LookInv

\* The same pictures, with the same numbers.
Kept == /\ Undelivered' = Undelivered /\ hwPic' = hwPic
        /\ \A p \in Undelivered : picture'[p] = picture[p]

LEMMA KeptAges ==
    ASSUME Kept
    PROVE  \A p \in Undelivered : /\ Age(p)' = Age(p)
                                  /\ Oldest(p)' <=> Oldest(p)
<1>1. \A p \in Undelivered : Age(p)' = Age(p)
  BY DEF Kept, Age
<1> QED BY <1>1 DEF Kept, Oldest

LEMMA LastKept ==
    ASSUME FifoInv, Kept, UNCHANGED numbers
    PROVE  LastInv'
  BY KeptAges DEF FifoInv, LastInv, Kept, numbers

LEMMA ViewedKept ==
    ASSUME FifoInv, Still, Viewed' \subseteq Viewed,
           \A x \in Viewed : picture'[x] = picture[x]
    PROVE  /\ ViewedInv'
           /\ Viewed' = Viewed => Kept
<1>1. \A p \in Chain \cup Viewed : Age(p)' = Age(p)
  BY DEF Still, Age
<1>2. ViewedInv'
  BY <1>1 DEF FifoInv, ViewedInv, Still
<1>3. Viewed' = Viewed => Kept
  BY DEF Kept, Still, Undelivered
<1> QED BY <1>2, <1>3

-----------------------------------------------------------------------------
(***************************************************************************)
(* What a step does to them.                                               *)
(***************************************************************************)
Passing == Kept /\ Delivering' = Delivering
Gave == Kept /\ \E n \in Delivering : Delivering' = Delivering \ {n}
Made ==
    /\ \E x \in Pkt :
          /\ x \notin Undelivered /\ Undelivered' = Undelivered \cup {x}
          /\ picture'[x] = NextNumber /\ Age(x)' = 0
    /\ hwPic' = NextNumber
    /\ \A p \in Undelivered : picture'[p] = picture[p] /\ Age(p)' = Age(p) + 1
    /\ Delivering' = Delivering
Chose ==
    /\ \E x : /\ Oldest(x) /\ Undelivered' = Undelivered \ {x}
              /\ Delivering' = Delivering \cup {picture[x]}
    /\ UNCHANGED <<hwPic, picture>>
Move == Passing \/ Gave \/ Made \/ Chose

LooksInv == LookInv /\ ViewedInv /\ LastInv

\* The picture just made is the youngest.
LEMMA AgeNew ==
    ASSUME NEW x, hwPic \in 0..PicMod, hwPic' = NextNumber, picture'[x] = NextNumber
    PROVE  Age(x)' = 0
<1>1. PicMod \in Nat \ {0} /\ NextNumber \in 1..PicMod
  BY RxAssumption, Successor DEF NextNumber
<1>2. Age(x)' = (NextNumber + PicMod - NextNumber) % PicMod
  BY DEF Age
<1>3. NextNumber + PicMod - NextNumber = PicMod
  BY <1>1
<1>4. PicMod % PicMod = 0
  <2>1. PicMod \in 0..(2 * PicMod - 1)
    BY <1>1
  <2> QED BY <1>1, <2>1, Rest
<1> QED BY <1>2, <1>3, <1>4

\* The picture of the age below has the number after.
LEMMA AgeNext ==
    ASSUME NEW p, NEW x, hwPic \in 1..PicMod, picture[p] \in 1..PicMod,
           picture[x] \in 1..PicMod, Age(p) + 1 = Age(x)
    PROVE  picture[p] = After(picture[x])
<1>1. /\ PicMod \in Nat \ {0}
      /\ After(picture[x]) = IF picture[x] = PicMod THEN 1 ELSE picture[x] + 1
  BY RxAssumption, Successor DEF After
<1>2. /\ Age(p) = IF picture[p] <= hwPic THEN hwPic - picture[p]
                                         ELSE hwPic + PicMod - picture[p]
      /\ Age(x) = IF picture[x] <= hwPic THEN hwPic - picture[x]
                                         ELSE hwPic + PicMod - picture[x]
  BY AgeOfNumber
<1> QED BY <1>1, <1>2

\* A picture is made.
LEMMA DecodingMakes ==
    ASSUME Orderly, FifoInv, Aside, NEW x \in Items(actq), Decoding(x)
    PROVE  Made /\ ViewedInv' /\ LastInv'
<1>0. /\ PicMod \in Nat \ {0} /\ hwPic \in 0..PicMod /\ OrderInv /\ SemHeldInside
      /\ ViewedInv /\ LastInv /\ picture \in [Pkt -> 0..PicMod] /\ x \in Pkt
  BY OrderTypes, RxAssumption DEF DeviceTypeOK, FifoInv
<1>1. NextNumber \in 1..PicMod
  BY <1>0, Successor DEF NextNumber
<1>2. /\ x \notin Chain /\ Chain' = Chain \cup {x} /\ hwPic' = NextNumber
      /\ picture'[x] = NextNumber /\ \A p \in Pkt : p # x => picture'[p] = picture[p]
  BY <1>0 DEF Decoding
<1>3. Viewed' = Viewed /\ Delivering' = Delivering /\ UNCHANGED numbers
  BY <1>0, AsideViews DEF Aside
<1>4. x \notin Viewed
  BY <1>0, OneViewed
<1>5. x \notin Undelivered /\ Undelivered' = Undelivered \cup {x}
  BY <1>2, <1>3, <1>4 DEF Undelivered
<1>6. Age(x)' = 0
  BY <1>0, <1>2, AgeNew
<1>7. \A p \in Undelivered :
         /\ p \in Pkt /\ hwPic \in 1..PicMod /\ picture[p] \in 1..PicMod
         /\ Age(p) \in Nat
  BY <1>0, UndeliveredAges
<1>8. ASSUME NEW p \in Undelivered
      PROVE  picture'[p] = picture[p] /\ Age(p)' = Age(p) + 1
  <2>1. picture'[p] = picture[p]
    BY <1>2, <1>5, <1>7
  <2>2. Undelivered \in SUBSET (Pkt \ {x})
    BY <1>5, <1>7
  <2>3. PICK n \in Nat : n = Age(p)
    BY <1>7
  <2>4. \A b \in 0..n : \E q \in Undelivered : Age(q) = b
    BY <1>0, <2>3, UndeliveredAges
  <2>5. n + 1 < PicMod
    BY <1>0, <2>2, <2>4, YoungEnough
  <2> QED BY <1>2, <1>7, <2>1, <2>3, <2>5, AgeGrows
<1>9. Made
  BY <1>0, <1>2, <1>3, <1>5, <1>6, <1>8 DEF Made
<1>10. ViewedInv'
  <2> SUFFICES ASSUME NEW v \in Viewed
               PROVE  /\ picture'[v] # 0 /\ hwPic' # 0
                      /\ \A p \in Chain' : Age(p)' < Age(v)'
                      /\ Age(v)' = 0 \/ \E p \in Chain' : Age(p)' + 1 = Age(v)'
    BY <1>3 DEF ViewedInv
  <2>1. /\ v \in Undelivered /\ Age(v) \in Nat /\ Age(v)' = Age(v) + 1
        /\ picture'[v] = picture[v] /\ picture[v] # 0
    BY <1>0, <1>7, <1>8 DEF Undelivered, ViewedInv
  <2>2. ASSUME NEW p \in Chain' PROVE Age(p)' < Age(v)'
    <3>1. CASE p = x
      BY <1>6, <2>1, <3>1
    <3>2. CASE p # x
      <4>1. /\ p \in Chain /\ Age(p) \in Nat /\ Age(p)' = Age(p) + 1
            /\ Age(p) < Age(v)
        BY <1>0, <1>2, <1>7, <1>8, <3>2 DEF Undelivered, ViewedInv
      <4> QED BY <2>1, <4>1
    <3> QED BY <3>1, <3>2
  <2>3. \E p \in Chain' : Age(p)' + 1 = Age(v)'
    <3>1. CASE Age(v) = 0
      BY <1>2, <1>6, <2>1, <3>1
    <3>2. CASE Age(v) # 0
      <4>1. PICK p \in Chain : Age(p) + 1 = Age(v)
        BY <1>0, <3>2 DEF ViewedInv
      <4>2. Age(p)' = Age(p) + 1 /\ Age(p) \in Nat /\ p \in Chain'
        BY <1>2, <1>7, <1>8 DEF Undelivered
      <4>3. Age(p)' + 1 = Age(v)'
        BY <2>1, <4>1, <4>2
      <4> QED BY <4>2, <4>3
    <3> QED BY <3>1, <3>2
  <2> QED BY <1>1, <1>2, <2>1, <2>2, <2>3
<1>11. LastInv'
  <2>1. lastPic' = lastPic /\ lastTwoPic' = lastTwoPic
    BY <1>3 DEF numbers
  <2>2. ASSUME NEW p \in Undelivered', lastPic # 0,
               \A q \in Undelivered' : Age(q)' <= Age(p)'
        PROVE  picture'[p] = After(lastPic)
    <3>1. CASE Undelivered = {}
      <4>1. p = x /\ hwPic = lastPic
        BY <1>0, <1>5, <2>2, <3>1 DEF LastInv
      <4> QED BY <1>2, <4>1 DEF NextNumber, After
    <3>2. CASE Undelivered # {}
      <4>1. p \in Undelivered
        <5>1. PICK q \in Undelivered : TRUE
          BY <3>2
        <5>2. Age(q)' <= Age(p)' /\ Age(q)' = Age(q) + 1 /\ Age(q) \in Nat
          BY <1>5, <1>7, <1>8, <2>2
        <5>3. p # x
          BY <1>6, <5>2
        <5> QED BY <1>5, <5>3
      <4>2. ASSUME NEW q \in Undelivered PROVE Age(q) <= Age(p)
        <5>1. /\ Age(q)' <= Age(p)' /\ Age(q)' = Age(q) + 1
              /\ Age(p)' = Age(p) + 1 /\ Age(p) \in Nat /\ Age(q) \in Nat
          BY <1>5, <1>7, <1>8, <2>2, <4>1
        <5> QED BY <5>1
      <4>3. Oldest(p)
        BY <4>1, <4>2 DEF Oldest
      <4> QED BY <1>0, <1>8, <2>2, <4>1, <4>3 DEF LastInv
    <3> QED BY <3>1, <3>2
  <2>3. Undelivered' # {}
    BY <1>5
  <2> QED BY <1>0, <2>1, <2>2, <2>3 DEF LastInv, Oldest, After
<1> QED BY <1>9, <1>10, <1>11

\* No reader has a hand in the step.
LEMMA AsideMoves ==
    ASSUME Orderly, FifoInv, Aside, Effect
    PROVE  LooksInv' /\ Move
<1>1. OrderInv /\ LookInv /\ Grown /\ UNCHANGED numbers
  BY DEF FifoInv, Aside
<1>2. LookInv'
  BY <1>1, AsideLooks
<1>3. CASE Still
  <2>1. /\ Viewed' = Viewed /\ \A x \in Viewed : picture'[x] = picture[x]
        /\ Delivering' = Delivering
    BY <1>1, AsideViews
  <2>2. ViewedInv' /\ Kept
    BY <1>3, <2>1, ViewedKept
  <2>3. LastInv'
    BY <1>1, <2>2, LastKept
  <2> QED BY <1>2, <2>1, <2>2, <2>3 DEF LooksInv, Move, Passing
<1>4. ASSUME NEW x \in Items(actq), Decoding(x) PROVE LooksInv' /\ Move
  BY <1>2, <1>4, DecodingMakes DEF LooksInv, Move
<1> QED BY <1>1, <1>3, <1>4, EffectGrown

-----------------------------------------------------------------------------
(***************************************************************************)
(* What the readers do to them.                                            *)
(***************************************************************************)
LEMMA TakeMoves ==
    ASSUME FifoInv, NEW t \in Fetchers, FetchTake(t)
    PROVE  LooksInv' /\ Move
<1> DEFINE h == Head(rdyq)
<1>0. /\ OrderInv /\ SemHeldInside /\ LookInv /\ ViewedInv
      /\ HandsTypeOK /\ PacketsTypeOK /\ t \in Threads /\ t # Isr
  BY OrderTypes, RxAssumption DEF FifoInv, Threads
<1>1. /\ pc[t] = "found" /\ sem = NoThread /\ rdyq # << >> /\ rdyq' = Tail(rdyq)
      /\ UNCHANGED <<flags, look, numbers, picture, hwPic>>
  BY DEF FetchTake, SemFree, DioqFetch, device
<1>2. /\ pc' = [pc EXCEPT ![t] = "check"] /\ pkt' = [pkt EXCEPT ![t] = h]
  BY DEF FetchTake, Goto, Hold, DioqHead
<1>3. /\ pc'[t] = "check" /\ pkt'[t] = h
      /\ \A u \in Fetchers \cup Peekers : u # t => pc'[u] = pc[u] /\ pkt'[u] = pkt[u]
  BY <1>0, <1>2 DEF HandsTypeOK, Threads
<1>4. \A u \in Fetchers \cup Peekers : pc[u] \notin {"check", "peek"}
  BY <1>0, <1>1, RxAssumption DEF SemHeldInside, Threads
<1>5. Viewed = {}
  BY <1>4 DEF Viewed
<1>6. h \in Items(rdyq) /\ \A p \in Items(rdyq') : p \in Items(rdyq)
  <2>1. h \in Items(rdyq) /\ Items(Tail(rdyq)) = Items(rdyq) \ {h}
    BY <1>0, <1>1, FetchItem, OrderTypes DEF PacketsTypeOK, DioqHead, DioqFetch
  <2> QED BY <1>1, <2>1
<1>7. Chain' = Chain \ {h}
  BY <1>0, TakingPictures DEF Taking
<1>8. flags[h] \in {"data", "fmt"}
  BY <1>0, <1>6 DEF LookInv
<1>9. Viewed' = IF flags[h] = "data" THEN {h} ELSE {}
  BY <1>1, <1>3, <1>4 DEF Viewed
<1>10. Delivering' = Delivering
  BY <1>1, <1>3 DEF Delivering
<1>11. /\ Undelivered' = Undelivered
       /\ flags[h] = "data" => h \in Listed /\ h \in Chain
  <2>1. CASE flags[h] = "data"
    <3>1. h \in Listed /\ h \in Chain
      BY <1>6, <2>1 DEF Listed, Chain
    <3> QED BY <1>5, <1>7, <1>9, <2>1, <3>1 DEF Undelivered
  <2>2. CASE flags[h] # "data"
    <3>1. h \notin Items(actq) /\ h # pkt[Isr]
      BY <1>0, <1>6, OrderTypes, RxAssumption DEF PacketsTypeOK
    <3>2. h \notin Chain
      BY <2>2, <3>1 DEF Chain, Coming, Listed
    <3> QED BY <1>5, <1>7, <1>9, <2>2, <3>2 DEF Undelivered
  <2> QED BY <2>1, <2>2
<1>12. Kept
  BY <1>1, <1>11 DEF Kept
<1>13. LastInv'
  BY <1>1, <1>12, LastKept
<1>14. LookInv'
  <2>1. \A p \in Items(rdyq') : flags'[p] \in {"data", "fmt"}
    BY <1>0, <1>1, <1>6 DEF LookInv
  <2>2. \A u \in Fetchers : pc'[u] = "check" => flags'[pkt'[u]] \in {"data", "fmt"}
    BY <1>1, <1>3, <1>4, <1>8
  <2>3. \A u \in Peekers : pc'[u] # "peek_put" /\ pc'[u] # "peek"
    BY <1>0, <1>3, <1>4 DEF LookInv
  <2> QED BY <2>1, <2>2, <2>3 DEF LookInv
<1>15. ViewedInv'
  <2>1. \A p : Age(p)' = Age(p)
    BY <1>1 DEF Age
  <2>2. ASSUME flags[h] = "data"
        PROVE  /\ picture[h] # 0 /\ hwPic # 0
               /\ \A p \in Chain \ {h} : Age(p) < Age(h)
               /\ Age(h) = 0 \/ \E p \in Chain \ {h} : Age(p) + 1 = Age(h)
    <3>1. h \in Listed /\ h \in Chain
      BY <1>11, <2>2
    <3>2. PICK n \in Nat : n = Age(h)
      BY <1>0, <3>1, AgeNat, RxAssumption
    <3>3. picture[h] # 0 /\ hwPic # 0
      BY <1>0, <3>1 DEF OrderInv, ChainInv
    <3>4. \A p \in Chain \ {h} : Age(p) < Age(h)
      BY <1>0, <1>1, <3>1, HeadOldest
    <3>5. ASSUME n # 0 PROVE \E p \in Chain \ {h} : Age(p) + 1 = n
      <4>1. n - 1 \in 0..n /\ n - 1 # n
        BY <3>2, <3>5
      <4>2. PICK p \in Chain : Age(p) = n - 1
        BY <1>0, <3>1, <3>2, <4>1 DEF OrderInv, ChainInv
      <4>3. p # h /\ Age(p) + 1 = n
        BY <3>2, <4>1, <4>2
      <4> QED BY <4>2, <4>3
    <3> QED BY <3>2, <3>3, <3>4, <3>5
  <2> HIDE DEF h
  <2> QED BY <1>1, <1>7, <1>9, <2>1, <2>2 DEF ViewedInv
<1> QED BY <1>10, <1>12, <1>13, <1>14, <1>15 DEF LooksInv, Move, Passing

\* A fetch keeps the picture it looks at, the oldest.
LEMMA KeepMoves ==
    ASSUME FifoInv, Effect, NEW t \in Fetchers, FetchKeep(t)
    PROVE  LooksInv' /\ Move
<1> DEFINE x == pkt[t]
<1>0. /\ OrderInv /\ SemHeldInside /\ LookInv /\ ViewedInv /\ LastInv
      /\ HandsTypeOK /\ t \in Threads
  BY OrderTypes DEF FifoInv, Threads
<1>1. /\ pc[t] = "check" /\ UNCHANGED <<rdyq, actq, pkt, flags, look, picture, hwPic>>
  BY DEF FetchKeep, queues, device
<1>2. pc' = [pc EXCEPT ![t] = "deliver"]
  BY DEF FetchKeep, Goto
<1>3. /\ pc'[t] = "deliver"
      /\ \A u \in Fetchers \cup Peekers : u # t => pc'[u] = pc[u]
  BY <1>0, <1>2 DEF HandsTypeOK, Threads
<1>4. \A u \in Fetchers \cup Peekers : u # t => pc[u] \notin {"check", "peek"}
  BY <1>0, <1>1 DEF SemHeldInside
<1>5. Still
  BY <1>0, <1>1, EffectStill
<1>6. Viewed' = {}
  BY <1>3, <1>4 DEF Viewed
<1>7. LookInv' /\ ViewedInv'
  BY <1>0, <1>1, <1>3, <1>4, <1>6 DEF LookInv, ViewedInv
<1>8. flags[x] \in {"data", "fmt"}
  BY <1>0, <1>1 DEF LookInv
<1>9. Delivering' = IF flags[x] = "data" THEN Delivering \cup {picture[x]}
                                         ELSE Delivering
  <2>1. \A u \in Fetchers : pc'[u] = "deliver" <=> pc[u] = "deliver" \/ u = t
    BY <1>1, <1>3
  <2>2. UNCHANGED <<flags, pkt, picture>>
    BY <1>1
  <2>3. CASE flags[x] = "data"
    BY <2>1, <2>2, <2>3 DEF Delivering
  <2>4. CASE flags[x] # "data"
    BY <1>1, <2>1, <2>2, <2>4 DEF Delivering
  <2> QED BY <2>3, <2>4
<1>10. CASE flags[x] = "fmt"
  <2>1. Viewed = {}
    BY <1>4, <1>10 DEF Viewed
  <2>2. UNCHANGED numbers
    BY <1>10 DEF FetchKeep
  <2>3. Kept
    BY <1>5, <1>6, <2>1 DEF Kept, Still, Undelivered
  <2>4. LastInv'
    BY <2>2, <2>3, LastKept
  <2> QED BY <1>7, <1>9, <1>10, <2>3, <2>4 DEF LooksInv, Move, Passing
<1>11. CASE flags[x] = "data"
  <2>1. Viewed = {x} /\ x \notin Chain
    <3>1. Viewed = {x}
      BY <1>0, <1>1, <1>11, OneViewed
    <3> QED BY <1>0, <3>1, OneViewed
  <2>2. /\ x \in Undelivered /\ Undelivered' = Chain
        /\ Undelivered' = Undelivered \ {x}
    BY <1>5, <1>6, <2>1 DEF Undelivered, Still
  <2>3. /\ picture[x] # 0 /\ picture[x] \in 1..PicMod /\ hwPic \in 1..PicMod
        /\ Age(x) \in Nat /\ \A p \in Chain : Age(p) < Age(x)
        /\ Age(x) = 0 \/ \E p \in Chain : Age(p) + 1 = Age(x)
    BY <1>0, <2>1, <2>2, UndeliveredAges, RxAssumption DEF ViewedInv
  <2>4. Oldest(x)
    BY <2>1, ViewedOldest
  <2>5. lastTwoPic' = lastPic /\ lastPic' = picture[x]
    BY <1>11, <2>3 DEF FetchKeep, Remember
  <2>6. \A p : Age(p)' = Age(p)
    BY <1>1 DEF Age
  <2>7. lastPic # 0 => picture[x] = After(lastPic)
    BY <1>0, <2>2, <2>4 DEF LastInv
  <2>8. ASSUME Chain = {} PROVE hwPic = picture[x]
    BY <2>3, <2>8, AgeZero
  <2>9. ASSUME NEW p \in Chain, \A q \in Chain : Age(q) <= Age(p)
        PROVE  picture[p] = After(picture[x])
    <3>1. Age(p) \in Nat /\ picture[p] \in 1..PicMod /\ Age(p) < Age(x)
      BY <1>0, <2>3, AgeNat, RxAssumption
    <3>2. PICK q \in Chain : Age(q) + 1 = Age(x)
      BY <2>3, <3>1
    <3>3. Age(q) \in Nat /\ Age(q) <= Age(p)
      BY <1>0, <2>9, AgeNat, RxAssumption
    <3>4. Age(p) + 1 = Age(x)
      BY <2>3, <3>1, <3>2, <3>3
    <3> HIDE DEF x
    <3> QED BY <2>3, <3>1, <3>4, AgeNext
  <2>10. LastInv'
    <3> SUFFICES /\ lastPic # 0 => picture[x] # 0 /\ picture[x] = After(lastPic)
                 /\ picture[x] # 0 /\ Chain = {} => hwPic = picture[x]
                 /\ \A p \in Chain : (\A q \in Chain : Age(q) <= Age(p))
                                        => picture[p] = After(picture[x])
      <4>1. \A p : Oldest(p)' <=> p \in Chain /\ \A q \in Chain : Age(q) <= Age(p)
        BY <2>2, <2>6 DEF Oldest
      <4> HIDE DEF x
      <4> QED BY <1>1, <2>2, <2>5, <4>1 DEF LastInv, After
    <3> QED BY <2>3, <2>7, <2>8, <2>9
  <2>11. Chose
    BY <1>1, <1>9, <1>11, <2>2, <2>4 DEF Chose
  <2> QED BY <1>7, <2>10, <2>11 DEF LooksInv, Move
<1> QED BY <1>8, <1>10, <1>11

\* A picture is delivered.
LEMMA DeliverMoves ==
    ASSUME FifoInv, Effect, NEW t \in Fetchers, Deliver(t)
    PROVE  LooksInv' /\ Move
<1>0. OrderInv /\ LookInv /\ HandsTypeOK /\ t \in Threads
  BY OrderTypes DEF FifoInv, Threads
<1>1. /\ pc[t] = "deliver" /\ UNCHANGED <<rdyq, flags, look, numbers, picture, hwPic>>
  BY DEF Deliver, device
<1>2. PICK l \in {"fmt", "idle"} : pc' = [pc EXCEPT ![t] = l]
  BY DEF Deliver, Goto
<1>3. /\ pc'[t] \in {"fmt", "idle"}
      /\ \A u \in Fetchers \cup Peekers : u # t => pc'[u] = pc[u] /\ pkt'[u] = pkt[u]
  BY <1>0, <1>2 DEF Deliver, Drop, Hold, HandsTypeOK, Threads
<1>4. Still
  BY <1>0, <1>1, EffectStill
<1>5. Viewed' = Viewed
  BY <1>1, <1>3 DEF Viewed
<1>6. ViewedInv' /\ Kept
  BY <1>1, <1>4, <1>5, ViewedKept
<1>7. LastInv'
  BY <1>1, <1>6, LastKept
<1>8. LookInv'
  BY <1>0, <1>1, <1>3 DEF LookInv
<1>9. \/ Delivering' = Delivering
      \/ \E n \in Delivering : Delivering' = Delivering \ {n}
  <2> DEFINE S == {u \in Fetchers : pc[u] = "deliver" /\ flags[pkt[u]] = "data"}
             n == picture[pkt[t]]
  <2>1. Delivering' = {picture[pkt[u]] : u \in S \ {t}}
    BY <1>1, <1>3 DEF Delivering
  <2>2. CASE t \notin S
    BY <2>1, <2>2 DEF Delivering
  <2>3. CASE t \in S
    <3>1. n \in Delivering /\ Delivering = Delivering' \cup {n}
      BY <2>1, <2>3 DEF Delivering
    <3> HIDE DEF n
    <3> QED BY <3>1
  <2> QED BY <2>2, <2>3
<1> QED BY <1>6, <1>7, <1>8, <1>9 DEF LooksInv, Move, Passing, Gave

\* A peek changes nothing: it looks at the oldest picture, and leaves it.
LEMMA PeekMoves ==
    ASSUME FifoInv, Effect, NEW t \in Peekers, PeekBegin(t) \/ PeekKeep(t)
    PROVE  LooksInv' /\ Move
<1>0. OrderInv /\ SemHeldInside /\ LookInv /\ HandsTypeOK /\ LocalsTypeOK /\ t \in Threads
  BY OrderTypes DEF FifoInv, Threads
<1>1. /\ pc[t] \in {"idle", "peek"}
      /\ UNCHANGED <<rdyq, flags, pkt, numbers, picture, hwPic>>
  BY DEF PeekBegin, PeekKeep, queues, device
<1>2. PICK l \in {"peek", "idle"} : pc' = [pc EXCEPT ![t] = l]
  BY DEF PeekBegin, PeekKeep, Goto
<1>3. /\ pc'[t] = l
      /\ \A u \in Fetchers \cup Peekers : u # t => pc'[u] = pc[u]
  BY <1>0, <1>2 DEF HandsTypeOK, Threads
<1>4. /\ \A u \in Peekers : u # t => look'[u] = look[u]
      /\ l = "peek" => rdyq # << >> /\ look'[t] = Head(rdyq)
  BY <1>0, <1>2 DEF PeekBegin, PeekKeep, Goto, LocalsTypeOK, DioqHead, HandsTypeOK
<1>5. Still
  BY <1>0, <1>1, EffectStill
<1>6. Viewed' = Viewed /\ Delivering' = Delivering
  BY <1>1, <1>3 DEF Viewed, Delivering
<1>7. ViewedInv' /\ Kept
  BY <1>1, <1>5, <1>6, ViewedKept
<1>8. LastInv'
  BY <1>1, <1>7, LastKept
<1>9. LookInv'
  BY <1>0, <1>1, <1>3, <1>4 DEF LookInv
<1> QED BY <1>6, <1>7, <1>8, <1>9 DEF LooksInv, Move, Passing

LEMMA FifoInit ==
    ASSUME Init PROVE FifoInv /\ Undelivered = {} /\ Delivering = {}
<1>1. OrderInv
  BY OrderInit
<1>2. /\ Items(actq) = {} /\ Items(rdyq) = {} /\ lastPic = 0 /\ lastTwoPic = 0
      /\ \A t \in Threads : pc[t] = "idle" /\ sem = NoThread
  BY DEF Init, Items, ToSet
<1>3. Undelivered = {} /\ Delivering = {} /\ Viewed = {}
  BY <1>2 DEF Undelivered, Chain, Coming, Listed, Viewed, Delivering, Threads
<1>4. SemHeldInside
  BY <1>2, RxAssumption DEF SemHeldInside, Threads
<1>5. LookInv /\ ViewedInv /\ LastInv
  BY <1>2, <1>3 DEF LookInv, ViewedInv, LastInv, Threads
<1> QED BY <1>1, <1>3, <1>4, <1>5 DEF FifoInv

LEMMA FifoStep ==
    ASSUME Orderly, PicMod >= 3, FifoInv, [Next]_vars
    PROVE  FifoInv' /\ Move
<1>1. OrderInv' /\ Effect
  BY OrderStep DEF FifoInv
<1>2. SemHeldInside'
  BY SemStep, OrderTypes DEF FifoInv
<1>3. LooksInv' /\ Move
  <2>1. CASE Aside
    BY <1>1, <2>1, AsideMoves
  <2>2. CASE Reading
    BY <1>1, <2>2, NoDrops, TakeMoves, KeepMoves, DeliverMoves, PeekMoves
       DEF Reading, PeekStep
  <2> QED BY <2>1, <2>2, ReaderSteps DEF FifoInv
<1> QED BY <1>1, <1>2, <1>3 DEF FifoInv, LooksInv

-----------------------------------------------------------------------------
(***************************************************************************)
(* The pictures not yet delivered as the sequence of PictureFifo.          *)
(***************************************************************************)
WaitInv ==
    /\ IsFiniteSet(Undelivered) /\ Backlog \in Nat
    /\ Awaiting \in Seq(1..PicMod) /\ Len(Awaiting) = Backlog
    /\ \A p \in Undelivered : /\ Age(p) \in 0..(Backlog - 1)
                              /\ Awaiting[Backlog - Age(p)] = picture[p]
    /\ \A k \in 1..Backlog : \E p \in Undelivered : Age(p) = Backlog - k

\* Their ages are the numbers below their count.
LEMMA Numbering ==
    ASSUME FifoInv, IsFiniteSet(Pkt)
    PROVE  /\ IsFiniteSet(Undelivered) /\ Backlog \in Nat
           /\ {Age(p) : p \in Undelivered} = 0..(Backlog - 1)
<1> DEFINE ages == {Age(p) : p \in Undelivered}
           age == [p \in Undelivered |-> Age(p)]
<1>0. PicMod \in Nat /\ OrderInv /\ SemHeldInside /\ ViewedInv
  BY RxAssumption DEF FifoInv
<1>1. IsFiniteSet(Undelivered) /\ Backlog \in Nat
  <2>1. Undelivered \in SUBSET Pkt
    BY <1>0, UndeliveredAges
  <2> QED BY <2>1, FS_Subset, FS_CardinalityType DEF Backlog
<1>2. PICK n \in Nat : n = Backlog
  BY <1>1
<1>3. \A a \in ages : a \in Nat /\ \A b \in 0..a : b \in ages
  BY <1>0, UndeliveredAges
<1>4. IsFiniteSet(ages) /\ Cardinality(ages) = n
  <2>1. age \in Bijection(Undelivered, ages)
    <3>1. age \in [Undelivered -> ages]
      OBVIOUS
    <3>2. \A p, q \in Undelivered : age[p] = age[q] => p = q
      BY <1>0, UndeliveredAges
    <3>3. \A a \in ages : \E p \in Undelivered : age[p] = a
      OBVIOUS
    <3> HIDE DEF age, ages
    <3> QED BY <3>1, <3>2, <3>3
            DEF Bijection, Injection, Surjection, IsInjective
  <2>2. ExistsBijection(Undelivered, ages)
    BY <2>1 DEF ExistsBijection
  <2> HIDE DEF ages
  <2> QED BY <1>1, <1>2, <2>2, FS_Bijection DEF Backlog
<1> HIDE DEF ages, age
<1>5. ASSUME NEW a \in ages PROVE a \in 0..(n - 1)
  <2>1. a \in Nat /\ 0..a \in SUBSET ages
    BY <1>3
  <2>2. Cardinality(0..a) = a + 1
    BY <2>1, FS_Interval
  <2>3. Cardinality(0..a) <= Cardinality(ages)
    BY <1>4, <2>1, FS_Subset
  <2> QED BY <1>4, <2>1, <2>2, <2>3
<1>6. IsFiniteSet(0..(n - 1)) /\ Cardinality(0..(n - 1)) = n
  BY FS_Interval
<1>7. ages = 0..(n - 1)
  <2>1. ages \in SUBSET (0..(n - 1))
    BY <1>5
  <2> QED BY <1>4, <1>6, <2>1, FS_Subset
<1> QED BY <1>1, <1>2, <1>7 DEF ages

LEMMA WaitsInOrder ==
    ASSUME FifoInv, IsFiniteSet(Pkt)
    PROVE  WaitInv
<1>0. /\ PicMod \in Nat /\ OrderInv /\ SemHeldInside /\ ViewedInv
      /\ IsFiniteSet(Undelivered)
  BY Numbering, RxAssumption DEF FifoInv
<1>1. PICK n \in Nat : n = Backlog
  BY Numbering
<1>2. {Age(p) : p \in Undelivered} = 0..(n - 1)
  BY <1>1, Numbering
<1>3. ASSUME NEW p \in Undelivered
      PROVE  Age(p) \in 0..(n - 1) /\ OfAge(Age(p)) = p
  <2>1. Age(p) \in 0..(n - 1)
    BY <1>2
  <2>2. \A q \in Undelivered : Age(q) = Age(p) => q = p
    BY <1>0, UndeliveredAges
  <2> QED BY <2>1, <2>2 DEF OfAge
<1>4. ASSUME NEW k \in 1..n PROVE \E p \in Undelivered : Age(p) = n - k
  <2>1. n - k \in 0..(n - 1)
    OBVIOUS
  <2> QED BY <1>2, <2>1
<1>5. Awaiting = [k \in 1..n |-> picture[OfAge(n - k)]]
  BY <1>1 DEF Awaiting
<1>6. ASSUME NEW k \in 1..n PROVE Awaiting[k] \in 1..PicMod
  <2>1. PICK p \in Undelivered : Age(p) = n - k
    BY <1>4
  <2>2. Awaiting[k] = picture[p]
    BY <1>3, <1>5, <2>1
  <2> QED BY <1>0, <2>1, <2>2, UndeliveredAges
<1>7. Awaiting \in [1..n -> 1..PicMod]
  BY <1>5, <1>6
<1>8. Awaiting \in Seq(1..PicMod) /\ Len(Awaiting) = n
  <2>1. Awaiting \in Seq(1..PicMod)
    BY <1>7, SeqDef
  <2> QED BY <1>7, <2>1, LenProperties
<1>9. ASSUME NEW p \in Undelivered PROVE Awaiting[n - Age(p)] = picture[p]
  <2>1. PICK a \in 0..(n - 1) : a = Age(p) /\ OfAge(a) = p
    BY <1>3
  <2>2. n - a \in 1..n /\ n - (n - a) = a
    OBVIOUS
  <2> QED BY <1>5, <2>1, <2>2
<1> QED BY <1>0, <1>1, <1>3, <1>4, <1>8, <1>9 DEF WaitInv

\* Sequences of the same length and the same elements are the same.
LEMMA SameSeq ==
    ASSUME NEW S, NEW s \in Seq(S), NEW t \in Seq(S), Len(s) = Len(t),
           \A k \in 1..Len(s) : s[k] = t[k]
    PROVE  s = t
  BY LenProperties

LEMMA KeptWaits ==
    ASSUME WaitInv, WaitInv', Kept
    PROVE  Awaiting' = Awaiting
<1>1. PICK n \in Nat : n = Backlog /\ Backlog' = n
  BY DEF WaitInv, Kept, Backlog
<1>2. ASSUME NEW k \in 1..n PROVE Awaiting'[k] = Awaiting[k]
  <2>1. PICK p \in Undelivered : Age(p) = n - k
    BY <1>1 DEF WaitInv
  <2>2. Age(p)' = n - k /\ p \in Undelivered' /\ picture'[p] = picture[p]
    BY <2>1, KeptAges DEF Kept
  <2>3. n - (n - k) = k
    OBVIOUS
  <2>4. Awaiting[k] = picture[p]
    BY <1>1, <2>1, <2>3 DEF WaitInv
  <2>5. Awaiting'[k] = picture'[p]
    BY <1>1, <2>2, <2>3 DEF WaitInv
  <2> QED BY <2>2, <2>4, <2>5
<1>3. /\ Awaiting \in Seq(1..PicMod) /\ Awaiting' \in Seq(1..PicMod)
      /\ Len(Awaiting) = n /\ Len(Awaiting') = n
  BY <1>1 DEF WaitInv
<1> QED BY <1>2, <1>3, SameSeq

LEMMA MadeWaits ==
    ASSUME WaitInv, WaitInv', Made, hwPic' \in 1..PicMod
    PROVE  Awaiting' = Append(Awaiting, hwPic')
<1>1. PICK x \in Pkt : /\ x \notin Undelivered /\ Undelivered' = Undelivered \cup {x}
                       /\ picture'[x] = hwPic' /\ Age(x)' = 0
  BY DEF Made
<1>2. PICK n \in Nat : n = Backlog /\ Backlog' = n + 1
  BY <1>1, FS_AddElement DEF WaitInv, Backlog
<1>3. PICK r : r = Append(Awaiting, hwPic')
  OBVIOUS
<1>4. /\ Awaiting \in Seq(1..PicMod) /\ Len(Awaiting) = n
      /\ Awaiting' \in Seq(1..PicMod) /\ Len(Awaiting') = n + 1
  BY <1>2 DEF WaitInv
<1>5. /\ r \in Seq(1..PicMod) /\ Len(r) = n + 1 /\ r[n + 1] = hwPic'
      /\ \A k \in 1..n : r[k] = Awaiting[k]
  BY <1>3, <1>4, AppendProperties
<1>6. ASSUME NEW k \in 1..n PROVE Awaiting'[k] = Awaiting[k]
  <2>1. PICK p \in Undelivered : Age(p) = n - k
    BY <1>2 DEF WaitInv
  <2>2. Age(p)' = n - k + 1 /\ p \in Undelivered' /\ picture'[p] = picture[p]
    BY <1>1, <2>1 DEF Made
  <2>3. n - (n - k) = k /\ (n + 1) - (n - k + 1) = k
    OBVIOUS
  <2>4. Awaiting[k] = picture[p]
    BY <1>2, <2>1, <2>3 DEF WaitInv
  <2>5. Awaiting'[k] = picture'[p]
    <3>1. Awaiting'[Backlog' - Age(p)'] = picture'[p]
      BY <2>2 DEF WaitInv
    <3>2. Backlog' - Age(p)' = k
      BY <1>2, <2>2, <2>3
    <3> QED BY <3>1, <3>2
  <2> QED BY <2>2, <2>4, <2>5
<1>7. Awaiting'[n + 1] = hwPic'
  <2>1. n + 1 - 0 = n + 1
    OBVIOUS
  <2> QED BY <1>1, <1>2, <2>1 DEF WaitInv
<1>8. \A k \in 1..(n + 1) : k \in 1..n \/ k = n + 1
  OBVIOUS
<1>9. \A k \in 1..(n + 1) : Awaiting'[k] = r[k]
  BY <1>5, <1>6, <1>7, <1>8
<1> QED BY <1>3, <1>4, <1>5, <1>9, SameSeq

LEMMA ChoseWaits ==
    ASSUME WaitInv, WaitInv', NEW x, Oldest(x), Undelivered' = Undelivered \ {x},
           UNCHANGED <<hwPic, picture>>
    PROVE  /\ Awaiting # << >> /\ Head(Awaiting) = picture[x]
           /\ Awaiting' = Tail(Awaiting)
<1>1. x \in Undelivered /\ \A q \in Undelivered : Age(q) <= Age(x)
  BY DEF Oldest
<1>2. PICK n \in Nat : n = Backlog /\ Backlog' = n - 1
  BY <1>1, FS_RemoveElement DEF WaitInv, Backlog
<1>3. /\ Awaiting \in Seq(1..PicMod) /\ Len(Awaiting) = n
      /\ Awaiting' \in Seq(1..PicMod) /\ Len(Awaiting') = n - 1
  BY <1>2 DEF WaitInv
<1>4. n # 0 /\ Age(x) = n - 1
  <2>1. Age(x) \in 0..(n - 1)
    BY <1>1, <1>2 DEF WaitInv
  <2>2. n # 0 /\ 1 \in 1..n
    BY <2>1
  <2>3. PICK q \in Undelivered : Age(q) = n - 1
    BY <1>2, <2>2 DEF WaitInv
  <2>4. Age(q) <= Age(x)
    BY <1>1
  <2> QED BY <2>1, <2>2, <2>3, <2>4
<1>5. Awaiting[1] = picture[x]
  <2>1. n - (n - 1) = 1
    OBVIOUS
  <2> QED BY <1>1, <1>2, <1>4, <2>1 DEF WaitInv
<1>6. Awaiting # << >> /\ Head(Awaiting) = picture[x]
  <2>1. Awaiting # << >>
    BY <1>3, <1>4, EmptySeq
  <2> QED BY <1>3, <1>5, <2>1, HeadTailProperties
<1>7. PICK r : r = Tail(Awaiting)
  OBVIOUS
<1>8. /\ r \in Seq(1..PicMod) /\ Len(r) = n - 1
      /\ \A k \in 1..(n - 1) : r[k] = Awaiting[k + 1]
  BY <1>3, <1>6, <1>7, HeadTailProperties
<1>9. ASSUME NEW k \in 1..(n - 1) PROVE Awaiting'[k] = Awaiting[k + 1]
  <2>1. k + 1 \in 1..n /\ n - (n - (k + 1)) = k + 1 /\ n - 1 - (n - (k + 1)) = k
        /\ n - (k + 1) # n - 1
    OBVIOUS
  <2>2. PICK p \in Undelivered : Age(p) = n - (k + 1)
    BY <1>2, <2>1 DEF WaitInv
  <2>3. p \in Undelivered' /\ Age(p)' = n - (k + 1)
    BY <1>4, <2>1, <2>2 DEF Age
  <2>4. Awaiting[k + 1] = picture[p]
    BY <1>2, <2>1, <2>2 DEF WaitInv
  <2>5. Awaiting'[k] = picture'[p]
    BY <1>2, <2>1, <2>3 DEF WaitInv
  <2> QED BY <2>4, <2>5
<1>10. Awaiting' = r
  BY <1>3, <1>8, <1>9, SameSeq
<1> QED BY <1>6, <1>7, <1>10

\* Each move of the pictures is a step of PictureFifo, or none.
LEMMA MoveIsFifo ==
    ASSUME WaitInv, WaitInv', DeviceTypeOK, Move
    PROVE  [Fifo!Next]_(Fifo!vars)
<1> USE DEF Fifo!Next, Fifo!vars
<1>1. CASE Passing
  <2>1. Awaiting' = Awaiting /\ hwPic' = hwPic /\ Delivering' = Delivering
    BY <1>1, KeptWaits DEF Passing, Kept
  <2> QED BY <2>1
<1>2. CASE Gave
  <2>1. Awaiting' = Awaiting /\ hwPic' = hwPic
        /\ \E n \in Delivering : Delivering' = Delivering \ {n}
    BY <1>2, KeptWaits DEF Gave, Kept
  <2>2. Fifo!Give
    BY <2>1 DEF Fifo!Give
  <2> QED BY <2>2
<1>3. CASE Made
  <2>1. hwPic' = (hwPic % PicMod) + 1 /\ hwPic' \in 1..PicMod
    BY <1>3, Successor DEF Made, NextNumber, DeviceTypeOK
  <2>2. Awaiting' = Append(Awaiting, hwPic') /\ Delivering' = Delivering
    BY <1>3, <2>1, MadeWaits DEF Made
  <2>3. Fifo!Decode
    BY <2>1, <2>2 DEF Fifo!Decode
  <2> QED BY <2>3
<1>4. CASE Chose
  <2>1. PICK x : /\ Oldest(x) /\ Undelivered' = Undelivered \ {x}
                 /\ Delivering' = Delivering \cup {picture[x]}
    BY <1>4 DEF Chose
  <2>2. UNCHANGED <<hwPic, picture>>
    BY <1>4 DEF Chose
  <2>3. /\ Awaiting # << >> /\ Head(Awaiting) = picture[x]
        /\ Awaiting' = Tail(Awaiting)
    BY <2>1, <2>2, ChoseWaits
  <2>4. Fifo!Choose
    BY <2>1, <2>2, <2>3 DEF Fifo!Choose
  <2> QED BY <2>4
<1> QED BY <1>1, <1>2, <1>3, <1>4 DEF Move

LEMMA FifoStarts ==
    ASSUME Init, IsFiniteSet(Pkt) PROVE Fifo!Init
<1>1. Undelivered = {} /\ Delivering = {} /\ WaitInv /\ hwPic = 0
  BY FifoInit, WaitsInOrder DEF Init
<1>2. Backlog = 0
  BY <1>1, FS_EmptySet DEF Backlog
<1>3. Awaiting = << >>
  BY <1>1, <1>2, EmptySeq DEF WaitInv
<1> QED BY <1>1, <1>3 DEF Fifo!Init

\* The receive path is a FIFO: on its way through active queue, interrupt
\* handler, ready queue and fetch no picture is lost, delivered twice or
\* overtaken, for any number of packets that the picture numbers tell apart and
\* any number of threads that add, fetch and peek.
THEOREM PathIsFifo ==
    ASSUME Orderly, PicMod >= 3
    PROVE  Spec => ImplementsFifo
<1>0. IsFiniteSet(Pkt)
  BY DEF Orderly
<1>1. Init => FifoInv /\ Fifo!Init
  BY <1>0, FifoInit, FifoStarts
<1>2. FifoInv /\ [Next]_vars => FifoInv' /\ Move
  BY FifoStep
<1>3. FifoInv => WaitInv /\ DeviceTypeOK
  BY <1>0, WaitsInOrder, OrderTypes DEF FifoInv
<1>4. WaitInv /\ WaitInv' /\ DeviceTypeOK /\ Move => [Fifo!Next]_(Fifo!vars)
  BY MoveIsFifo
<1> QED BY <1>1, <1>2, <1>3, <1>4, PTL DEF Spec, ImplementsFifo, Fifo!Spec
=============================================================================
