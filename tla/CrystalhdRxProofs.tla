------------------------- MODULE CrystalhdRxProofs -------------------------
(***************************************************************************)
(* Type correctness, packet ownership, the use of fetch_sem, and the       *)
(* agreement of list status, engine and active queue in CrystalhdRx, for   *)
(* any number of packets and of threads of each kind.                      *)
(***************************************************************************)
EXTENDS CrystalhdRx, DioQueueProofs, FiniteSetTheorems

\* The contexts that hold a packet are known by where they are.  A peek that is
\* about to put a packet back may hold none: the queue was emptied meanwhile.
HoldLabels ==
    {"post1", "post2", "add_post", "err_post", "busy", "err_busy", "add_free",
     "fmt_free", "check", "deliver", "pib_put", "ready"}
EmptyLabels == Labels \ (HoldLabels \cup {"peek_put"})
HoldersHold ==
    \A t \in Threads :
        /\ pc[t] \in HoldLabels => pkt[t] \in Pkt
        /\ pc[t] \in EmptyLabels => pkt[t] = NoPkt

Hands == HandsTypeOK /\ HoldersHold

\* The handler's copy of the number of blocks never exceeds what is queued.
BlocksQueued == isr.cnt <= pibs /\ pibs <= announced

TypeInv ==
    /\ PacketsTypeOK /\ DriverTypeOK /\ Hands /\ LocalsTypeOK
    /\ DeviceTypeOK /\ SwitchesTypeOK /\ BlocksQueued

-----------------------------------------------------------------------------
(***************************************************************************)
(* What a step leaves alone keeps its type, by groups of variables.        *)
(***************************************************************************)
LEMMA Frame ==
    /\ PacketsTypeOK /\ UNCHANGED <<queues, tag, flags>> => PacketsTypeOK'
    /\ DriverTypeOK /\ UNCHANGED <<sts, postIndex, state, numbers, sem>>
          => DriverTypeOK'
    /\ LocalsTypeOK /\ UNCHANGED <<look, polled, isr>> => LocalsTypeOK'
    /\ DeviceTypeOK
       /\ UNCHANGED <<valid, target, errsts, intr, pibs, announced, picture,
                      hwPic>> => DeviceTypeOK'
    /\ SwitchesTypeOK /\ UNCHANGED <<stopPending, run, deco>>
          => SwitchesTypeOK'
    /\ BlocksQueued /\ UNCHANGED <<isr, pibs, announced>> => BlocksQueued'
    /\ Hands /\ UNCHANGED <<pc, pkt>> => Hands'
<1>1. PacketsTypeOK /\ UNCHANGED <<queues, tag, flags>> => PacketsTypeOK'
  BY DEF PacketsTypeOK, queues
<1>2. DriverTypeOK /\ UNCHANGED <<sts, postIndex, state, numbers, sem>>
          => DriverTypeOK'
  BY DEF DriverTypeOK, numbers
<1>3. LocalsTypeOK /\ UNCHANGED <<look, polled, isr>> => LocalsTypeOK'
  BY DEF LocalsTypeOK
<1>4. DeviceTypeOK
      /\ UNCHANGED <<valid, target, errsts, intr, pibs, announced, picture,
                     hwPic>> => DeviceTypeOK'
  BY DEF DeviceTypeOK
<1>5. SwitchesTypeOK /\ UNCHANGED <<stopPending, run, deco>>
          => SwitchesTypeOK'
  BY DEF SwitchesTypeOK
<1>6. BlocksQueued /\ UNCHANGED <<isr, pibs, announced>> => BlocksQueued'
  BY DEF BlocksQueued
<1>7. Hands /\ UNCHANGED <<pc, pkt>> => Hands'
  BY DEF Hands, HandsTypeOK, HoldersHold
<1> QED BY <1>1, <1>2, <1>3, <1>4, <1>5, <1>6, <1>7

\* A context that goes to another place with the packet it should have there.
LEMMA GoHolding ==
    ASSUME Hands, NEW t \in Threads, NEW label \in Labels,
           NEW p \in Pkt \cup {NoPkt}, Goto(t, label), Hold(t, p),
           label \in HoldLabels => p \in Pkt,
           label \in EmptyLabels => p = NoPkt
    PROVE  Hands'
  BY DEF Hands, HandsTypeOK, HoldersHold, Goto, Hold

\* A context that keeps what it holds, or keeps holding nothing.
LEMMA GoOn ==
    ASSUME Hands, NEW t \in Threads, NEW label \in Labels,
           Goto(t, label), UNCHANGED pkt,
           \/ label \in HoldLabels /\ pc[t] \in HoldLabels
           \/ label \in EmptyLabels /\ pc[t] \in EmptyLabels
    PROVE  Hands'
  BY DEF Hands, HandsTypeOK, HoldersHold, Goto, EmptyLabels

\* Where a context returns to holds no packet.
LEMMA Returns ==
    /\ \A t \in Threads : Return(t) \in EmptyLabels /\ Return(t) \in Labels
    /\ NextList \in EmptyLabels /\ NextList \in Labels
  BY DEF Return, NextList, EmptyLabels, HoldLabels, Labels, IsrLabels

LEMMA NumberRange ==
    ASSUME NEW n \in 0..PicMod
    PROVE  (n % PicMod) + 1 \in 0..PicMod
<1>1. PicMod \in Nat /\ PicMod > 0
  BY RxAssumption
<1>2. n % PicMod \in 0..(PicMod - 1)
  BY <1>1
<1> QED BY <1>1, <1>2

LEMMA TypeInit == Init => TypeInv
<1> SUFFICES ASSUME Init PROVE TypeInv
  OBVIOUS
<1> USE RxAssumption DEF Init
<1>1. PacketsTypeOK
  BY EmptySeq DEF PacketsTypeOK, Lists, NoList
<1>2. DriverTypeOK
  BY DEF DriverTypeOK, Lists
<1>3. LocalsTypeOK
  BY DEF LocalsTypeOK, Lists, IsrIdle, NoErrors
<1>4. DeviceTypeOK
  BY DEF DeviceTypeOK, Lists, NoErrors
<1>5. SwitchesTypeOK
  BY DEF SwitchesTypeOK
<1>6. Hands
  BY DEF Hands, HandsTypeOK, HoldersHold, HoldLabels, Labels
<1>7. BlocksQueued
  BY DEF BlocksQueued, IsrIdle
<1> QED BY <1>1, <1>2, <1>3, <1>4, <1>5, <1>6, <1>7 DEF TypeInv
-----------------------------------------------------------------------------
(***************************************************************************)
(* Posting.                                                                *)
(***************************************************************************)
LEMMA CaptureTypes ==
    ASSUME TypeInv, NEW t \in Threads, Capture(t)
    PROVE  TypeInv'
<1> USE DEF TypeInv, queues, lists, numbers, threads, notices, device
<1>1. CASE CapFetch(t)
  <2> USE <1>1 DEF CapFetch
  <2>1. /\ DioqHead(freeq) \in Pkt
        /\ PacketsTypeOK'
    BY FetchItem DEF PacketsTypeOK
  <2>2. Hands'
    BY <2>1, GoHolding DEF HoldLabels, EmptyLabels, Labels, CaptureLabels
  <2> QED BY <2>1, <2>2, Frame
<1>2. CASE CapNoData(t)
  <2> USE <1>2 DEF CapNoData
  <2>1. Hands'
    BY Returns, GoOn DEF HoldLabels, EmptyLabels, Labels, CaptureLabels
  <2> QED BY <2>1, Frame
<1>3. CASE Program(t)
  <2> USE <1>3 DEF Program
  <2>1. pkt[t] \in Pkt
    BY DEF Hands, HoldersHold, Posting, HoldLabels
  <2>2. PacketsTypeOK'
    <3>1. DioqAdd(actq, pkt[t]) \in Seq(Pkt)
      BY <2>1, AddItem DEF PacketsTypeOK
    <3>2. PostTag \in Lists
      BY DEF PostTag, DriverTypeOK
    <3> QED BY <2>1, <3>1, <3>2 DEF PacketsTypeOK
  <2>3. Planes \subseteq Waiting
    BY RxAssumption DEF Waiting
  <2>4. DriverTypeOK'
    <3>1. NextIndex \in Lists
      BY DEF NextIndex, DriverTypeOK, Lists
    <3> QED BY <3>1, <2>3 DEF DriverTypeOK
  <2>5. DeviceTypeOK'
    <3>1. 0 \in 0..PicMod
      BY RxAssumption
    <3>2. picture' \in [Pkt -> 0..PicMod]
      BY <3>1 DEF DeviceTypeOK
    <3>3. target' \in [Lists -> Pkt \cup {NoPkt}]
      BY <2>1 DEF DeviceTypeOK
    <3>4. valid' \in [Lists -> SUBSET Planes]
      BY DEF DeviceTypeOK
    <3> QED BY <3>2, <3>3, <3>4 DEF DeviceTypeOK
  <2>6. Hands'
    BY Returns, GoHolding
       DEF Drop, EmptyLabels, HoldLabels, Labels, CaptureLabels
  <2>7. SwitchesTypeOK'
    BY DEF SwitchesTypeOK
  <2> QED BY <2>2, <2>4, <2>5, <2>6, <2>7, Frame
<1>4. CASE PostBusy(t)
  <2> USE <1>4 DEF PostBusy
  <2>1. Hands'
    BY GoOn DEF Posting, HoldLabels, Labels, CaptureLabels, IsrLabels
  <2> QED BY <2>1, Frame
<1>5. CASE PostBusyFree(t)
  <2> USE <1>5 DEF PostBusyFree
  <2>1. pkt[t] \in Pkt
    BY DEF Hands, HoldersHold, HoldLabels
  <2>2. PacketsTypeOK'
    BY <2>1, AddItem DEF PacketsTypeOK
  <2>3. Hands'
    BY Returns, GoHolding DEF Drop, EmptyLabels
  <2> QED BY <2>2, <2>3, Frame
<1> QED BY <1>1, <1>2, <1>3, <1>4, <1>5 DEF Capture
-----------------------------------------------------------------------------
(***************************************************************************)
(* The ioctls that add, fetch and peek.                                    *)
(***************************************************************************)
LEMMA AllocTypes ==
    ASSUME PacketsTypeOK, NEW p \in pool, AllocPkt(p), NEW L \in SUBSET Pkt,
           lost' = L, UNCHANGED <<freeq, rdyq, actq>>
    PROVE  p \in Pkt /\ PacketsTypeOK'
  BY DEF PacketsTypeOK, AllocPkt, NoList

LEMMA AddTypes ==
    ASSUME TypeInv, NEW t \in Threads, AddAlloc(t) \/ XlatFail(t) \/ AddFree(t)
    PROVE  TypeInv'
<1> USE DEF TypeInv, queues, lists, numbers, threads, notices, device,
            HoldLabels, EmptyLabels, Labels
<1>1. CASE AddAlloc(t)
  <2> USE <1>1 DEF AddAlloc
  <2>1. PICK p \in pool : AllocPkt(p) /\ Hold(t, p)
                          /\ Goto(t, IF EnPost THEN "add_post" ELSE "add_free")
    OBVIOUS
  <2>2. p \in Pkt /\ PacketsTypeOK'
    BY <2>1, AllocTypes DEF PacketsTypeOK
  <2>3. Hands'
    BY <2>1, <2>2, GoHolding
  <2> QED BY <2>2, <2>3, Frame
<1>2. CASE XlatFail(t)
  <2> USE <1>2 DEF XlatFail
  <2>1. PICK p \in pool : AllocPkt(p) /\ lost' = lost \cup {p}
    OBVIOUS
  <2>2. lost \cup {p} \in SUBSET Pkt
    BY DEF PacketsTypeOK
  <2>3. PacketsTypeOK'
    BY <2>1, <2>2, AllocTypes
  <2>4. Hands'
    BY GoOn DEF FetchLabels
  <2> QED BY <2>3, <2>4, Frame
<1>3. CASE AddFree(t)
  <2> USE <1>3 DEF AddFree
  <2>1. pkt[t] \in Pkt
    BY DEF Hands, HoldersHold
  <2>2. PacketsTypeOK'
    BY <2>1, AddItem DEF PacketsTypeOK
  <2>3. Hands'
    BY GoHolding DEF Drop, FetchLabels
  <2> QED BY <2>2, <2>3, Frame
<1> QED BY <1>1, <1>2, <1>3

\* The numbers remembered are numbers of pictures.
LEMMA RememberTypes ==
    ASSUME DriverTypeOK, NEW n \in 0..PicMod, Remember(n),
           UNCHANGED <<sts, postIndex, state>>, sem' \in Threads \cup {NoThread}
    PROVE  DriverTypeOK'
  BY DEF DriverTypeOK, Remember, numbers

LEMMA FetchTypes ==
    ASSUME TypeInv, NEW t \in Threads,
           FetchBegin(t) \/ FetchSignal(t) \/ FetchStep(t)
    PROVE  TypeInv'
<1> USE DEF TypeInv, queues, lists, numbers, threads, notices, device,
            HoldLabels, EmptyLabels, Labels, FetchLabels
<1>1. CASE FetchBegin(t)
  <2>1. Hands'
    BY <1>1, GoOn DEF FetchBegin
  <2> QED BY <1>1, <2>1, Frame DEF FetchBegin
<1>2. CASE FetchLook(t)
  <2>1. Hands'
    BY <1>2, GoOn DEF FetchLook
  <2> QED BY <1>2, <2>1, Frame DEF FetchLook
<1>3. CASE FetchWake(t)
  <2>1. Hands'
    BY <1>3, GoOn DEF FetchWake
  <2> QED BY <1>3, <2>1, Frame DEF FetchWake
<1>4. CASE FetchTimeout(t)
  <2>1. Hands'
    BY <1>4, GoOn DEF FetchTimeout
  <2> QED BY <1>4, <2>1, Frame DEF FetchTimeout
<1>5. CASE FetchTake(t)
  <2> USE <1>5 DEF FetchTake
  <2>1. DioqHead(rdyq) \in Pkt /\ PacketsTypeOK'
    BY FetchItem DEF PacketsTypeOK
  <2>2. Hands'
    BY <2>1, GoHolding
  <2>3. DriverTypeOK'
    BY DEF DriverTypeOK
  <2> QED BY <2>1, <2>2, <2>3, Frame
<1>6. CASE FetchNull(t)
  <2> USE <1>6 DEF FetchNull
  <2>1. Hands'
    BY GoOn
  <2>2. DriverTypeOK'
    BY DEF DriverTypeOK
  <2> QED BY <2>1, <2>2, Frame
<1>7. CASE FetchDrop(t)
  <2> USE <1>7 DEF FetchDrop
  <2>1. pkt[t] \in Pkt
    BY DEF Hands, HoldersHold
  <2>2. PacketsTypeOK'
    BY <2>1, AddItem DEF PacketsTypeOK
  <2>3. Hands'
    BY GoHolding DEF Drop
  <2>4. DriverTypeOK'
    BY <2>1, RememberTypes DEF DeviceTypeOK
  <2> QED BY <2>2, <2>3, <2>4, Frame
<1>8. CASE FetchKeep(t)
  <2> USE <1>8 DEF FetchKeep
  <2>1. pkt[t] \in Pkt
    BY DEF Hands, HoldersHold
  <2>2. Hands'
    BY GoOn
  <2>3. DriverTypeOK'
    <3>1. CASE UNCHANGED numbers
      BY <3>1 DEF DriverTypeOK
    <3>2. CASE Remember(picture[pkt[t]])
      BY <3>2, <2>1, RememberTypes DEF DeviceTypeOK
    <3> QED BY <3>1, <3>2
  <2> QED BY <2>2, <2>3, Frame
<1>9. CASE Deliver(t)
  <2> USE <1>9 DEF Deliver
  <2>1. pkt[t] \in Pkt
    BY DEF Hands, HoldersHold
  <2>2. PacketsTypeOK'
    BY <2>1 DEF PacketsTypeOK
  <2>3. Hands'
    BY GoHolding DEF Drop
  <2> QED BY <2>2, <2>3, Frame
<1>10. CASE FmtAlloc(t)
  <2> USE <1>10 DEF FmtAlloc
  <2>1. PICK p \in pool : AllocPkt(p) /\ Hold(t, p)
    OBVIOUS
  <2>2. p \in Pkt /\ PacketsTypeOK'
    BY <2>1, AllocTypes DEF PacketsTypeOK
  <2>3. Hands'
    BY <2>1, <2>2, GoHolding
  <2> QED BY <2>2, <2>3, Frame
<1>11. CASE FmtNoPkt(t)
  <2>1. Hands'
    BY <1>11, GoOn DEF FmtNoPkt
  <2> QED BY <1>11, <2>1, Frame DEF FmtNoPkt
<1>12. CASE FmtSet(t)
  <2> USE <1>12 DEF FmtSet
  <2>1. Hands'
    BY GoOn DEF CaptureLabels
  <2>2. DriverTypeOK'
    BY DEF DriverTypeOK
  <2> QED BY <2>1, <2>2, Frame
<1>13. CASE FetchSignal(t)
  <2>1. Hands'
    BY <1>13, GoOn DEF FetchSignal
  <2> QED BY <1>13, <2>1, Frame DEF FetchSignal
<1> QED BY <1>1, <1>2, <1>3, <1>4, <1>5, <1>6, <1>7, <1>8, <1>9, <1>10, <1>11,
           <1>12, <1>13, AddTypes, CaptureTypes DEF FetchStep
LEMMA PeekTypes ==
    ASSUME TypeInv, NEW t \in Threads, t \in Peekers,
           PeekBegin(t) \/ PeekStep(t)
    PROVE  TypeInv'
<1> USE DEF TypeInv, queues, lists, numbers, threads, notices, device,
            HoldLabels, EmptyLabels, Labels
<1>1. CASE PeekBegin(t)
  <2> USE <1>1 DEF PeekBegin
  <2>1. DioqHead(rdyq) \in Pkt
    BY FetchItem DEF PacketsTypeOK
  <2>2. Hands'
    BY GoOn
  <2>3. DriverTypeOK'
    BY DEF DriverTypeOK
  <2>4. LocalsTypeOK'
    BY <2>1 DEF LocalsTypeOK
  <2> QED BY <2>2, <2>3, <2>4, Frame
<1>2. CASE PeekKeep(t)
  <2> USE <1>2 DEF PeekKeep
  <2>1. Hands'
    BY GoOn
  <2>2. DriverTypeOK'
    BY DEF DriverTypeOK
  <2>3. LocalsTypeOK'
    BY DEF LocalsTypeOK
  <2> QED BY <2>1, <2>2, <2>3, Frame
<1>3. CASE PeekDrop(t)
  <2> USE <1>3 DEF PeekDrop
  <2>1. picture[look[t]] \in 0..PicMod
    BY RxAssumption DEF PeekDrops, Repeated, DriverTypeOK
  <2>2. DriverTypeOK'
    BY <2>1, RememberTypes DEF DriverTypeOK
  <2>3. LocalsTypeOK'
    BY DEF LocalsTypeOK
  <2>4. CASE rdyq = << >>
    <3>1. Hands'
      BY <2>4 DEF Hands, HandsTypeOK, HoldersHold, Goto
    <3> QED BY <2>2, <2>3, <2>4, <3>1, Frame
  <2>5. CASE rdyq # << >>
    <3>1. DioqHead(rdyq) \in Pkt /\ DioqFetch(rdyq) \in Seq(Pkt)
      BY <2>5, FetchItem DEF PacketsTypeOK
    <3>2. PacketsTypeOK'
      BY <2>5, <3>1 DEF PacketsTypeOK
    <3>3. Hands'
      BY <2>5, <3>1, GoHolding
    <3> QED BY <2>2, <2>3, <3>2, <3>3, Frame
  <2> QED BY <2>4, <2>5
<1>4. CASE PeekPut(t)
  <2> USE <1>4 DEF PeekPut
  <2>1. DriverTypeOK'
    BY DEF DriverTypeOK
  <2>2. CASE pkt[t] = NoPkt
    <3>1. Hands'
      BY <2>2, GoHolding DEF Hands, HandsTypeOK, HoldersHold, Goto
    <3> QED BY <2>1, <2>2, <3>1, Frame
  <2>3. CASE pkt[t] # NoPkt
    <3>1. pkt[t] \in Pkt
      BY <2>3 DEF Hands, HandsTypeOK
    <3>2. PacketsTypeOK'
      BY <2>3, <3>1, AddItem DEF PacketsTypeOK
    <3>3. Hands'
      BY <2>3, GoHolding DEF Drop
    <3> QED BY <2>1, <3>2, <3>3, Frame
  <2> QED BY <2>2, <2>3
<1> QED BY <1>1, <1>2, <1>3, <1>4 DEF PeekStep
-----------------------------------------------------------------------------
(***************************************************************************)
(* The control ioctls.                                                     *)
(***************************************************************************)
\* A packet put back by a flush goes to the free queue or to the pool.
LEMMA PutBackTypes ==
    ASSUME PacketsTypeOK, NEW t, NEW p \in Pkt, PutBack(t, p),
           UNCHANGED <<lost, tag, flags>>,
           actq' \in Seq(Pkt), rdyq' \in Seq(Pkt)
    PROVE  PacketsTypeOK'
<1>1. DioqAdd(freeq, p) \in Seq(Pkt)
  BY AddItem DEF PacketsTypeOK
<1>2. freeq' \in Seq(Pkt) /\ pool' \in SUBSET Pkt
  BY <1>1 DEF PacketsTypeOK, PutBack
<1> QED BY <1>2 DEF PacketsTypeOK

LEMMA FinalizeTypes ==
    ASSUME TypeInv, NEW t \in Threads, Finalize(t)
    PROVE  TypeInv'
<1> USE DEF TypeInv, queues, lists, numbers, threads, notices, device,
            Finalize
<1>1. Hands'
  BY Returns, GoOn DEF HoldLabels, EmptyLabels, Labels, ControlLabels
<1>2. DriverTypeOK'
  BY DEF DriverTypeOK, Lists
<1>3. SwitchesTypeOK'
  BY DEF SwitchesTypeOK
<1> QED BY <1>1, <1>2, <1>3, Frame

LEMMA ControlTypes ==
    ASSUME TypeInv, NEW t \in Threads, t \in Controllers,
           Command(t) \/ ControlStep(t)
    PROVE  TypeInv'
<1> USE DEF TypeInv, queues, lists, numbers, threads, notices, device,
            HoldLabels, EmptyLabels, Labels, ControlLabels
<1>1. CASE StartCapture(t)
  <2> USE <1>1 DEF StartCapture
  <2>1. Hands'
    BY GoOn DEF CaptureLabels
  <2>2. DriverTypeOK'
    BY DEF DriverTypeOK
  <2> QED BY <2>1, <2>2, Frame
<1>2. CASE PauseCmd(t)
  <2> USE <1>2 DEF PauseCmd
  <2>1. Hands'
    BY GoOn
  <2>2. DriverTypeOK'
    BY DEF DriverTypeOK
  <2>3. SwitchesTypeOK'
    BY DEF SwitchesTypeOK
  <2> QED BY <2>1, <2>2, <2>3, Frame
<1>3. CASE ResumeCmd(t)
  <2> USE <1>3 DEF ResumeCmd
  <2>1. Hands'
    BY GoOn DEF CaptureLabels
  <2>2. DriverTypeOK'
    BY DEF DriverTypeOK
  <2>3. SwitchesTypeOK'
    BY DEF SwitchesTypeOK
  <2> QED BY <2>1, <2>2, <2>3, Frame
<1>4. ASSUME NEW command \in {"discard", "flush"}, FlushBegin(t, command)
      PROVE  TypeInv'
  <2> USE <1>4 DEF FlushBegin
  <2>1. Hands'
    BY GoOn
  <2>2. DriverTypeOK'
    BY DEF DriverTypeOK
  <2>3. SwitchesTypeOK'
    BY DEF SwitchesTypeOK
  <2> QED BY <2>1, <2>2, <2>3, Frame
<1>5. ASSUME NEW i \in Lists, NEW p \in Planes, StopPoll(t, i, p)
      PROVE  TypeInv'
  <2> USE <1>5 DEF StopPoll
  <2>1. DriverTypeOK'
    BY DEF DriverTypeOK
  <2>2. LocalsTypeOK'
    BY DEF LocalsTypeOK, Slots
  <2> QED BY <2>1, <2>2, Frame
<1>6. CASE StopDone(t)
  <2> USE <1>6 DEF StopDone
  <2>1. Hands'
    BY GoOn
  <2>2. DriverTypeOK'
    BY DEF DriverTypeOK, Lists
  <2>3. LocalsTypeOK'
    BY DEF LocalsTypeOK
  <2> QED BY <2>1, <2>2, <2>3, Frame
<1>7. CASE DrainActive(t)
  <2> USE <1>7 DEF DrainActive
  <2>1. CASE actq = << >>
    <3>1. Hands'
      BY <2>1, GoOn
    <3> QED BY <2>1, <3>1, Frame
  <2>2. CASE actq # << >>
    <3>1. DioqHead(actq) \in Pkt /\ DioqFetch(actq) \in Seq(Pkt)
      BY <2>2, FetchItem DEF PacketsTypeOK
    <3>2. PacketsTypeOK'
      BY <2>2, <3>1, PutBackTypes DEF PacketsTypeOK
    <3> QED BY <2>2, <3>2, Frame
  <2> QED BY <2>1, <2>2
<1>8. CASE DrainReady(t)
  <2> USE <1>8 DEF DrainReady
  <2>1. CASE rdyq = << >>
    <3>1. Hands'
      BY <2>1, GoOn DEF CaptureLabels
    <3> QED BY <2>1, <3>1, Frame
  <2>2. CASE rdyq # << >>
    <3>1. DioqHead(rdyq) \in Pkt /\ DioqFetch(rdyq) \in Seq(Pkt)
      BY <2>2, FetchItem DEF PacketsTypeOK
    <3>2. PacketsTypeOK'
      BY <2>2, <3>1, PutBackTypes DEF PacketsTypeOK
    <3> QED BY <2>2, <3>2, Frame
  <2> QED BY <2>1, <2>2
<1>9. CASE DrainFree(t)
  <2> USE <1>9 DEF DrainFree
  <2>1. CASE freeq = << >>
    <3>1. Hands'
      BY <2>1, GoOn
    <3> QED BY <2>1, <3>1, Frame
  <2>2. CASE freeq # << >>
    <3>1. DioqHead(freeq) \in Pkt /\ DioqFetch(freeq) \in Seq(Pkt)
      BY <2>2, FetchItem DEF PacketsTypeOK
    <3>2. PacketsTypeOK'
      BY <2>2, <3>1 DEF PacketsTypeOK
    <3> QED BY <2>2, <3>2, Frame
  <2> QED BY <2>1, <2>2
<1>10. CASE PauseCheck(t)
  <2>1. Hands'
    BY <1>10, GoOn DEF PauseCheck
  <2> QED BY <1>10, <2>1, Frame DEF PauseCheck
<1>11. CASE Finalize(t)
  BY <1>11, FinalizeTypes
<1> QED BY <1>1, <1>2, <1>3, <1>4, <1>5, <1>6, <1>7, <1>8, <1>9, <1>10, <1>11,
           CaptureTypes DEF Command, ControlStep
-----------------------------------------------------------------------------
(***************************************************************************)
(* The interrupt handler and the device.                                   *)
(***************************************************************************)
LEMMA IsrTypes ==
    ASSUME TypeInv, IsrStep
    PROVE  TypeInv'
<1> USE DEF TypeInv, queues, lists, numbers, threads, notices, device,
            HoldLabels, EmptyLabels, Labels, IsrLabels
<1> DEFINE IsrType == [list : Lists, avail : BOOLEAN, cnt : 0..MaxPib,
                       snap : SUBSET Slots,
                       err : [Lists -> [Planes -> SUBSET Endings]]]
<1>0. Isr \in Threads /\ isr \in IsrType /\ MaxPib \in Nat
  BY RxAssumption DEF Threads, LocalsTypeOK
<1>1. CASE IsrEnter
  <2> USE <1>1 DEF IsrEnter
  <2>1. Hands'
    BY <1>0, GoOn
  <2>2. LocalsTypeOK'
    BY DEF LocalsTypeOK, DeviceTypeOK
  <2>3. BlocksQueued'
    BY <1>0 DEF DeviceTypeOK, BlocksQueued
  <2> QED BY <2>1, <2>2, <2>3, Frame
<1>2. CASE IsrPib
  <2> USE <1>2 DEF IsrPib
  <2>1. DioqHead(freeq) \in Pkt /\ DioqFetch(freeq) \in Seq(Pkt)
    BY FetchItem DEF PacketsTypeOK
  <2>2. PacketsTypeOK'
    BY <2>1 DEF PacketsTypeOK
  <2>3. Hands'
    BY <1>0, <2>1, GoHolding
  <2>4. isr.cnt \in 0..MaxPib /\ isr.cnt - 1 \in 0..MaxPib
    BY <1>0
  <2>5. LocalsTypeOK' /\ isr'.cnt = isr.cnt - 1
    BY <2>4 DEF LocalsTypeOK
  <2>6. pibs' \in 0..MaxPib /\ BlocksQueued'
    BY <1>0, <2>4, <2>5 DEF BlocksQueued, DeviceTypeOK
  <2>7. DeviceTypeOK'
    BY <2>6 DEF DeviceTypeOK
  <2> QED BY <2>2, <2>3, <2>5, <2>6, <2>7, Frame
<1>3. CASE IsrPibPut
  <2> USE <1>3 DEF IsrPibPut
  <2>1. pkt[Isr] \in Pkt
    BY <1>0 DEF Hands, HoldersHold
  <2>2. PacketsTypeOK'
    BY <2>1, AddItem DEF PacketsTypeOK
  <2>3. Hands'
    BY <1>0, GoHolding DEF Drop
  <2> QED BY <2>2, <2>3, Frame
<1>4. CASE IsrPibDone
  <2> USE <1>4 DEF IsrPibDone
  <2>1. Hands'
    BY <1>0, GoOn
  <2>2. LocalsTypeOK' /\ isr'.cnt = 0
    BY <1>0 DEF LocalsTypeOK
  <2>3. isr.cnt \in 0..MaxPib
    BY <1>0
  <2>4. pibs' \in 0..MaxPib /\ BlocksQueued'
    BY <1>0, <2>2, <2>3 DEF BlocksQueued, DeviceTypeOK
  <2>5. DeviceTypeOK'
    BY <2>4 DEF DeviceTypeOK
  <2>6. SwitchesTypeOK'
    BY DEF SwitchesTypeOK
  <2> QED BY <2>1, <2>2, <2>4, <2>5, <2>6, Frame
<1>5. CASE IsrRx
  <2> USE <1>5 DEF IsrRx
  <2>1. Hands'
    BY <1>0, GoOn
  <2>2. (IF isr.snap = {} THEN NoErrors ELSE errsts)
          \in [Lists -> [Planes -> SUBSET Endings]]
    BY DEF DeviceTypeOK, NoErrors
  <2>3. LocalsTypeOK' /\ isr'.cnt = isr.cnt
    BY <1>0, <2>2 DEF LocalsTypeOK
  <2>4. BlocksQueued'
    BY <2>3 DEF BlocksQueued
  <2> QED BY <2>1, <2>3, <2>4, Frame
<1>6. ASSUME NEW i \in Lists, IsrList(i)
      PROVE  TypeInv'
  <2> DEFINE new == NewStatus(i)
             done == new # sts[i] /\ ListDone(new)
  <2> USE <1>6 DEF IsrList
  <2>1. new \in SUBSET (Waiting \cup Failed)
    <3>1. \A p \in Planes : ErrorOf(p) \in Failed
      BY DEF ErrorOf, Failed
    <3>2. sts[i] \in SUBSET (Waiting \cup Failed)
      BY DEF DriverTypeOK
    <3> QED BY <3>1, <3>2 DEF NewStatus, Broken
  <2>2. Hands'
    <3>1. PICK label \in {"done_ok", "done_err", "list1", "tail"} :
             Goto(Isr, label)
      BY DEF Goto
    <3> QED BY <1>0, <3>1, GoOn
  <2>3. DriverTypeOK'
    BY <2>1 DEF DriverTypeOK, Lists
  <2>4. LocalsTypeOK' /\ isr'.cnt = isr.cnt
    BY <1>0 DEF LocalsTypeOK
  <2>5. DeviceTypeOK'
    BY DEF DeviceTypeOK, ClearedErrors
  <2>6. BlocksQueued'
    BY <2>4 DEF BlocksQueued
  <2> QED BY <2>2, <2>3, <2>4, <2>5, <2>6, Frame
<1>7. CASE IsrDone
  <2> USE <1>7 DEF IsrDone
  <2>1. PICK k \in 1..Len(actq) :
          /\ Hold(Isr, actq[k]) /\ actq' = RemoveAt(actq, k)
          /\ flags' = IF pc[Isr] = "done_ok"
                      THEN [flags EXCEPT ![actq[k]] = "data"] ELSE flags
    OBVIOUS
  <2>2. actq[k] \in Pkt /\ actq' \in Seq(Pkt)
    BY <2>1, RemoveItem DEF PacketsTypeOK
  <2>3. PacketsTypeOK'
    BY <2>1, <2>2 DEF PacketsTypeOK
  <2>4. Hands'
    BY <1>0, <2>1, <2>2, GoHolding
  <2> QED BY <2>3, <2>4, Frame
<1>8. CASE IsrReady
  <2> USE <1>8 DEF IsrReady
  <2>1. pkt[Isr] \in Pkt
    BY <1>0 DEF Hands, HoldersHold
  <2>2. PacketsTypeOK'
    BY <2>1, AddItem DEF PacketsTypeOK
  <2>3. Hands'
    BY <1>0, GoHolding, Returns DEF Drop
  <2> QED BY <2>2, <2>3, Frame
<1>9. CASE IsrNoPkt
  <2>1. Hands'
    BY <1>0, <1>9, GoOn, Returns DEF IsrNoPkt
  <2> QED BY <1>9, <2>1, Frame DEF IsrNoPkt
<1>10. CASE IsrTail
  <2>1. Hands'
    <3>1. PICK label \in {"cap1", "finalize", "ack"} : Goto(Isr, label)
      BY <1>10 DEF IsrTail
    <3> QED BY <1>0, <1>10, <3>1, GoOn DEF IsrTail, CaptureLabels, ControlLabels
  <2> QED BY <1>10, <2>1, Frame DEF IsrTail
<1>11. CASE IsrAck
  <2> USE <1>11 DEF IsrAck
  <2>1. Hands'
    BY <1>0, GoOn
  <2>2. isr'.cnt = 0 /\ LocalsTypeOK'
    BY <1>0 DEF LocalsTypeOK, IsrIdle, NoErrors, Lists
  <2>3. DeviceTypeOK'
    BY DEF DeviceTypeOK
  <2>4. BlocksQueued'
    BY <2>2, <1>0 DEF BlocksQueued, DeviceTypeOK
  <2> QED BY <2>1, <2>2, <2>3, <2>4, Frame
<1> QED BY <1>0, <1>1, <1>2, <1>3, <1>4, <1>5, <1>6, <1>7, <1>8, <1>9, <1>10,
           <1>11, FinalizeTypes, CaptureTypes DEF IsrStep

LEMMA HwTypes ==
    ASSUME TypeInv, HwStep
    PROVE  TypeInv'
<1> USE DEF TypeInv, queues, lists, numbers, threads, notices, device
<1>1. ASSUME NEW i \in Lists, NEW p \in Planes, NEW ending \in Endings,
             HwComplete(i, p, ending)
      PROVE  TypeInv'
  <2> USE <1>1 DEF HwComplete
  <2>1. /\ valid' \in [Lists -> SUBSET Planes]
        /\ errsts' \in [Lists -> [Planes -> SUBSET Endings]]
        /\ intr' \in SUBSET Slots
    BY DEF DeviceTypeOK, Slots
  <2>2. hwPic' \in 0..PicMod /\ picture' \in [Pkt -> 0..PicMod]
    <3>1. NextNumber \in 0..PicMod /\ 0 \in 0..PicMod
      BY NumberRange, RxAssumption DEF NextNumber, DeviceTypeOK
    <3> QED BY <3>1 DEF DeviceTypeOK
  <2>3. DeviceTypeOK'
    BY <2>1, <2>2 DEF DeviceTypeOK
  <2> QED BY <2>3, Frame
<1>2. ASSUME NEW i \in Lists, NEW p \in Planes, HwHalt(i, p)
      PROVE  TypeInv'
  <2>1. DeviceTypeOK'
    BY <1>2 DEF DeviceTypeOK, HwHalt
  <2> QED BY <1>2, <2>1, Frame DEF HwHalt
<1>3. CASE HwPib
  <2> USE <1>3 DEF HwPib
  <2>1. MaxPib \in Nat
    BY RxAssumption
  <2>2. /\ pibs' \in 0..MaxPib /\ announced' \in 0..MaxPib
        /\ pibs' <= announced'
    BY <2>1 DEF DeviceTypeOK, BlocksQueued
  <2>3. BlocksQueued'
    BY <2>1, <2>2 DEF DeviceTypeOK, LocalsTypeOK, BlocksQueued
  <2>4. DeviceTypeOK'
    BY <2>2 DEF DeviceTypeOK
  <2>5. SwitchesTypeOK'
    BY DEF SwitchesTypeOK
  <2> QED BY <2>3, <2>4, <2>5, Frame
<1> QED BY <1>1, <1>2, <1>3 DEF HwStep
-----------------------------------------------------------------------------
LEMMA TypeStep == TypeInv /\ [Next]_vars => TypeInv'
<1> SUFFICES ASSUME TypeInv, [Next]_vars PROVE TypeInv'
  OBVIOUS
<1>1. CASE UNCHANGED vars
  BY <1>1, Frame DEF TypeInv, vars, queues, lists, numbers, threads, notices,
                     device
<1>2. CASE Next
  BY <1>2, AddTypes, CaptureTypes, FetchTypes, PeekTypes, ControlTypes,
     IsrTypes, HwTypes DEF Next, AddStep, Threads
<1> QED BY <1>1, <1>2

\* Every reachable value is of its type: the queues hold packets, a list is in a
\* status of the driver's enumeration, each context is at one of its places.
THEOREM TypeCorrect == Spec => []TypeOK
<1>1. TypeInv => TypeOK
  BY DEF TypeInv, TypeOK, Hands
<1> QED BY <1>1, TypeInit, TypeStep, PTL DEF Spec
-----------------------------------------------------------------------------
(***************************************************************************)
(* Ownership.  Every step leaves the six places alone or moves one packet  *)
(* from one of them to another.                                            *)
(***************************************************************************)
Spot == 1..6
OwnInv == TypeInv /\ PacketOwnership

LEMMA PlacesAre ==
    /\ Places[1] = pool /\ Places[2] = lost /\ Places[3] = Items(freeq)
    /\ Places[4] = Items(rdyq) /\ Places[5] = Items(actq) /\ Places[6] = Held
    /\ Places'[1] = pool' /\ Places'[2] = lost' /\ Places'[3] = Items(freeq')
    /\ Places'[4] = Items(rdyq') /\ Places'[5] = Items(actq')
    /\ Places'[6] = Held'
  BY DEF Places

Moved(from, to, x) ==
    \A j \in Spot : Places'[j] = IF j = from THEN Places[j] \ {x}
                                 ELSE IF j = to THEN Places[j] \cup {x}
                                 ELSE Places[j]

LEMMA MovePacket ==
    ASSUME Disjoint, NoneLost, NEW from \in Spot, NEW to \in Spot, from # to,
           NEW x, x \in Places[from], Moved(from, to, x)
    PROVE  Disjoint' /\ NoneLost'
<1> USE DEF Moved
<1>1. DOMAIN Places = Spot /\ DOMAIN Places' = Spot
  BY DEF Places, Spot
<1>2. \A j, k \in Spot : j # k => Places[j] \cap Places[k] = {}
  BY <1>1 DEF Disjoint
<1>3. \A j, k \in Spot : j # k => Places'[j] \cap Places'[k] = {}
  <2> SUFFICES ASSUME NEW j \in Spot, NEW k \in Spot, j # k,
                      NEW y, y \in Places'[j], y \in Places'[k]
               PROVE  FALSE
    OBVIOUS
  <2>1. CASE y = x
    <3>1. \A m \in Spot : m # from => x \notin Places[m]
      BY <1>2
    <3>2. \A m \in Spot : x \in Places'[m] => m = to
      BY <3>1
    <3> QED BY <2>1, <3>2
  <2>2. CASE y # x
    <3>1. \A m \in Spot : y \in Places'[m] => y \in Places[m]
      BY <2>2
    <3> QED BY <3>1, <1>2
  <2> QED BY <2>1, <2>2
<1>4. \A y : (\E j \in Spot : y \in Places[j])
               <=> (\E j \in Spot : y \in Places'[j])
  OBVIOUS
<1>5. UNION {Places[j] : j \in Spot} = UNION {Places'[j] : j \in Spot}
  BY <1>4
<1> QED BY <1>1, <1>3, <1>5 DEF Disjoint, NoneLost

\* A context with empty hands takes a packet nobody holds.
LEMMA TakePacket ==
    ASSUME HandsTypeOK, HeldOnce, NEW t \in Threads, pkt[t] = NoPkt,
           NEW x \in Pkt, x \notin Held, Hold(t, x)
    PROVE  Held' = Held \cup {x} /\ HeldOnce'
<1>1. NoPkt \notin Pkt
  BY RxAssumption
<1> QED BY <1>1 DEF Held, HeldOnce, Hold, HandsTypeOK

\* A context puts its packet down.
LEMMA DropPacket ==
    ASSUME HandsTypeOK, HeldOnce, NEW t \in Threads, pkt[t] \in Pkt, Drop(t)
    PROVE  pkt[t] \in Held /\ Held' = Held \ {pkt[t]} /\ HeldOnce'
<1>1. NoPkt \notin Pkt
  BY RxAssumption
<1> QED BY <1>1 DEF Held, HeldOnce, Hold, Drop, HandsTypeOK

LEMMA SamePlaces ==
    ASSUME PacketOwnership, UNCHANGED <<pool, lost, freeq, rdyq, actq, pkt>>
    PROVE  PacketOwnership'
  BY DEF PacketOwnership, Disjoint, NoneLost, HeldOnce, Places, Held, NoRepeats
\* The same, for a packet that goes from a place to a context or back.
QueuedOnce == NoRepeats(freeq) /\ NoRepeats(rdyq) /\ NoRepeats(actq)

LEMMA TakeFrom ==
    ASSUME OwnInv, QueuedOnce', NEW t \in Threads, pkt[t] = NoPkt,
           NEW from \in 1..5, NEW x \in Pkt, x \in Places[from], Hold(t, x),
           \A j \in 1..5 : Places'[j] = IF j = from THEN Places[j] \ {x}
                                                    ELSE Places[j]
    PROVE  PacketOwnership'
<1>1. 6 \in Spot /\ from \in Spot /\ from # 6
  BY DEF Spot
<1>2. x \notin Held
  BY <1>1, PlacesAre DEF OwnInv, PacketOwnership, Disjoint, Places, Spot
<1>3. Held' = Held \cup {x} /\ HeldOnce'
  BY <1>2, TakePacket DEF OwnInv, TypeInv, Hands, PacketOwnership
<1>4. Moved(from, 6, x)
  <2>1. \A j \in Spot : j = 6 \/ j \in 1..5
    BY DEF Spot
  <2>2. Places'[6] = Places[6] \cup {x}
    BY <1>3, PlacesAre
  <2> QED BY <1>1, <2>1, <2>2 DEF Moved
<1>5. Disjoint' /\ NoneLost'
  <2>1. Disjoint /\ NoneLost
    BY DEF OwnInv, PacketOwnership
  <2> QED BY <1>1, <1>4, <2>1, MovePacket
<1> QED BY <1>3, <1>5 DEF PacketOwnership, QueuedOnce

LEMMA PutTo ==
    ASSUME OwnInv, QueuedOnce', NEW t \in Threads, pkt[t] \in Pkt,
           NEW to \in 1..5, Drop(t),
           \A j \in 1..5 : Places'[j] = IF j = to THEN Places[j] \cup {pkt[t]}
                                                  ELSE Places[j]
    PROVE  PacketOwnership'
<1>1. 6 \in Spot /\ to \in Spot /\ to # 6
  BY DEF Spot
<1>2. pkt[t] \in Held /\ Held' = Held \ {pkt[t]} /\ HeldOnce'
  BY DropPacket DEF OwnInv, TypeInv, Hands, PacketOwnership
<1>3. Moved(6, to, pkt[t])
  <2>1. \A j \in Spot : j = 6 \/ (j \in 1..5 /\ j # 6)
    BY DEF Spot
  <2>2. Places'[6] = Places[6] \ {pkt[t]}
    BY <1>2, PlacesAre
  <2> QED BY <1>1, <2>1, <2>2 DEF Moved
<1>4. Disjoint' /\ NoneLost'
  <2>1. Disjoint /\ NoneLost
    BY DEF OwnInv, PacketOwnership
  <2>2. pkt[t] \in Places[6]
    BY <1>2, PlacesAre
  <2> QED BY <1>1, <1>3, <2>1, <2>2, MovePacket
<1> QED BY <1>2, <1>4 DEF PacketOwnership, QueuedOnce

\* A packet in the hands of a context is in no queue.
LEMMA HeldNotQueued ==
    ASSUME OwnInv, NEW t \in Threads, pkt[t] \in Pkt
    PROVE  /\ pkt[t] \notin Items(freeq) /\ pkt[t] \notin Items(rdyq)
           /\ pkt[t] \notin Items(actq)
<1>1. pkt[t] \in Places[6]
  BY PlacesAre, RxAssumption DEF Held
<1> QED BY <1>1, PlacesAre DEF OwnInv, PacketOwnership, Disjoint, Places, Spot

LEMMA TakeFree ==
    ASSUME OwnInv, NEW t \in Threads, pkt[t] = NoPkt, freeq # << >>,
           Hold(t, DioqHead(freeq)), freeq' = DioqFetch(freeq),
           UNCHANGED <<pool, lost, rdyq, actq>>
    PROVE  PacketOwnership'
<1> DEFINE x == DioqHead(freeq)
<1>1. /\ x \in Pkt /\ x \in Items(freeq)
      /\ Items(freeq') = Items(freeq) \ {x} /\ NoRepeats(freeq')
  BY FetchItem DEF OwnInv, TypeInv, PacketsTypeOK, PacketOwnership
<1>2. QueuedOnce'
  BY <1>1 DEF OwnInv, PacketOwnership, QueuedOnce
<1>3. x \in Places[3]
      /\ \A j \in 1..5 : Places'[j] = IF j = 3 THEN Places[j] \ {x}
                                               ELSE Places[j]
  BY <1>1, PlacesAre
<1> HIDE DEF x
<1> QED BY <1>1, <1>2, <1>3, TakeFrom DEF x

LEMMA TakeReady ==
    ASSUME OwnInv, NEW t \in Threads, pkt[t] = NoPkt, rdyq # << >>,
           Hold(t, DioqHead(rdyq)), rdyq' = DioqFetch(rdyq),
           UNCHANGED <<pool, lost, freeq, actq>>
    PROVE  PacketOwnership'
<1> DEFINE x == DioqHead(rdyq)
<1>1. /\ x \in Pkt /\ x \in Items(rdyq)
      /\ Items(rdyq') = Items(rdyq) \ {x} /\ NoRepeats(rdyq')
  BY FetchItem DEF OwnInv, TypeInv, PacketsTypeOK, PacketOwnership
<1>2. QueuedOnce'
  BY <1>1 DEF OwnInv, PacketOwnership, QueuedOnce
<1>3. x \in Places[4]
      /\ \A j \in 1..5 : Places'[j] = IF j = 4 THEN Places[j] \ {x}
                                               ELSE Places[j]
  BY <1>1, PlacesAre
<1> HIDE DEF x
<1> QED BY <1>1, <1>2, <1>3, TakeFrom DEF x

LEMMA TakePool ==
    ASSUME OwnInv, NEW t \in Threads, pkt[t] = NoPkt, NEW x \in pool,
           Hold(t, x), AllocPkt(x), UNCHANGED <<lost, freeq, rdyq, actq>>
    PROVE  PacketOwnership'
<1>1. x \in Pkt /\ pool' = pool \ {x}
  BY DEF OwnInv, TypeInv, PacketsTypeOK, AllocPkt
<1>2. QueuedOnce'
  BY DEF OwnInv, PacketOwnership, QueuedOnce
<1>3. x \in Places[1]
      /\ \A j \in 1..5 : Places'[j] = IF j = 1 THEN Places[j] \ {x}
                                               ELSE Places[j]
  BY <1>1, PlacesAre
<1> QED BY <1>1, <1>2, <1>3, TakeFrom

LEMMA PutFree ==
    ASSUME OwnInv, NEW t \in Threads, pkt[t] \in Pkt, Drop(t),
           freeq' = DioqAdd(freeq, pkt[t]), UNCHANGED <<pool, lost, rdyq, actq>>
    PROVE  PacketOwnership'
<1>1. /\ Items(freeq') = Items(freeq) \cup {pkt[t]} /\ NoRepeats(freeq')
  BY HeldNotQueued, AddItem DEF OwnInv, TypeInv, PacketsTypeOK, PacketOwnership
<1>2. QueuedOnce'
  BY <1>1 DEF OwnInv, PacketOwnership, QueuedOnce
<1>3. \A j \in 1..5 : Places'[j] = IF j = 3 THEN Places[j] \cup {pkt[t]}
                                            ELSE Places[j]
  <2> SUFFICES ASSUME NEW j \in 1..5
               PROVE  Places'[j] = IF j = 3 THEN Places[j] \cup {pkt[t]}
                                            ELSE Places[j]
    OBVIOUS
  <2>1. j = 1 \/ j = 2 \/ j = 3 \/ j = 4 \/ j = 5
    OBVIOUS
  <2> QED BY <1>1, <2>1, PlacesAre
<1> QED BY <1>2, <1>3, PutTo

LEMMA PutReady ==
    ASSUME OwnInv, NEW t \in Threads, pkt[t] \in Pkt, Drop(t),
           rdyq' = DioqAdd(rdyq, pkt[t]), UNCHANGED <<pool, lost, freeq, actq>>
    PROVE  PacketOwnership'
<1>1. /\ Items(rdyq') = Items(rdyq) \cup {pkt[t]} /\ NoRepeats(rdyq')
  BY HeldNotQueued, AddItem DEF OwnInv, TypeInv, PacketsTypeOK, PacketOwnership
<1>2. QueuedOnce'
  BY <1>1 DEF OwnInv, PacketOwnership, QueuedOnce
<1>3. \A j \in 1..5 : Places'[j] = IF j = 4 THEN Places[j] \cup {pkt[t]}
                                            ELSE Places[j]
  <2> SUFFICES ASSUME NEW j \in 1..5
               PROVE  Places'[j] = IF j = 4 THEN Places[j] \cup {pkt[t]}
                                            ELSE Places[j]
    OBVIOUS
  <2>1. j = 1 \/ j = 2 \/ j = 3 \/ j = 4 \/ j = 5
    OBVIOUS
  <2> QED BY <1>1, <2>1, PlacesAre
<1> QED BY <1>2, <1>3, PutTo
\* A packet that goes from one queue to another place without a context ever
\* holding it: the failed translation and the loops of a flush.
LEMMA MoveTo ==
    ASSUME OwnInv, QueuedOnce', NEW from \in 1..5, NEW to \in 1..5, from # to,
           NEW x, x \in Places[from], UNCHANGED pkt,
           \A j \in 1..5 : Places'[j] = IF j = from THEN Places[j] \ {x}
                                        ELSE IF j = to THEN Places[j] \cup {x}
                                        ELSE Places[j]
    PROVE  PacketOwnership'
<1>1. from \in Spot /\ to \in Spot
  BY DEF Spot
<1>2. Held' = Held /\ HeldOnce'
  BY DEF Held, HeldOnce, OwnInv, PacketOwnership
<1>3. Moved(from, to, x)
  <2>1. \A j \in Spot : j = 6 \/ (j \in 1..5 /\ j # 6)
    BY DEF Spot
  <2>2. Places'[6] = Places[6]
    BY <1>2, PlacesAre
  <2> QED BY <2>1, <2>2 DEF Moved
<1>4. Disjoint /\ NoneLost
  BY DEF OwnInv, PacketOwnership
<1>5. Disjoint' /\ NoneLost'
  BY <1>1, <1>3, <1>4, MovePacket
<1> QED BY <1>2, <1>5 DEF PacketOwnership, QueuedOnce

LEMMA PutBackOnce ==
    ASSUME OwnInv, NEW t, NEW from \in {4, 5}, NEW x \in Pkt,
           x \in Places[from],
           PutBack(t, x), UNCHANGED pkt, NoRepeats(rdyq'), NoRepeats(actq'),
           Places'[2] = Places[2],
           Places'[4] = IF from = 4 THEN Places[4] \ {x} ELSE Places[4],
           Places'[5] = IF from = 5 THEN Places[5] \ {x} ELSE Places[5]
    PROVE  PacketOwnership'
<1>1. x \notin Items(freeq)
  BY PlacesAre DEF OwnInv, PacketOwnership, Disjoint, Places
<1>2. freeq \in Seq(Pkt) /\ NoRepeats(freeq)
  BY DEF OwnInv, TypeInv, PacketsTypeOK, PacketOwnership
<1>3. \A j \in 1..5 : j = 1 \/ j = 2 \/ j = 3 \/ j = 4 \/ j = 5
  OBVIOUS
<1>4. from \in 1..5 /\ from # 3 /\ from # 1
  OBVIOUS
<1>5. CASE pc[t] \in {"act_d", "rdy_d"}
  <2>1. freeq' = DioqAdd(freeq, x) /\ pool' = pool
    BY <1>5 DEF PutBack
  <2>2. Items(freeq') = Items(freeq) \cup {x} /\ NoRepeats(freeq')
    BY <1>1, <1>2, <2>1, AddItem
  <2>3. Places'[1] = Places[1] /\ Places'[3] = Places[3] \cup {x}
    BY <2>1, <2>2, PlacesAre
  <2>4. \A j \in 1..5 : Places'[j] = IF j = from THEN Places[j] \ {x}
                                     ELSE IF j = 3 THEN Places[j] \cup {x}
                                     ELSE Places[j]
    BY <1>3, <1>4, <2>3
  <2> QED BY <1>4, <2>2, <2>4, MoveTo DEF QueuedOnce
<1>6. CASE pc[t] \notin {"act_d", "rdy_d"}
  <2>1. freeq' = freeq /\ pool' = pool \cup {x}
    BY <1>6 DEF PutBack
  <2>2. NoRepeats(freeq')
    BY <1>2, <2>1
  <2>3. Places'[1] = Places[1] \cup {x} /\ Places'[3] = Places[3]
    BY <2>1, PlacesAre
  <2>4. \A j \in 1..5 : Places'[j] = IF j = from THEN Places[j] \ {x}
                                     ELSE IF j = 1 THEN Places[j] \cup {x}
                                     ELSE Places[j]
    BY <1>3, <1>4, <2>3
  <2> QED BY <1>4, <2>2, <2>4, MoveTo DEF QueuedOnce
<1> QED BY <1>5, <1>6
-----------------------------------------------------------------------------
(***************************************************************************)
(* Each action keeps the ownership.                                        *)
(***************************************************************************)
\* What a context holds, by where it is.
LEMMA Holding ==
    ASSUME OwnInv, NEW t \in Threads
    PROVE  /\ pc[t] \in HoldLabels => pkt[t] \in Pkt
           /\ pc[t] \in EmptyLabels => pkt[t] = NoPkt
  BY DEF OwnInv, TypeInv, Hands, HoldersHold

LEMMA CaptureOwns ==
    ASSUME OwnInv, NEW t \in Threads, Capture(t)
    PROVE  PacketOwnership'
<1> USE DEF queues, threads, device
<1>0. PacketOwnership
  BY DEF OwnInv
<1>1. CASE CapFetch(t)
  <2>1. pkt[t] = NoPkt
    BY <1>1, Holding
       DEF CapFetch, EmptyLabels, HoldLabels, Labels, CaptureLabels
  <2> QED BY <1>1, <2>1, TakeFree DEF CapFetch
<1>2. CASE CapNoData(t)
  BY <1>0, <1>2, SamePlaces DEF CapNoData
<1>3. CASE Program(t)
  <2>1. pkt[t] \in Pkt
    BY <1>3, Holding DEF Program, Posting, HoldLabels
  <2>2. actq \in Seq(Pkt) /\ NoRepeats(actq) /\ actq' = DioqAdd(actq, pkt[t])
    BY <1>3 DEF Program, OwnInv, TypeInv, PacketsTypeOK, PacketOwnership
  <2>3. Items(actq') = Items(actq) \cup {pkt[t]} /\ NoRepeats(actq')
    BY <2>1, <2>2, HeldNotQueued, AddItem
  <2>4. UNCHANGED <<pool, lost, freeq, rdyq>> /\ Drop(t)
    BY <1>3 DEF Program
  <2>5. \A j \in 1..5 : j = 1 \/ j = 2 \/ j = 3 \/ j = 4 \/ j = 5
    OBVIOUS
  <2>6. \A j \in 1..5 : Places'[j] = IF j = 5 THEN Places[j] \cup {pkt[t]}
                                              ELSE Places[j]
    BY <2>3, <2>4, <2>5, PlacesAre
  <2>7. QueuedOnce'
    BY <1>0, <2>3, <2>4 DEF QueuedOnce, PacketOwnership
  <2> QED BY <2>1, <2>4, <2>6, <2>7, PutTo
<1>4. CASE PostBusy(t)
  BY <1>0, <1>4, SamePlaces DEF PostBusy
<1>5. CASE PostBusyFree(t)
  <2>1. pkt[t] \in Pkt
    BY <1>5, Holding DEF PostBusyFree, HoldLabels
  <2> QED BY <1>5, <2>1, PutFree DEF PostBusyFree
<1> QED BY <1>1, <1>2, <1>3, <1>4, <1>5 DEF Capture

LEMMA AddOwns ==
    ASSUME OwnInv, NEW t \in Threads, AddAlloc(t) \/ XlatFail(t) \/ AddFree(t)
    PROVE  PacketOwnership'
<1> USE DEF queues, threads, device
<1>0. PacketOwnership
  BY DEF OwnInv
<1>1. CASE AddAlloc(t)
  <2>1. PICK p \in pool : AllocPkt(p) /\ Hold(t, p)
    BY <1>1 DEF AddAlloc
  <2>2. pkt[t] = NoPkt
    BY <1>1, Holding DEF AddAlloc, EmptyLabels, HoldLabels, Labels
  <2> QED BY <1>1, <2>1, <2>2, TakePool DEF AddAlloc
<1>2. CASE XlatFail(t)
  <2>1. PICK p \in pool : AllocPkt(p) /\ lost' = lost \cup {p}
    BY <1>2 DEF XlatFail
  <2>2. pool' = pool \ {p} /\ UNCHANGED <<freeq, rdyq, actq, pkt>>
    BY <1>2, <2>1 DEF XlatFail, AllocPkt
  <2>3. \A j \in 1..5 : j = 1 \/ j = 2 \/ j = 3 \/ j = 4 \/ j = 5
    OBVIOUS
  <2>4. \A j \in 1..5 : Places'[j] = IF j = 1 THEN Places[j] \ {p}
                                     ELSE IF j = 2 THEN Places[j] \cup {p}
                                     ELSE Places[j]
    BY <2>1, <2>2, <2>3, PlacesAre
  <2>5. p \in Places[1] /\ QueuedOnce'
    BY <1>0, <2>2, PlacesAre DEF QueuedOnce, PacketOwnership
  <2> QED BY <2>2, <2>4, <2>5, MoveTo
<1>3. CASE AddFree(t)
  <2>1. pkt[t] \in Pkt
    BY <1>3, Holding DEF AddFree, HoldLabels
  <2> QED BY <1>3, <2>1, PutFree DEF AddFree
<1> QED BY <1>1, <1>2, <1>3

LEMMA FetchOwns ==
    ASSUME OwnInv, NEW t \in Threads,
           FetchBegin(t) \/ FetchSignal(t) \/ FetchStep(t)
    PROVE  PacketOwnership'
<1> USE DEF queues, threads, device
<1>0. PacketOwnership
  BY DEF OwnInv
<1>1. CASE \/ FetchBegin(t) \/ FetchLook(t) \/ FetchWake(t) \/ FetchTimeout(t)
           \/ FetchSignal(t) \/ FetchNull(t) \/ FetchKeep(t) \/ FmtNoPkt(t)
           \/ FmtSet(t)
  BY <1>0, <1>1, SamePlaces DEF FetchBegin, FetchLook, FetchWake, FetchTimeout,
                                FetchSignal, FetchNull, FetchKeep, FmtNoPkt,
                                FmtSet
<1>2. CASE FetchTake(t)
  <2>1. pkt[t] = NoPkt
    BY <1>2, Holding
       DEF FetchTake, EmptyLabels, HoldLabels, Labels, FetchLabels
  <2> QED BY <1>2, <2>1, TakeReady DEF FetchTake
<1>3. CASE FetchDrop(t)
  <2>1. pkt[t] \in Pkt
    BY <1>3, Holding DEF FetchDrop, HoldLabels
  <2> QED BY <1>3, <2>1, PutFree DEF FetchDrop
<1>4. CASE Deliver(t)
  <2>1. pkt[t] \in Pkt
    BY <1>4, Holding DEF Deliver, HoldLabels
  <2>2. /\ pool' = pool \cup {pkt[t]} /\ Drop(t)
        /\ UNCHANGED <<lost, freeq, rdyq, actq>>
    BY <1>4 DEF Deliver
  <2>3. \A j \in 1..5 : j = 1 \/ j = 2 \/ j = 3 \/ j = 4 \/ j = 5
    OBVIOUS
  <2>4. \A j \in 1..5 : Places'[j] = IF j = 1 THEN Places[j] \cup {pkt[t]}
                                              ELSE Places[j]
    BY <2>2, <2>3, PlacesAre
  <2>5. QueuedOnce'
    BY <1>0, <2>2 DEF QueuedOnce, PacketOwnership
  <2> QED BY <2>1, <2>2, <2>4, <2>5, PutTo
<1>5. CASE FmtAlloc(t)
  <2>1. PICK p \in pool : AllocPkt(p) /\ Hold(t, p)
    BY <1>5 DEF FmtAlloc
  <2>2. pkt[t] = NoPkt
    BY <1>5, Holding
       DEF FmtAlloc, EmptyLabels, HoldLabels, Labels, FetchLabels
  <2> QED BY <1>5, <2>1, <2>2, TakePool DEF FmtAlloc
<1> QED BY <1>1, <1>2, <1>3, <1>4, <1>5, AddOwns, CaptureOwns DEF FetchStep

LEMMA PeekOwns ==
    ASSUME OwnInv, NEW t \in Threads, PeekBegin(t) \/ PeekStep(t)
    PROVE  PacketOwnership'
<1> USE DEF queues, threads, device
<1>0. PacketOwnership
  BY DEF OwnInv
<1>1. CASE PeekBegin(t) \/ PeekKeep(t)
  BY <1>0, <1>1, SamePlaces DEF PeekBegin, PeekKeep
<1>2. CASE PeekDrop(t)
  <2>1. pkt[t] = NoPkt
    BY <1>2, Holding DEF PeekDrop, EmptyLabels, HoldLabels, Labels
  <2>2. CASE rdyq = << >>
    BY <1>0, <1>2, <2>2, SamePlaces DEF PeekDrop
  <2>3. CASE rdyq # << >>
    BY <1>2, <2>1, <2>3, TakeReady DEF PeekDrop
  <2> QED BY <2>2, <2>3
<1>3. CASE PeekPut(t)
  <2>1. CASE pkt[t] = NoPkt
    BY <1>0, <1>3, <2>1, SamePlaces DEF PeekPut
  <2>2. CASE pkt[t] # NoPkt
    <3>1. pkt[t] \in Pkt
      BY <2>2 DEF OwnInv, TypeInv, Hands, HandsTypeOK
    <3> QED BY <1>3, <2>2, <3>1, PutFree DEF PeekPut
  <2> QED BY <2>1, <2>2
<1> QED BY <1>1, <1>2, <1>3 DEF PeekStep
LEMMA ControlOwns ==
    ASSUME OwnInv, NEW t \in Threads, Command(t) \/ ControlStep(t)
    PROVE  PacketOwnership'
<1> USE DEF queues, threads, device
<1>0. /\ PacketOwnership
      /\ freeq \in Seq(Pkt) /\ rdyq \in Seq(Pkt) /\ actq \in Seq(Pkt)
      /\ NoRepeats(freeq) /\ NoRepeats(rdyq) /\ NoRepeats(actq)
  BY DEF OwnInv, TypeInv, PacketsTypeOK, PacketOwnership
<1>1. CASE StartCapture(t) \/ PauseCmd(t) \/ ResumeCmd(t)
  BY <1>0, <1>1, SamePlaces DEF StartCapture, PauseCmd, ResumeCmd
<1>2. ASSUME NEW command \in {"discard", "flush"}, FlushBegin(t, command)
      PROVE  PacketOwnership'
  BY <1>0, <1>2, SamePlaces DEF FlushBegin
<1>3. ASSUME NEW i \in Lists, NEW p \in Planes, StopPoll(t, i, p)
      PROVE  PacketOwnership'
  BY <1>0, <1>3, SamePlaces DEF StopPoll
<1>4. CASE StopDone(t) \/ PauseCheck(t) \/ Finalize(t)
  BY <1>0, <1>4, SamePlaces DEF StopDone, PauseCheck, Finalize
<1>5. CASE DrainActive(t)
  <2>1. CASE actq = << >>
    BY <1>0, <1>5, <2>1, SamePlaces DEF DrainActive
  <2>2. CASE actq # << >>
    <3> DEFINE x == DioqHead(actq)
    <3>1. /\ PutBack(t, x) /\ actq' = DioqFetch(actq)
          /\ UNCHANGED <<lost, rdyq, pkt>>
      BY <1>5, <2>2 DEF DrainActive
    <3>2. /\ x \in Pkt /\ x \in Items(actq) /\ NoRepeats(actq')
          /\ Items(actq') = Items(actq) \ {x}
      BY <1>0, <2>2, <3>1, FetchItem
    <3>3. /\ x \in Places[5] /\ Places'[5] = Places[5] \ {x}
          /\ Places'[2] = Places[2] /\ Places'[4] = Places[4]
      BY <3>1, <3>2, PlacesAre
    <3> HIDE DEF x
    <3> QED BY <1>0, <3>1, <3>2, <3>3, PutBackOnce
  <2> QED BY <2>1, <2>2
<1>6. CASE DrainReady(t)
  <2>1. CASE rdyq = << >>
    BY <1>0, <1>6, <2>1, SamePlaces DEF DrainReady
  <2>2. CASE rdyq # << >>
    <3> DEFINE x == DioqHead(rdyq)
    <3>1. /\ PutBack(t, x) /\ rdyq' = DioqFetch(rdyq)
          /\ UNCHANGED <<lost, actq, pkt>>
      BY <1>6, <2>2 DEF DrainReady
    <3>2. /\ x \in Pkt /\ x \in Items(rdyq) /\ NoRepeats(rdyq')
          /\ Items(rdyq') = Items(rdyq) \ {x}
      BY <1>0, <2>2, <3>1, FetchItem
    <3>3. /\ x \in Places[4] /\ Places'[4] = Places[4] \ {x}
          /\ Places'[2] = Places[2] /\ Places'[5] = Places[5]
      BY <3>1, <3>2, PlacesAre
    <3> HIDE DEF x
    <3> QED BY <1>0, <3>1, <3>2, <3>3, PutBackOnce
  <2> QED BY <2>1, <2>2
<1>7. CASE DrainFree(t)
  <2>1. CASE freeq = << >>
    BY <1>0, <1>7, <2>1, SamePlaces DEF DrainFree
  <2>2. CASE freeq # << >>
    <3> DEFINE x == DioqHead(freeq)
    <3>1. /\ pool' = pool \cup {x} /\ freeq' = DioqFetch(freeq)
          /\ UNCHANGED <<lost, rdyq, actq, pkt>>
      BY <1>7, <2>2 DEF DrainFree
    <3>2. /\ x \in Items(freeq) /\ NoRepeats(freeq')
          /\ Items(freeq') = Items(freeq) \ {x}
      BY <1>0, <2>2, <3>1, FetchItem
    <3>3. \A j \in 1..5 : j = 1 \/ j = 2 \/ j = 3 \/ j = 4 \/ j = 5
      OBVIOUS
    <3>4. /\ x \in Places[3]
          /\ \A j \in 1..5 : Places'[j] = IF j = 3 THEN Places[j] \ {x}
                                     ELSE IF j = 1 THEN Places[j] \cup {x}
                                     ELSE Places[j]
      BY <3>1, <3>2, <3>3, PlacesAre
    <3>5. QueuedOnce'
      BY <1>0, <3>1, <3>2 DEF QueuedOnce
    <3> HIDE DEF x
    <3> QED BY <3>1, <3>4, <3>5, MoveTo
  <2> QED BY <2>1, <2>2
<1> QED BY <1>1, <1>2, <1>3, <1>4, <1>5, <1>6, <1>7, CaptureOwns
        DEF Command, ControlStep

LEMMA IsrOwns ==
    ASSUME OwnInv, IsrStep
    PROVE  PacketOwnership'
<1> USE DEF queues, threads, device
<1>0. PacketOwnership /\ Isr \in Threads
  BY DEF OwnInv, Threads
<1>1. CASE IsrEnter \/ IsrPibDone \/ IsrRx \/ IsrNoPkt \/ IsrTail \/ IsrAck
           \/ Finalize(Isr)
  BY <1>0, <1>1, SamePlaces
     DEF IsrEnter, IsrPibDone, IsrRx, IsrNoPkt, IsrTail, IsrAck, Finalize
<1>2. ASSUME NEW i \in Lists, IsrList(i)
      PROVE  PacketOwnership'
  BY <1>0, <1>2, SamePlaces DEF IsrList
<1>3. CASE IsrPib
  <2>1. pkt[Isr] = NoPkt
    BY <1>0, <1>3, Holding DEF IsrPib, EmptyLabels, HoldLabels, Labels,
                               IsrLabels
  <2> QED BY <1>0, <1>3, <2>1, TakeFree DEF IsrPib
<1>4. CASE IsrPibPut
  <2>1. pkt[Isr] \in Pkt
    BY <1>0, <1>4, Holding DEF IsrPibPut, HoldLabels
  <2> QED BY <1>0, <1>4, <2>1, PutReady DEF IsrPibPut
<1>5. CASE IsrReady
  <2>1. pkt[Isr] \in Pkt
    BY <1>0, <1>5, Holding DEF IsrReady, HoldLabels
  <2> QED BY <1>0, <1>5, <2>1, PutReady DEF IsrReady
<1>6. CASE IsrDone
  <2>1. PICK k \in 1..Len(actq) :
           Hold(Isr, actq[k]) /\ actq' = RemoveAt(actq, k)
    BY <1>6 DEF IsrDone
  <2> DEFINE x == actq[k]
  <2>2. pkt[Isr] = NoPkt
    BY <1>0, <1>6, Holding DEF IsrDone, EmptyLabels, HoldLabels, Labels,
                               IsrLabels
  <2>3. actq \in Seq(Pkt) /\ NoRepeats(actq)
    BY DEF OwnInv, TypeInv, PacketsTypeOK, PacketOwnership
  <2>4. /\ x \in Pkt /\ x \in Items(actq) /\ NoRepeats(actq')
        /\ Items(actq') = Items(actq) \ {x}
    BY <2>1, <2>3, RemoveItem
  <2>5. UNCHANGED <<pool, lost, freeq, rdyq>>
    BY <1>6 DEF IsrDone
  <2>6. QueuedOnce'
    BY <1>0, <2>4, <2>5 DEF QueuedOnce, PacketOwnership
  <2>7. \A j \in 1..5 : j = 1 \/ j = 2 \/ j = 3 \/ j = 4 \/ j = 5
    OBVIOUS
  <2>8. /\ x \in Places[5]
        /\ \A j \in 1..5 : Places'[j] = IF j = 5 THEN Places[j] \ {x}
                                                 ELSE Places[j]
    BY <2>4, <2>5, <2>7, PlacesAre
  <2>9. Hold(Isr, x)
    BY <2>1
  <2> HIDE DEF x
  <2> QED BY <1>0, <2>2, <2>4, <2>6, <2>8, <2>9, TakeFrom
<1> QED BY <1>0, <1>1, <1>2, <1>3, <1>4, <1>5, <1>6, CaptureOwns DEF IsrStep

LEMMA OwnInit == Init => PacketOwnership
<1> SUFFICES ASSUME Init PROVE PacketOwnership
  OBVIOUS
<1>1. /\ Items(freeq) = {} /\ Items(rdyq) = {} /\ Items(actq) = {}
      /\ NoRepeats(freeq) /\ NoRepeats(rdyq) /\ NoRepeats(actq)
  BY DEF Init, Items, ToSet, NoRepeats
<1>2. Held = {} /\ HeldOnce
  BY DEF Init, Held, HeldOnce
<1>3. pool = Pkt /\ lost = {}
  BY DEF Init
<1>4. Disjoint
  BY <1>1, <1>2, <1>3 DEF Disjoint, Places
<1>5. NoneLost
  BY <1>1, <1>2, <1>3 DEF NoneLost, Places
<1> QED BY <1>1, <1>2, <1>4, <1>5 DEF PacketOwnership

LEMMA OwnStep == OwnInv /\ [Next]_vars => PacketOwnership'
<1> SUFFICES ASSUME OwnInv, [Next]_vars PROVE PacketOwnership'
  OBVIOUS
<1> USE DEF queues, threads, device
<1>0. PacketOwnership
  BY DEF OwnInv
<1>1. CASE UNCHANGED vars
  BY <1>0, <1>1, SamePlaces DEF vars
<1>2. CASE HwStep
  BY <1>0, <1>2, SamePlaces DEF HwStep, HwComplete, HwHalt, HwPib
<1>3. CASE Next /\ ~HwStep
  BY <1>3, AddOwns, CaptureOwns, FetchOwns, PeekOwns, ControlOwns, IsrOwns
     DEF Next, AddStep, Threads
<1> QED BY <1>1, <1>2, <1>3

\* Every packet is in exactly one place, once, whatever the number of packets
\* and of threads: no interleaving of the interrupt with fetches, peeks, adds,
\* flushes and pauses duplicates a packet or loses track of it.
THEOREM Ownership == Spec => []PacketOwnership
<1>1. Init => OwnInv
  BY TypeInit, OwnInit DEF OwnInv
<1>2. OwnInv /\ [Next]_vars => OwnInv'
  BY TypeStep, OwnStep DEF OwnInv
<1>3. OwnInv => PacketOwnership
  BY DEF OwnInv
<1> QED BY <1>1, <1>2, <1>3, PTL DEF Spec

-----------------------------------------------------------------------------
(***************************************************************************)
(* fetch_sem: who holds it, and what it protects.                          *)
(***************************************************************************)
\* The places of a context that looks at a picture.
Inside == {"check", "oops", "peek", "peek_put"}

-----------------------------------------------------------------------------
(***************************************************************************)
(* The four kinds of step.                                                 *)
(***************************************************************************)
\* A step of a context that is outside and stays outside.
LEMMA StayOutside ==
    ASSUME SemHeldInside, HandsTypeOK, NEW t \in Threads, pc[t] \notin Inside,
           NEW l, l \notin Inside, Goto(t, l), UNCHANGED sem
    PROVE  SemHeldInside'
<1> SUFFICES ASSUME NEW u \in Fetchers \cup Peekers
             PROVE  sem' = u <=> pc'[u] \in Inside
  BY DEF SemHeldInside, Inside
<1>1. sem = u <=> pc[u] \in Inside
  BY DEF SemHeldInside, Inside
<1>2. CASE u = t
  BY <1>1, <1>2 DEF Goto, HandsTypeOK
<1>3. CASE u # t
  BY <1>1, <1>3 DEF Goto, HandsTypeOK
<1> QED BY <1>2, <1>3

\* A context takes the free semaphore and goes inside.
LEMMA GoInside ==
    ASSUME SemHeldInside, HandsTypeOK, NEW t \in Threads, SemFree,
           NEW l \in Inside, Goto(t, l), sem' = t
    PROVE  SemHeldInside'
<1> SUFFICES ASSUME NEW u \in Fetchers \cup Peekers
             PROVE  sem' = u <=> pc'[u] \in Inside
  BY DEF SemHeldInside, Inside
<1>1. u \in Threads /\ u # NoThread
  BY RxAssumption DEF Threads
<1>2. pc[u] \notin Inside
  BY <1>1 DEF SemHeldInside, Inside, SemFree
<1>3. CASE u = t
  BY <1>3 DEF Goto, HandsTypeOK
<1>4. CASE u # t
  BY <1>2, <1>4 DEF Goto, HandsTypeOK
<1> QED BY <1>3, <1>4

\* The context inside stays there, or gives the semaphore back and leaves.
LEMMA StayInside ==
    ASSUME SemHeldInside, HandsTypeOK, NEW t \in Fetchers \cup Peekers,
           pc[t] \in Inside, NEW l \in Inside, Goto(t, l), UNCHANGED sem
    PROVE  SemHeldInside'
<1> SUFFICES ASSUME NEW u \in Fetchers \cup Peekers
             PROVE  sem' = u <=> pc'[u] \in Inside
  BY DEF SemHeldInside, Inside
<1>1. sem = u <=> pc[u] \in Inside
  BY DEF SemHeldInside, Inside
<1>2. CASE u = t
  BY <1>1, <1>2 DEF Goto, HandsTypeOK, Threads
<1>3. CASE u # t
  BY <1>1, <1>3 DEF Goto, HandsTypeOK
<1> QED BY <1>2, <1>3

LEMMA GoOutside ==
    ASSUME SemHeldInside, HandsTypeOK, NEW t \in Fetchers \cup Peekers,
           pc[t] \in Inside, NEW l, l \notin Inside, Goto(t, l),
           sem' = NoThread
    PROVE  SemHeldInside'
<1> SUFFICES ASSUME NEW u \in Fetchers \cup Peekers
             PROVE  sem' = u <=> pc'[u] \in Inside
  BY DEF SemHeldInside, Inside
<1>1. sem = t
  BY DEF SemHeldInside, Inside
<1>2. u # NoThread
  BY RxAssumption DEF Threads
<1>3. CASE u = t
  BY <1>2, <1>3 DEF Goto, HandsTypeOK, Threads
<1>4. CASE u # t
  <2>1. pc[u] \notin Inside
    BY <1>1, <1>4 DEF SemHeldInside, Inside
  <2> QED BY <1>2, <1>4, <2>1 DEF Goto, HandsTypeOK
<1> QED BY <1>3, <1>4

\* The interrupt handler does not touch the semaphore.
LEMMA IsrOutside ==
    ASSUME SemHeldInside, HandsTypeOK, UNCHANGED sem,
           \A u \in Threads \ {Isr} : pc'[u] = pc[u]
    PROVE  SemHeldInside'
<1>1. Fetchers \cup Peekers \subseteq Threads \ {Isr}
  BY RxAssumption DEF Threads
<1> QED BY <1>1 DEF SemHeldInside

-----------------------------------------------------------------------------
(***************************************************************************)
(* The actions.                                                            *)
(***************************************************************************)
LEMMA CaptureSem ==
    ASSUME SemHeldInside, HandsTypeOK, NEW t \in Threads, Capture(t)
    PROVE  SemHeldInside'
<1>1. pc[t] \notin Inside /\ UNCHANGED sem
  BY DEF Capture, CapFetch, CapNoData, Program, PostBusy, PostBusyFree,
         Posting, Inside
<1>2. PICK l : l \notin Inside /\ Goto(t, l)
  <2>1. \A c : Return(c) \notin Inside /\ NextList \notin Inside
    BY DEF Return, NextList, Inside
  <2> QED BY <2>1 DEF Capture, CapFetch, CapNoData, Program, PostBusy,
                      PostBusyFree, Inside
<1> QED BY <1>1, <1>2, StayOutside

LEMMA AddSem ==
    ASSUME SemHeldInside, HandsTypeOK, NEW t \in Threads,
           AddAlloc(t) \/ XlatFail(t) \/ AddFree(t)
    PROVE  SemHeldInside'
<1>1. pc[t] \notin Inside /\ UNCHANGED sem
  BY DEF AddAlloc, XlatFail, AddFree, Inside
<1>2. PICK l : l \notin Inside /\ Goto(t, l)
  BY DEF AddAlloc, XlatFail, AddFree, Inside
<1> QED BY <1>1, <1>2, StayOutside

\* The actions of a fetch that leave the semaphore alone.
Outside(t) ==
    \/ FetchBegin(t) \/ FetchLook(t) \/ FetchWake(t) \/ FetchTimeout(t)
    \/ FetchSignal(t) \/ Deliver(t) \/ FmtAlloc(t) \/ FmtNoPkt(t) \/ FmtSet(t)

LEMMA FetchSem ==
    ASSUME SemHeldInside, HandsTypeOK, NEW t \in Fetchers,
           FetchBegin(t) \/ FetchSignal(t) \/ FetchStep(t)
    PROVE  SemHeldInside'
<1>0. t \in Threads
  BY DEF Threads
<1>1. CASE Outside(t)
  <2> USE <1>1 DEF Outside, FetchBegin, FetchLook, FetchWake, FetchTimeout,
                   FetchSignal, Deliver, FmtAlloc, FmtNoPkt, FmtSet
  <2>1. pc[t] \notin Inside /\ UNCHANGED sem
    BY DEF Inside
  <2>2. PICK l : l \notin Inside /\ Goto(t, l)
    BY DEF Inside
  <2> QED BY <1>0, <2>1, <2>2, StayOutside
<1>2. CASE FetchTake(t)
  BY <1>0, <1>2, GoInside DEF FetchTake, Inside
<1>3. CASE FetchNull(t)
  BY <1>0, <1>3, GoInside DEF FetchNull, Inside
<1>4. CASE FetchDrop(t)
  BY <1>4, GoOutside DEF FetchDrop, Inside
<1>5. CASE FetchKeep(t)
  BY <1>5, GoOutside DEF FetchKeep, Inside
<1>6. CASE AddFree(t) \/ Capture(t)
  BY <1>0, <1>6, AddSem, CaptureSem
<1> QED BY <1>1, <1>2, <1>3, <1>4, <1>5, <1>6 DEF FetchStep, Outside

LEMMA PeekSem ==
    ASSUME SemHeldInside, HandsTypeOK, NEW t \in Peekers,
           PeekBegin(t) \/ PeekStep(t)
    PROVE  SemHeldInside'
<1>0. t \in Threads
  BY DEF Threads
<1>1. CASE PeekBegin(t)
  BY <1>0, <1>1, GoInside DEF PeekBegin, Inside
<1>2. CASE PeekKeep(t)
  BY <1>2, GoOutside DEF PeekKeep, Inside
<1>3. CASE PeekDrop(t)
  BY <1>3, StayInside DEF PeekDrop, Inside
<1>4. CASE PeekPut(t)
  BY <1>4, GoOutside DEF PeekPut, Inside
<1> QED BY <1>1, <1>2, <1>3, <1>4 DEF PeekStep

LEMMA ControlSem ==
    ASSUME SemHeldInside, HandsTypeOK, NEW t \in Controllers,
           Command(t) \/ ControlStep(t)
    PROVE  SemHeldInside'
<1>0. t \in Threads
  BY DEF Threads
<1>1. CASE \E i \in Lists, p \in Planes : StopPoll(t, i, p)
  BY <1>1 DEF StopPoll, SemHeldInside
<1>2. CASE Capture(t)
  BY <1>0, <1>2, CaptureSem
<1>3. CASE DrainActive(t) \/ DrainReady(t) \/ DrainFree(t)
  <2>1. pc[t] \notin Inside /\ UNCHANGED sem
    BY <1>3 DEF DrainActive, DrainReady, DrainFree, Inside
  <2>2. CASE UNCHANGED pc
    BY <2>1, <2>2 DEF SemHeldInside
  <2>3. CASE \E l : l \notin Inside /\ Goto(t, l)
    BY <1>0, <2>1, <2>3, StayOutside
  <2> QED BY <1>3, <2>2, <2>3
        DEF DrainActive, DrainReady, DrainFree, Inside
<1>4. CASE Command(t) \/ StopDone(t) \/ PauseCheck(t) \/ Finalize(t)
  <2> USE <1>4 DEF Command, StartCapture, PauseCmd, ResumeCmd, FlushBegin,
                   StopDone, PauseCheck, Finalize
  <2>1. pc[t] \notin Inside /\ UNCHANGED sem
    BY DEF Inside
  <2>2. PICK l : l \notin Inside /\ Goto(t, l)
    BY DEF Inside, Return
  <2> QED BY <1>0, <2>1, <2>2, StayOutside
<1> QED BY <1>1, <1>2, <1>3, <1>4 DEF ControlStep

LEMMA IsrSem ==
    ASSUME SemHeldInside, HandsTypeOK, IsrStep
    PROVE  SemHeldInside'
<1>1. UNCHANGED sem
  BY DEF IsrStep, IsrEnter, IsrPib, IsrPibPut, IsrPibDone, IsrRx, IsrList,
         IsrDone, IsrReady, IsrNoPkt, IsrTail, IsrAck, Finalize, Capture,
         CapFetch, CapNoData, Program, PostBusy, PostBusyFree
<1>2. \E l : pc' = [pc EXCEPT ![Isr] = l]
  BY DEF IsrStep, IsrEnter, IsrPib, IsrPibPut, IsrPibDone, IsrRx, IsrList,
         IsrDone, IsrReady, IsrNoPkt, IsrTail, IsrAck, Finalize, Capture,
         CapFetch, CapNoData, Program, PostBusy, PostBusyFree, Goto
<1>3. \A u \in Threads \ {Isr} : pc'[u] = pc[u]
  BY <1>2 DEF HandsTypeOK
<1> QED BY <1>1, <1>3, IsrOutside

LEMMA SemStep ==
    SemHeldInside /\ HandsTypeOK /\ [Next]_vars => SemHeldInside'
<1> SUFFICES ASSUME SemHeldInside, HandsTypeOK, [Next]_vars
             PROVE  SemHeldInside'
  OBVIOUS
<1>1. CASE UNCHANGED vars \/ HwStep
  <2>1. UNCHANGED <<pc, sem>>
    BY <1>1 DEF vars, threads, HwStep, HwComplete, HwHalt, HwPib
  <2> QED BY <2>1 DEF SemHeldInside
<1>2. CASE Next /\ ~HwStep
  BY <1>2, AddSem, CaptureSem, FetchSem, PeekSem, ControlSem, IsrSem
     DEF Next, AddStep, Threads
<1> QED BY <1>1, <1>2

-----------------------------------------------------------------------------
(***************************************************************************)
(* The theorems.                                                           *)
(***************************************************************************)
\* fetch_sem is held by at most one context, exactly while it looks at a
\* picture of the ready queue, whatever the number of fetches and peeks.
THEOREM SemaphoreHeld == Spec => []SemHeldInside
<1>1. Init => SemHeldInside
  BY RxAssumption DEF Init, SemHeldInside, Threads
<1>2. TypeOK /\ SemHeldInside /\ [Next]_vars => SemHeldInside'
  BY SemStep DEF TypeOK
<1> QED BY <1>1, <1>2, TypeCorrect, PTL DEF Spec

-----------------------------------------------------------------------------
(***************************************************************************)
(* The list status agrees with the engine and with the active queue while  *)
(* nothing is flushed: a list the driver takes for free has no transfer    *)
(* left, a list in error still waits for a plane, and the active queue     *)
(* holds the packets of the busy lists.                                    *)
(***************************************************************************)
\* Only start, pause and resume are issued: no context is where a flush stops
\* the engine or empties the queues.
NoFlush == Commands \cap {"flush", "discard"} = {}
Flushing ==
    {"stop_d", "stop_u", "act_d", "act_u", "rdy_d", "rdy_u", "free_u"}
NoStops == \A t \in Threads : pc[t] \notin Flushing

\* The handler has read the error status and is still to use it for list i.
Ahead(i) ==
    \/ pc[Isr] = "list0"
    \/ i = 1 /\ pc[Isr] = "list1"
    \/ /\ i = 1 /\ isr.list = 0
       /\ pc[Isr] \in {"done_ok", "done_err", "ready", "err_post", "err_busy"}

\* Every transfer in the engine is awaited.
ValidAwaited == \A i \in Lists : valid[i] \subseteq sts[i]

\* A plane with an error bit has ended and is still awaited.
ErrorsAwaited ==
    \A i \in Lists, p \in Planes :
        errsts[i][p] # {} => p \in sts[i] /\ p \notin valid[i]

\* An interrupt of an earlier transfer of a plane that was armed again is
\* harmless: the list has no error bit, so its interrupts are not looked at.
StaleQuiet ==
    \A i \in Lists, p \in Planes :
        p \in valid[i] /\ <<i, p>> \in intr
            => \A q \in Planes : errsts[i][q] = {}

\* What the handler read is a part of what the device holds: the interrupts
\* are still raised, and the error bits of a plane are those of the device,
\* except that a transfer may have ended since, whose interrupt was not seen.
SnapRaised == isr.snap \subseteq intr
ErrorsCurrent ==
    \A i \in Lists, p \in Planes : Ahead(i) =>
        /\ isr.err[i][p] = {} \/ isr.err[i][p] = errsts[i][p]
        /\ <<i, p>> \in isr.snap => isr.err[i][p] = errsts[i][p]

ListInv == /\ NoStops /\ ValidAwaited /\ ErrorsAwaited /\ StaleQuiet
           /\ SnapRaised /\ ErrorsCurrent

USE DEF Flushing

-----------------------------------------------------------------------------
(***************************************************************************)
(* Steps that leave lists and engine alone.                                *)
(***************************************************************************)
LEMMA ListFrame ==
    ASSUME ListInv, NoStops', UNCHANGED <<sts, valid, errsts, intr, isr>>,
           \A i \in Lists : Ahead(i)' => Ahead(i)
    PROVE  ListInv'
BY DEF ListInv, ValidAwaited, ErrorsAwaited, StaleQuiet, SnapRaised,
       ErrorsCurrent

LEMMA OtherPlace ==
    ASSUME HandsTypeOK, NoStops, NEW t \in Threads,
           NEW l, l \notin Flushing, Goto(t, l)
    PROVE  NoStops' /\ (t # Isr => pc'[Isr] = pc[Isr])
BY DEF HandsTypeOK, NoStops, Goto, Threads

LEMMA QuietStep ==
    ASSUME ListInv, HandsTypeOK, NEW t \in Threads, t # Isr,
           NEW l, l \notin Flushing, Goto(t, l),
           UNCHANGED <<sts, valid, errsts, intr, isr>>
    PROVE  ListInv'
<1>1. NoStops' /\ pc'[Isr] = pc[Isr]
  BY OtherPlace DEF ListInv
<1> QED BY <1>1, ListFrame DEF Ahead

\* A step of the handler after which it has no list ahead that it had not.
LEMMA QuietIsr ==
    ASSUME ListInv, HandsTypeOK,
           NEW l, l \notin Flushing, Goto(Isr, l),
           UNCHANGED <<sts, valid, errsts, intr, isr>>,
           \A i \in Lists : Ahead(i)' => Ahead(i)
    PROVE  ListInv'
<1>1. NoStops'
  BY OtherPlace DEF ListInv, Threads
<1> QED BY <1>1, ListFrame

-----------------------------------------------------------------------------
(***************************************************************************)
(* Posting.                                                                *)
(***************************************************************************)
LEMMA ProgramList ==
    ASSUME ListInv, HandsTypeOK, DriverTypeOK, DeviceTypeOK,
           NEW t \in Threads, Program(t)
    PROVE  ListInv'
<1> USE DEF ListInv
<1>0. PICK l : /\ Goto(t, l) /\ l \notin Flushing
               /\ t = Isr => l = NextList \/ l \in {"cap2", "ack"}
  BY DEF Program, Posting, Return, NextList
<1>1. postIndex \in Lists /\ sts[postIndex] = {}
  BY DEF Program, DriverTypeOK
<1>2. /\ sts' = [sts EXCEPT ![postIndex] = Planes]
      /\ valid' = [valid EXCEPT ![postIndex] = Planes]
      /\ UNCHANGED <<isr, errsts, intr>>
  BY DEF Program, notices
<1>3. \A p \in Planes : errsts[postIndex][p] = {}
  BY <1>1 DEF ErrorsAwaited
<1>4. NoStops'
  BY <1>0, OtherPlace
<1>5. ValidAwaited' /\ ErrorsAwaited' /\ StaleQuiet' /\ SnapRaised'
  <2>1. \A i \in Lists :
           /\ sts'[i] = IF i = postIndex THEN Planes ELSE sts[i]
           /\ valid'[i] = IF i = postIndex THEN Planes ELSE valid[i]
    BY <1>1, <1>2 DEF DriverTypeOK, DeviceTypeOK
  <2> QED BY <1>1, <1>2, <1>3, <2>1
          DEF ValidAwaited, ErrorsAwaited, StaleQuiet, SnapRaised
<1>6. ASSUME NEW i \in Lists, Ahead(i)' PROVE Ahead(i)
  <2>1. CASE t # Isr
    <3>1. pc'[Isr] = pc[Isr]
      BY <1>0, <2>1, OtherPlace
    <3> QED BY <1>2, <1>6, <3>1 DEF Ahead
  <2>2. CASE t = Isr
    <3>1. pc'[Isr] = l
      BY <1>0, <2>2 DEF Goto, HandsTypeOK, Threads
    <3>2. l = "list1" /\ i = 1 /\ isr.list = 0
      BY <1>0, <1>2, <1>6, <2>2, <3>1 DEF Ahead, NextList
    <3>3. pc[Isr] \in {"err_post", "post1", "post2", "add_post"}
      BY <2>2 DEF Program, Posting
    <3>4. pc[Isr] = "err_post"
      BY <1>0, <2>2, <3>1, <3>2, <3>3
         DEF Program, Goto, HandsTypeOK, Threads, Return
    <3> QED BY <3>2, <3>4 DEF Ahead
  <2> QED BY <2>1, <2>2
<1>7. ErrorsCurrent'
  BY <1>2, <1>6 DEF ErrorsCurrent
<1> QED BY <1>4, <1>5, <1>7

LEMMA CaptureList ==
    ASSUME ListInv, TypeInv, NEW t \in Threads, Capture(t)
    PROVE  ListInv'
<1>0. HandsTypeOK /\ DriverTypeOK /\ DeviceTypeOK
  BY DEF TypeInv, Hands
<1>1. CASE Program(t)
  BY <1>0, <1>1, ProgramList
<1>2. CASE ~Program(t)
  <2>1. UNCHANGED <<sts, valid, errsts, intr, isr>>
    BY <1>2 DEF Capture, CapFetch, CapNoData, PostBusy, PostBusyFree, lists,
                device
  <2>2. PICK l : /\ Goto(t, l) /\ l \notin Flushing
                 /\ \/ l \in {"post1", "post2", "busy", "ack", "idle"}
                    \/ l = "err_busy" /\ pc[t] = "err_post"
                    \/ l = NextList /\ pc[t] = "err_busy"
    BY <1>2 DEF Capture, CapFetch, CapNoData, PostBusy, PostBusyFree, Return,
                NextList
  <2>3. CASE t # Isr
    BY <1>0, <2>1, <2>2, <2>3, QuietStep
  <2>4. CASE t = Isr
    <3>1. pc'[Isr] = l
      BY <1>0, <2>2, <2>4 DEF Goto, HandsTypeOK, Threads
    <3>2. \A i \in Lists : Ahead(i)' => Ahead(i)
      BY <2>1, <2>2, <2>4, <3>1 DEF Ahead, NextList
    <3> QED BY <1>0, <2>1, <2>2, <2>4, <3>2, QuietIsr
  <2> QED BY <2>3, <2>4
<1> QED BY <1>1, <1>2

-----------------------------------------------------------------------------
(***************************************************************************)
(* The ioctls.                                                             *)
(***************************************************************************)
LEMMA AppList ==
    ASSUME ListInv, TypeInv, NEW t \in Threads, t # Isr,
           \/ AddAlloc(t) \/ XlatFail(t) \/ AddFree(t)
           \/ FetchBegin(t) \/ FetchSignal(t) \/ FetchLook(t) \/ FetchWake(t)
           \/ FetchTimeout(t) \/ FetchTake(t) \/ FetchNull(t) \/ FetchDrop(t)
           \/ FetchKeep(t) \/ Deliver(t) \/ FmtAlloc(t) \/ FmtNoPkt(t)
           \/ FmtSet(t)
    PROVE  ListInv'
<1> USE DEF AddAlloc, XlatFail, AddFree, FetchBegin, FetchSignal, FetchLook,
            FetchWake, FetchTimeout, FetchTake, FetchNull, FetchDrop,
            FetchKeep, Deliver, FmtAlloc, FmtNoPkt, FmtSet
<1>1. UNCHANGED <<sts, valid, errsts, intr, isr>>
  BY DEF lists, device
<1>2. PICK l : l \notin Flushing /\ Goto(t, l)
  OBVIOUS
<1> QED BY <1>1, <1>2, QuietStep DEF TypeInv, Hands

LEMMA PeekList ==
    ASSUME ListInv, TypeInv, NEW t \in Threads, t # Isr,
           PeekBegin(t) \/ PeekStep(t)
    PROVE  ListInv'
<1> USE DEF PeekStep, PeekBegin, PeekKeep, PeekDrop, PeekPut
<1>1. UNCHANGED <<sts, valid, errsts, intr, isr>>
  BY DEF lists, device
<1>2. PICK l : l \notin Flushing /\ Goto(t, l)
  OBVIOUS
<1> QED BY <1>1, <1>2, QuietStep DEF TypeInv, Hands

\* Of the control steps, only these are taken.
LEMMA NoFlushSteps ==
    ASSUME NoFlush, ListInv, NEW t \in Threads, Command(t) \/ ControlStep(t),
           ~Capture(t)
    PROVE  \/ StartCapture(t) \/ PauseCmd(t) \/ ResumeCmd(t)
           \/ PauseCheck(t) \/ Finalize(t)
<1>1. /\ ~StopDone(t) /\ ~DrainActive(t) /\ ~DrainReady(t) /\ ~DrainFree(t)
      /\ \A i \in Lists, p \in Planes : ~StopPoll(t, i, p)
  BY DEF ListInv, NoStops, StopDone, StopPoll, DrainActive, DrainReady, DrainFree
<1>2. \A command \in {"discard", "flush"} : ~FlushBegin(t, command)
  BY DEF FlushBegin, NoFlush
<1> QED BY <1>1, <1>2 DEF Command, ControlStep

LEMMA ControlList ==
    ASSUME NoFlush, ListInv, TypeInv, NEW t \in Threads, t # Isr,
           Command(t) \/ ControlStep(t)
    PROVE  ListInv'
<1>1. CASE Capture(t)
  BY <1>1, CaptureList
<1>2. CASE ~Capture(t)
  <2>1. \/ StartCapture(t) \/ PauseCmd(t) \/ ResumeCmd(t)
        \/ PauseCheck(t) \/ Finalize(t)
    BY <1>2, NoFlushSteps
  <2> USE <2>1 DEF StartCapture, PauseCmd, ResumeCmd, PauseCheck, Finalize
  <2>2. UNCHANGED <<sts, valid, errsts, intr, isr>>
    BY DEF lists, device, notices
  <2>3. PICK l : l \notin Flushing /\ Goto(t, l)
    BY DEF Return
  <2> QED BY <2>2, <2>3, QuietStep DEF TypeInv, Hands
<1> QED BY <1>1, <1>2

-----------------------------------------------------------------------------
(***************************************************************************)
(* The interrupt handler.                                                  *)
(***************************************************************************)
\* What the handler makes of a plane it has not seen end.
LEMMA StillAwaited ==
    ASSUME ListInv, NEW i \in Lists, Ahead(i), NEW p \in Planes, p \in sts[i],
           \/ p \in valid[i]
           \/ isr.err[i][p] = {} /\ errsts[i][p] # {}
    PROVE  p \in NewStatus(i)
<1> USE DEF ListInv
<1>1. isr.err[i][p] = {}
  BY DEF ErrorsAwaited, ErrorsCurrent
<1>2. p \notin Broken(i)
  BY <1>1 DEF Broken
<1>3. CASE <<i, p>> \notin isr.snap
  BY <1>1, <1>2, <1>3 DEF NewStatus, Ended
<1>4. CASE <<i, p>> \in isr.snap
  <2>1. p \in valid[i]
    BY <1>1, <1>4 DEF ErrorsCurrent
  <2>2. \A q \in Planes : errsts[i][q] = {}
    BY <1>4, <2>1 DEF StaleQuiet, SnapRaised
  <2>3. ~Seen(i)
    BY <2>2 DEF Seen, ErrorsCurrent
  <2> QED BY <2>3 DEF NewStatus
<1> QED BY <1>3, <1>4

LEMMA HandlerList ==
    ASSUME ListInv, TypeInv, NEW i \in Lists, IsrList(i)
    PROVE  ListInv'
<1> USE DEF ListInv
<1> DEFINE new == NewStatus(i)
           done == new # sts[i] /\ ListDone(new)
<1>0. HandsTypeOK /\ DriverTypeOK /\ DeviceTypeOK /\ LocalsTypeOK
  BY DEF TypeInv, Hands
<1>1. Ahead(i) /\ pc[Isr] = (IF i = 0 THEN "list0" ELSE "list1")
  BY DEF IsrList, Ahead, Lists
<1>2. PICK l \in {"done_ok", "done_err", "list1", "tail"} :
         Goto(Isr, l) /\ (i = 1 => l # "list1")
  <2>1. CASE done /\ new = {}
    BY <2>1 DEF IsrList, Goto
  <2>2. CASE done /\ new # {}
    BY <2>2 DEF IsrList, Goto
  <2>3. CASE ~done
    <3>1. Goto(Isr, IF i = 0 THEN "list1" ELSE "tail")
      BY <2>3 DEF IsrList, Goto
    <3> HIDE DEF done, new
    <3> QED BY <3>1
  <2> QED BY <2>1, <2>2, <2>3
<1>3. pc'[Isr] = l /\ NoStops'
  BY <1>0, <1>2, OtherPlace DEF Goto, HandsTypeOK, Threads
<1>4. /\ sts' = [sts EXCEPT ![i] = IF done THEN {} ELSE new]
      /\ errsts' = [errsts EXCEPT ![i] = ClearedErrors(i)]
      /\ UNCHANGED <<valid, intr>>
      /\ isr'.snap = isr.snap /\ isr'.err = isr.err /\ isr'.list = i
  BY <1>0 DEF IsrList, LocalsTypeOK
<1>5. ASSUME NEW p \in Planes, p \in new PROVE sts'[i] = new
  <2>1. Planes \subseteq Waiting
    BY RxAssumption DEF Waiting
  <2>2. ~ListDone(new)
    BY <1>5, <2>1 DEF ListDone
  <2> QED BY <1>0, <1>4, <2>2 DEF DriverTypeOK
<1>6. \A p \in Planes : errsts'[i][p] = errsts[i][p] \ isr.err[i][p]
  BY <1>0, <1>4 DEF ClearedErrors, DeviceTypeOK
<1>7. \A j \in Lists : j # i => sts'[j] = sts[j] /\ errsts'[j] = errsts[j]
  BY <1>0, <1>4 DEF DriverTypeOK, DeviceTypeOK
<1>8. ValidAwaited'
  <2> SUFFICES ASSUME NEW j \in Lists, NEW p \in valid[j] PROVE p \in sts'[j]
    BY <1>4 DEF ValidAwaited
  <2>1. p \in Planes /\ p \in sts[j]
    BY <1>0 DEF ValidAwaited, DeviceTypeOK
  <2>2. CASE j = i
    BY <1>1, <1>5, <2>1, <2>2, StillAwaited
  <2>3. CASE j # i
    BY <1>7, <2>1, <2>3
  <2> QED BY <2>2, <2>3
<1>9. ErrorsAwaited'
  <2> SUFFICES ASSUME NEW j \in Lists, NEW p \in Planes, errsts'[j][p] # {}
               PROVE  p \in sts'[j] /\ p \notin valid[j]
    BY <1>4 DEF ErrorsAwaited
  <2>1. CASE j = i
    <3>1. errsts[i][p] # {} /\ isr.err[i][p] = {}
      BY <1>1, <1>6, <2>1 DEF ErrorsCurrent
    <3>2. p \in sts[i] /\ p \notin valid[i]
      BY <3>1 DEF ErrorsAwaited
    <3> QED BY <1>1, <1>5, <2>1, <3>1, <3>2, StillAwaited
  <2>2. CASE j # i
    BY <1>7, <2>2 DEF ErrorsAwaited
  <2> QED BY <2>1, <2>2
<1>10. StaleQuiet' /\ SnapRaised'
  BY <1>4, <1>6, <1>7 DEF StaleQuiet, SnapRaised
<1>11. ErrorsCurrent'
  <2> SUFFICES ASSUME NEW j \in Lists, Ahead(j)'
               PROVE  j # i /\ Ahead(j)
    BY <1>4, <1>7 DEF ErrorsCurrent
  <2>1. j = 1 /\ i = 0
    BY <1>2, <1>3, <1>4 DEF Ahead, Lists
  <2> QED BY <1>1, <2>1 DEF Ahead
<1> QED BY <1>3, <1>8, <1>9, <1>10, <1>11

LEMMA InterruptList ==
    ASSUME ListInv, TypeInv, IsrStep
    PROVE  ListInv'
<1>0. HandsTypeOK /\ LocalsTypeOK /\ NoStops /\ Isr \in Threads
  BY DEF TypeInv, Hands, ListInv, Threads
<1>1. CASE Capture(Isr)
  BY <1>0, <1>1, CaptureList
<1>2. ASSUME NEW i \in Lists, IsrList(i) PROVE ListInv'
  BY <1>2, HandlerList
<1>3. CASE IsrPibPut \/ IsrDone \/ IsrReady \/ IsrNoPkt \/ IsrTail
           \/ Finalize(Isr)
  <2> USE <1>3 DEF IsrPibPut, IsrDone, IsrReady, IsrNoPkt, IsrTail, Finalize
  <2>1. UNCHANGED <<sts, valid, errsts, intr, isr>>
    BY DEF lists, device, notices
  <2>2. PICK l : /\ Goto(Isr, l) /\ l \notin Flushing
                 /\ \/ l \in {"pib", "cap1", "finalize", "ack"}
                    \/ /\ l \in {"ready", "err_post", NextList}
                       /\ pc[Isr] \in {"done_ok", "done_err", "ready"}
    BY DEF Return, NextList
  <2>3. pc'[Isr] = l
    BY <1>0, <2>2 DEF Goto, HandsTypeOK
  <2>4. \A i \in Lists : Ahead(i)' => Ahead(i)
    BY <2>1, <2>2, <2>3 DEF Ahead, NextList
  <2> QED BY <1>0, <2>1, <2>2, <2>4, QuietIsr
<1>4. CASE IsrEnter \/ IsrPib \/ IsrPibDone
  <2> USE <1>4 DEF IsrEnter, IsrPib, IsrPibDone
  <2>1. UNCHANGED <<sts, valid, errsts, intr>>
    BY DEF lists, notices, device
  <2>2. PICK l \in {"pib", "rx", "pib_put"} : Goto(Isr, l)
    OBVIOUS
  <2>3. pc'[Isr] = l /\ NoStops'
    BY <1>0, <2>2, OtherPlace DEF Goto, HandsTypeOK
  <2>4. isr'.snap \subseteq intr
    BY <1>0 DEF LocalsTypeOK, ListInv, SnapRaised
  <2> QED BY <2>1, <2>2, <2>3, <2>4
          DEF ListInv, ValidAwaited, ErrorsAwaited, StaleQuiet, SnapRaised,
              ErrorsCurrent, Ahead
<1>5. CASE IsrRx
  <2>1. UNCHANGED <<sts, valid, errsts, intr>> /\ isr'.snap = isr.snap
    BY <1>0, <1>5 DEF IsrRx, lists, device, LocalsTypeOK
  <2>2. PICK l \in {"ack", "list0"} :
           Goto(Isr, l) /\ (l = "list0" => isr'.err = errsts)
    BY <1>0, <1>5 DEF IsrRx, LocalsTypeOK
  <2>3. pc'[Isr] = l /\ NoStops'
    BY <1>0, <2>2, OtherPlace DEF Goto, HandsTypeOK
  <2>4. ErrorsCurrent'
    BY <2>1, <2>2, <2>3 DEF ErrorsCurrent, Ahead
  <2> QED BY <2>1, <2>3, <2>4
          DEF ListInv, ValidAwaited, ErrorsAwaited, StaleQuiet, SnapRaised
<1>6. CASE IsrAck
  <2>1. /\ UNCHANGED <<sts, valid, errsts>>
        /\ intr' = intr \ isr.snap /\ isr'.snap = {} /\ Goto(Isr, "idle")
    BY <1>6 DEF IsrAck, lists, IsrIdle
  <2>2. pc'[Isr] = "idle" /\ NoStops'
    BY <1>0, <2>1, OtherPlace DEF Goto, HandsTypeOK
  <2> QED BY <2>1, <2>2
          DEF ListInv, ValidAwaited, ErrorsAwaited, StaleQuiet, SnapRaised,
              ErrorsCurrent, Ahead
<1> QED BY <1>1, <1>2, <1>3, <1>4, <1>5, <1>6 DEF IsrStep

-----------------------------------------------------------------------------
(***************************************************************************)
(* The device.                                                             *)
(***************************************************************************)
LEMMA EngineList ==
    ASSUME ListInv, TypeInv, HwStep
    PROVE  ListInv'
<1> USE DEF ListInv
<1>0. DeviceTypeOK
  BY DEF TypeInv
<1>1. UNCHANGED <<pc, sts, isr>>
  BY DEF HwStep, HwComplete, HwHalt, HwPib, lists, threads
<1>2. NoStops' /\ \A i \in Lists : Ahead(i)' <=> Ahead(i)
  BY <1>1 DEF NoStops, Ahead
<1>3. CASE HwPib
  <2>1. UNCHANGED <<valid, errsts, intr>>
    BY <1>3 DEF HwPib
  <2> QED BY <1>1, <1>2, <2>1, ListFrame
<1>4. ASSUME NEW i \in Lists, NEW p \in Planes, HwHalt(i, p) PROVE ListInv'
  <2>1. /\ valid' = [valid EXCEPT ![i] = @ \ {p}]
        /\ UNCHANGED <<errsts, intr>>
    BY <1>4 DEF HwHalt, notices
  <2>2. \A j \in Lists : valid'[j] \subseteq valid[j]
    BY <1>0, <2>1 DEF DeviceTypeOK
  <2>3. ErrorsCurrent'
    BY <1>1, <1>2, <2>1 DEF ErrorsCurrent
  <2> QED BY <1>1, <1>2, <2>1, <2>2, <2>3
          DEF ValidAwaited, ErrorsAwaited, StaleQuiet, SnapRaised
<1>5. ASSUME NEW i \in Lists, NEW p \in Planes, NEW ending \in Endings,
             HwComplete(i, p, ending)
      PROVE  ListInv'
  <2>1. /\ valid' = [valid EXCEPT ![i] = @ \ {p}]
        /\ errsts' = [errsts EXCEPT ![i][p] = @ \cup {ending}]
        /\ intr' = intr \cup {<<i, p>>}
        /\ p \in valid[i] /\ \A q \in valid[i] : <<i, q>> \notin intr
    BY <1>5 DEF HwComplete
  <2>2. \A j \in Lists :
           valid'[j] = IF j = i THEN valid[j] \ {p} ELSE valid[j]
    BY <1>0, <2>1 DEF DeviceTypeOK
  <2>3. \A j \in Lists, q \in Planes :
           errsts'[j][q] = IF j = i /\ q = p THEN errsts[j][q] \cup {ending}
                                            ELSE errsts[j][q]
    BY <1>0, <2>1 DEF DeviceTypeOK
  <2>4. errsts[i][p] = {} /\ p \in sts[i]
    BY <2>1 DEF ErrorsAwaited, ValidAwaited
  <2>5. ValidAwaited' /\ ErrorsAwaited' /\ SnapRaised'
    <3>1. ValidAwaited' /\ SnapRaised'
      BY <1>1, <2>1, <2>2 DEF ValidAwaited, SnapRaised
    <3>2. ASSUME NEW j \in Lists, NEW q \in Planes, errsts'[j][q] # {}
          PROVE  q \in sts[j] /\ q \notin valid'[j]
      <4>1. CASE j = i /\ q = p
        BY <2>2, <2>4, <4>1
      <4>2. CASE ~(j = i /\ q = p)
        <5>1. errsts[j][q] # {}
          BY <2>3, <3>2, <4>2
        <5> QED BY <2>2, <5>1 DEF ErrorsAwaited
      <4> QED BY <4>1, <4>2
    <3> QED BY <1>1, <3>1, <3>2 DEF ErrorsAwaited
  <2>6. StaleQuiet'
    <3> SUFFICES ASSUME NEW j \in Lists, NEW q \in Planes,
                        q \in valid'[j], <<j, q>> \in intr'
                 PROVE  \A r \in Planes : errsts'[j][r] = {}
      BY DEF StaleQuiet
    <3>1. j # i /\ q \in valid[j] /\ <<j, q>> \in intr
      BY <2>1, <2>2
    <3> QED BY <2>3, <3>1 DEF StaleQuiet
  <2>7. ErrorsCurrent'
    <3> SUFFICES ASSUME NEW j \in Lists, NEW q \in Planes, Ahead(j)
                 PROVE /\ isr.err[j][q] = {} \/ isr.err[j][q] = errsts'[j][q]
                       /\ <<j, q>> \in isr.snap
                              => isr.err[j][q] = errsts'[j][q]
      BY <1>1, <1>2 DEF ErrorsCurrent
    <3>1. /\ isr.err[j][q] = {} \/ isr.err[j][q] = errsts[j][q]
          /\ <<j, q>> \in isr.snap => isr.err[j][q] = errsts[j][q]
      BY DEF ErrorsCurrent
    <3>2. CASE j = i /\ q = p
      BY <2>1, <2>4, <3>1, <3>2 DEF SnapRaised
    <3>3. CASE ~(j = i /\ q = p)
      BY <2>3, <3>1, <3>3
    <3> QED BY <3>2, <3>3
  <2> QED BY <1>2, <2>5, <2>6, <2>7
<1> QED BY <1>3, <1>4, <1>5 DEF HwStep

-----------------------------------------------------------------------------
(***************************************************************************)
(* The theorem.                                                            *)
(***************************************************************************)
LEMMA ListInit == Init => ListInv
<1> SUFFICES ASSUME Init PROVE ListInv
  OBVIOUS
<1>1. /\ sts = [i \in Lists |-> {}] /\ valid = [i \in Lists |-> {}]
      /\ errsts = [i \in Lists |-> [p \in Planes |-> {}]] /\ intr = {}
      /\ isr.snap = {} /\ pc = [t \in Threads |-> "idle"]
  BY DEF Init, NoErrors, IsrIdle
<1> QED BY <1>1 DEF ListInv, NoStops, ValidAwaited, ErrorsAwaited, StaleQuiet,
                    SnapRaised, ErrorsCurrent, Ahead, Threads

LEMMA ListStep ==
    ASSUME NoFlush, ListInv, TypeInv, [Next]_vars
    PROVE  ListInv'
<1>1. CASE UNCHANGED vars
  BY <1>1, ListFrame DEF vars, lists, device, threads, ListInv, NoStops, Ahead
<1>2. CASE HwStep
  BY <1>2, EngineList
<1>3. CASE IsrStep
  BY <1>3, InterruptList
<1>4. ASSUME NEW t \in Adders \cup Fetchers \cup Peekers \cup Controllers
      PROVE  t \in Threads /\ t # Isr
  BY RxAssumption DEF Threads
<1>5. ASSUME NEW t \in Adders, AddAlloc(t) \/ XlatFail(t) \/ AddStep(t)
      PROVE  ListInv'
  BY <1>4, <1>5, AppList, CaptureList DEF AddStep
<1>6. ASSUME NEW t \in Fetchers,
             FetchBegin(t) \/ XlatFail(t) \/ FetchStep(t) \/ FetchSignal(t)
      PROVE  ListInv'
  BY <1>4, <1>6, AppList, CaptureList DEF FetchStep
<1>7. ASSUME NEW t \in Peekers, PeekBegin(t) \/ PeekStep(t)
      PROVE  ListInv'
  BY <1>4, <1>7, PeekList
<1>8. ASSUME NEW t \in Controllers, Command(t) \/ ControlStep(t)
      PROVE  ListInv'
  BY <1>4, <1>8, ControlList
<1> QED BY <1>1, <1>2, <1>3, <1>5, <1>6, <1>7, <1>8 DEF Next

\* While only start, pause and resume are issued, a list that the driver takes
\* for free has no transfer in the engine, for any number of packets and of
\* threads, both plane modes, and all ways in which transfers end: the status
\* of an earlier transfer never frees a list that was posted again.
THEOREM FreeLists ==
    ASSUME NoFlush
    PROVE  Spec => []FreeListsIdle
<1>1. Init => TypeInv /\ ListInv
  BY TypeInit, ListInit
<1>2. TypeInv /\ ListInv /\ [Next]_vars => TypeInv' /\ ListInv'
  BY TypeStep, ListStep
<1>3. ListInv => FreeListsIdle
  BY DEF ListInv, ValidAwaited, FreeListsIdle
<1> QED BY <1>1, <1>2, <1>3, PTL DEF Spec

-----------------------------------------------------------------------------
(***************************************************************************)
(* Who changes the list status while nothing is flushed.                   *)
(***************************************************************************)
LEMMA StatusChanges ==
    ASSUME NoFlush, ListInv, [Next]_vars
    PROVE  \/ UNCHANGED <<sts, target>>
           \/ \E t \in Threads : Program(t)
           \/ \E i \in Lists : IsrList(i)
<1> USE DEF lists
<1>1. CASE HwStep \/ UNCHANGED vars
  BY <1>1 DEF HwStep, HwComplete, HwHalt, HwPib, vars, device
<1>2. ASSUME NEW t \in Threads, Capture(t), ~Program(t)
      PROVE  UNCHANGED <<sts, target>>
  BY <1>2 DEF Capture, CapFetch, CapNoData, PostBusy, PostBusyFree, device
<1>3. ASSUME NEW t \in Threads,
             \/ AddAlloc(t) \/ XlatFail(t) \/ AddFree(t)
             \/ FetchBegin(t) \/ FetchSignal(t) \/ FetchLook(t) \/ FetchWake(t)
             \/ FetchTimeout(t) \/ FetchTake(t) \/ FetchNull(t) \/ FetchDrop(t)
             \/ FetchKeep(t) \/ Deliver(t) \/ FmtAlloc(t) \/ FmtNoPkt(t)
             \/ FmtSet(t) \/ PeekBegin(t) \/ PeekStep(t)
      PROVE  UNCHANGED <<sts, target>>
  BY <1>3 DEF AddAlloc, XlatFail, AddFree, FetchBegin, FetchSignal, FetchLook,
              FetchWake, FetchTimeout, FetchTake, FetchNull, FetchDrop,
              FetchKeep, Deliver, FmtAlloc, FmtNoPkt, FmtSet, PeekBegin,
              PeekStep, PeekKeep, PeekDrop, PeekPut, device
<1>4. ASSUME NEW t \in Threads, Command(t) \/ ControlStep(t), ~Capture(t)
      PROVE  UNCHANGED <<sts, target>>
  <2>1. \/ StartCapture(t) \/ PauseCmd(t) \/ ResumeCmd(t)
        \/ PauseCheck(t) \/ Finalize(t)
    BY <1>4, NoFlushSteps
  <2> QED BY <2>1 DEF StartCapture, PauseCmd, ResumeCmd, PauseCheck, Finalize,
                      device
<1>5. ASSUME IsrStep, ~Capture(Isr), \A i \in Lists : ~IsrList(i)
      PROVE  UNCHANGED <<sts, target>>
  BY <1>5 DEF IsrStep, IsrEnter, IsrPib, IsrPibPut, IsrPibDone, IsrRx, IsrDone,
              IsrReady, IsrNoPkt, IsrTail, IsrAck, Finalize, device
<1> QED BY <1>1, <1>2, <1>3, <1>4, <1>5
        DEF Next, AddStep, FetchStep, ControlStep, Threads

-----------------------------------------------------------------------------
(***************************************************************************)
(* Lists in error.                                                         *)
(***************************************************************************)
\* An interrupt takes the waiting bits of a plane away and adds its error bit,
\* and frees the list when no waiting bit is left.
LEMMA FailedStep ==
    ASSUME NoFlush, ListInv, TypeInv, FailedListsWait, [Next]_vars
    PROVE  FailedListsWait'
<1>0. DriverTypeOK /\ Planes \subseteq Waiting /\ Waiting \cap Failed = {}
  BY RxAssumption DEF TypeInv, Waiting, Failed
<1>1. CASE UNCHANGED sts
  BY <1>1 DEF FailedListsWait
<1>2. ASSUME NEW t \in Threads, Program(t) PROVE FailedListsWait'
  <2>1. sts' = [sts EXCEPT ![postIndex] = Planes]
    BY <1>2 DEF Program
  <2>2. \A i \in Lists : sts'[i] = sts[i] \/ sts'[i] = Planes
    BY <1>0, <2>1 DEF DriverTypeOK
  <2> QED BY <1>0, <2>2 DEF FailedListsWait
<1>3. ASSUME NEW i \in Lists, IsrList(i) PROVE FailedListsWait'
  <2> DEFINE new == NewStatus(i)
             done == new # sts[i] /\ ListDone(new)
  <2>1. sts' = [sts EXCEPT ![i] = IF done THEN {} ELSE new]
    BY <1>3 DEF IsrList
  <2>2. done \/ new = sts[i] \/ new \cap Waiting # {}
    BY DEF ListDone
  <2> HIDE DEF new, done
  <2>3. \A j \in Lists :
           sts'[j] \in {sts[j], {}} \/ sts'[j] \cap Waiting # {}
    BY <1>0, <2>1, <2>2 DEF DriverTypeOK
  <2> QED BY <2>3 DEF FailedListsWait
<1>4. UNCHANGED sts \/ (\E t \in Threads : Program(t))
                    \/ (\E i \in Lists : IsrList(i))
  BY StatusChanges
<1> QED BY <1>1, <1>2, <1>3, <1>4

-----------------------------------------------------------------------------
(***************************************************************************)
(* The active queue.  For each list it holds the packet the engine was     *)
(* given last if the list is busy, and before it the packet of a transfer  *)
(* the handler has just found finished and is about to fetch by its tag.   *)
(***************************************************************************)
Queued(i) == {p \in Items(actq) : tag[p] = i}
OfEngine(i) == IF sts[i] # {} THEN {target[i]} ELSE {}
DoneAt(i, k) ==
    /\ IsFirstTagged(actq, tag, i, k)
    /\ actq[k] \notin OfEngine(i)
    /\ Queued(i) = OfEngine(i) \cup {actq[k]}
ActiveInv ==
    \A i \in Lists :
        IF Completing(i) THEN \E k \in 1..Len(actq) : DoneAt(i, k)
                         ELSE Queued(i) = OfEngine(i)

\* A step that changes none of this.
QueueKept ==
    /\ UNCHANGED <<actq, sts, target>>
    /\ \A p \in Items(actq) : tag'[p] = tag[p]
    /\ \A i \in Lists : Completing(i)' <=> Completing(i)

LEMMA QueueKeptStep ==
    ASSUME PacketsTypeOK, ActiveInv, QueueKept
    PROVE  ActiveInv'
<1>1. \A k \in 1..Len(actq) : actq[k] \in Items(actq)
  BY ItemAt DEF PacketsTypeOK
<1>2. ASSUME NEW i \in Lists
      PROVE  /\ Queued(i)' = Queued(i) /\ OfEngine(i)' = OfEngine(i)
             /\ Tagged(actq', tag', i) = Tagged(actq, tag, i)
  BY <1>1 DEF QueueKept, Queued, OfEngine, Tagged
<1>3. ASSUME NEW i \in Lists, NEW k \in 1..Len(actq), DoneAt(i, k)
      PROVE  DoneAt(i, k)'
  BY <1>2, <1>3 DEF DoneAt, IsFirstTagged, QueueKept
<1> QED BY <1>2, <1>3 DEF ActiveInv, QueueKept

LEMMA OthersComplete ==
    ASSUME HandsTypeOK, NEW t \in Threads, t # Isr, NEW l, Goto(t, l),
           UNCHANGED isr
    PROVE  \A i \in Lists : Completing(i)' <=> Completing(i)
  BY DEF HandsTypeOK, Goto, Completing, Threads

LEMMA IsrElsewhere ==
    ASSUME HandsTypeOK, NEW l, Goto(Isr, l),
           {l, pc[Isr]} \cap {"done_ok", "done_err"} = {}
    PROVE  \A i \in Lists : Completing(i)' <=> Completing(i)
  BY DEF HandsTypeOK, Goto, Completing, Threads

\* A packet of the pool, and one in a context's hands, is not queued.
LEMMA PoolNotQueued ==
    ASSUME OwnInv, NEW p \in pool, AllocPkt(p)
    PROVE  \A q \in Items(actq) : tag'[q] = tag[q]
<1>1. p \notin Items(actq)
  BY PlacesAre DEF OwnInv, PacketOwnership, Disjoint, Places, Spot
<1>2. Items(actq) \subseteq Pkt
  BY ItemTypes DEF OwnInv, TypeInv, PacketsTypeOK
<1> QED BY <1>1, <1>2 DEF AllocPkt, OwnInv, TypeInv, PacketsTypeOK

LEMMA QueueChanges ==
    ASSUME NoFlush, ListInv, OwnInv, [Next]_vars
    PROVE  \/ QueueKept
           \/ \E t \in Threads : Program(t)
           \/ \E i \in Lists : IsrList(i)
           \/ IsrDone \/ IsrNoPkt
<1> USE DEF lists, queues, threads, device
<1>0. HandsTypeOK /\ LocalsTypeOK
  BY DEF OwnInv, TypeInv, Hands
<1>1. CASE HwStep \/ UNCHANGED vars
  <2>1. UNCHANGED <<actq, sts, target, tag, pc, isr>>
    BY <1>1 DEF HwStep, HwComplete, HwHalt, HwPib, vars
  <2> QED BY <2>1 DEF QueueKept, Completing
<1>2. ASSUME NEW t \in Threads, Capture(t), ~Program(t) PROVE QueueKept
  <2>1. UNCHANGED <<actq, sts, target, tag, isr>>
    BY <1>2 DEF Capture, CapFetch, CapNoData, PostBusy, PostBusyFree
  <2>2. PICK l : /\ Goto(t, l) /\ l \notin {"done_ok", "done_err"}
                 /\ pc[t] \notin {"done_ok", "done_err"}
    BY <1>2 DEF Capture, CapFetch, CapNoData, PostBusy, PostBusyFree, Return,
                NextList, Posting
  <2> QED BY <1>0, <2>1, <2>2, OthersComplete, IsrElsewhere DEF QueueKept
<1>3. ASSUME NEW t \in Threads, t # Isr,
             AddAlloc(t) \/ XlatFail(t) \/ FmtAlloc(t)
      PROVE  QueueKept
  <2>1. UNCHANGED <<actq, sts, target, isr>>
    BY <1>3 DEF AddAlloc, XlatFail, FmtAlloc
  <2>2. PICK p \in pool : AllocPkt(p)
    BY <1>3 DEF AddAlloc, XlatFail, FmtAlloc
  <2>3. PICK l : Goto(t, l)
    BY <1>3 DEF AddAlloc, XlatFail, FmtAlloc
  <2> QED BY <1>0, <1>3, <2>1, <2>2, <2>3, PoolNotQueued, OthersComplete
          DEF QueueKept
<1>4. ASSUME NEW t \in Threads, t # Isr,
             \/ AddFree(t)
             \/ FetchBegin(t) \/ FetchSignal(t) \/ FetchLook(t) \/ FetchWake(t)
             \/ FetchTimeout(t) \/ FetchTake(t) \/ FetchNull(t) \/ FetchDrop(t)
             \/ FetchKeep(t) \/ Deliver(t) \/ FmtNoPkt(t)
             \/ FmtSet(t) \/ PeekBegin(t) \/ PeekStep(t)
      PROVE  QueueKept
  <2> USE <1>4 DEF AddFree, FetchBegin, FetchSignal, FetchLook, FetchWake,
              FetchTimeout, FetchTake, FetchNull, FetchDrop, FetchKeep,
              Deliver, FmtNoPkt, FmtSet, PeekBegin, PeekStep, PeekKeep,
              PeekDrop, PeekPut
  <2>1. UNCHANGED <<actq, sts, target, tag, isr>>
    OBVIOUS
  <2>2. PICK l : Goto(t, l)
    OBVIOUS
  <2> QED BY <1>0, <2>1, <2>2, OthersComplete DEF QueueKept
<1>5. ASSUME NEW t \in Threads, t # Isr, Command(t) \/ ControlStep(t),
             ~Capture(t)
      PROVE  QueueKept
  <2>1. \/ StartCapture(t) \/ PauseCmd(t) \/ ResumeCmd(t)
        \/ PauseCheck(t) \/ Finalize(t)
    BY <1>5, NoFlushSteps
  <2> USE <2>1 DEF StartCapture, PauseCmd, ResumeCmd, PauseCheck, Finalize
  <2>2. UNCHANGED <<actq, sts, target, tag, isr>>
    OBVIOUS
  <2>3. PICK l : Goto(t, l)
    OBVIOUS
  <2> QED BY <1>0, <1>5, <2>2, <2>3, OthersComplete DEF QueueKept
<1>6. ASSUME IsrStep, ~Capture(Isr), \A i \in Lists : ~IsrList(i),
             ~IsrDone, ~IsrNoPkt
      PROVE  QueueKept
  <2> USE <1>6 DEF IsrStep, IsrEnter, IsrPib, IsrPibPut, IsrPibDone, IsrRx,
              IsrReady, IsrTail, IsrAck, Finalize
  <2>1. UNCHANGED <<actq, sts, target, tag>>
    OBVIOUS
  <2>2. PICK l : /\ Goto(Isr, l) /\ l \notin {"done_ok", "done_err"}
                 /\ pc[Isr] \notin {"done_ok", "done_err"}
    BY DEF Return, NextList
  <2> QED BY <1>0, <2>1, <2>2, IsrElsewhere DEF QueueKept
<1>7. ASSUME NEW t \in Adders \cup Fetchers \cup Peekers \cup Controllers
      PROVE  t \in Threads /\ t # Isr
  BY RxAssumption DEF Threads
<1>8. Isr \in Threads
  BY DEF Threads
<1>9. CASE \E t \in Adders : AddAlloc(t) \/ XlatFail(t) \/ AddStep(t)
  BY <1>2, <1>3, <1>4, <1>7, <1>9 DEF AddStep
<1>10. CASE \E t \in Fetchers : FetchBegin(t) \/ XlatFail(t) \/ FetchStep(t)
                                \/ FetchSignal(t)
  BY <1>2, <1>3, <1>4, <1>7, <1>10 DEF FetchStep
<1>11. CASE \E t \in Peekers : PeekBegin(t) \/ PeekStep(t)
  BY <1>4, <1>7, <1>11
<1>12. CASE \E t \in Controllers : Command(t) \/ ControlStep(t)
  BY <1>2, <1>5, <1>7, <1>12
<1>13. CASE IsrStep
  BY <1>2, <1>6, <1>8, <1>13
<1> QED BY <1>1, <1>9, <1>10, <1>11, <1>12, <1>13 DEF Next


LEMMA ProgramActive ==
    ASSUME ListInv, OwnInv, ActiveInv, NEW t \in Threads, Program(t)
    PROVE  ActiveInv'
<1> DEFINE p == pkt[t]
           n == Len(actq)
<1>1. /\ postIndex \in Lists /\ sts[postIndex] = {} /\ p \in Pkt
      /\ actq \in Seq(Pkt) /\ n \in Nat
      /\ \A k \in 1..n : actq[k] \in Pkt /\ actq[k] \in Items(actq)
  BY ItemAt, ElementOfSeq
     DEF Program, Posting, HoldLabels, OwnInv, TypeInv, Hands, HoldersHold,
         DriverTypeOK, PacketsTypeOK
<1>2. p \notin Items(actq)
  BY <1>1, HeldNotQueued
<1>3. /\ tag' = [tag EXCEPT ![p] = postIndex] /\ sts' = [sts EXCEPT ![postIndex] = Planes]
      /\ target' = [target EXCEPT ![postIndex] = p] /\ actq' = Append(actq, p)
      /\ UNCHANGED isr
  BY DEF Program, PostTag, DioqAdd
<1>4. /\ \A q \in Pkt : tag'[q] = IF q = p THEN postIndex ELSE tag[q]
      /\ \A i \in Lists :
            OfEngine(i)' = IF i = postIndex THEN {p} ELSE OfEngine(i)
  <2>1. tag \in [Pkt -> Lists \cup {NoList}]
        /\ sts \in [Lists -> SUBSET (Waiting \cup Failed)]
        /\ target \in [Lists -> Pkt \cup {NoPkt}] /\ Planes # {}
    BY RxAssumption DEF OwnInv, TypeInv, PacketsTypeOK, DriverTypeOK, DeviceTypeOK
  <2> QED BY <1>1, <1>3, <2>1 DEF OfEngine
<1>5. Items(actq') = Items(actq) \cup {p} /\ Items(actq) \subseteq Pkt
  BY <1>1, <1>3, AddItem, ItemTypes DEF DioqAdd
<1>6. \A i \in Lists :
         Queued(i)' = IF i = postIndex THEN Queued(i) \cup {p} ELSE Queued(i)
  <2> SUFFICES ASSUME NEW i \in Lists, NEW x
               PROVE  x \in Queued(i)' <=>
                         x \in Queued(i) \/ (i = postIndex /\ x = p)
    BY Zenon
  <2>1. x \in Items(actq) => x \in Pkt /\ x # p
    BY <1>2, <1>5
  <2> HIDE DEF p
  <2>2. x \in Queued(i)' <=> x \in Items(actq) \cup {p} /\ tag'[x] = i
    BY <1>5 DEF Queued
  <2> QED BY <1>1, <1>4, <2>1, <2>2 DEF Queued
<1>7. /\ Len(actq') = n + 1 /\ actq'[n + 1] = p
      /\ \A k \in 1..n : actq'[k] = actq[k]
  BY <1>1, <1>3, AppendProperties
<1>8. \A i \in Lists : Completing(i)' <=> Completing(i)
  <2>1. HandsTypeOK
    BY DEF OwnInv, TypeInv, Hands
  <2>2. PICK l : /\ Goto(t, l) /\ l \notin {"done_ok", "done_err"}
                 /\ pc[t] \notin {"done_ok", "done_err"}
    BY DEF Program, Return, NextList, Posting
  <2> QED BY <1>3, <2>1, <2>2, OthersComplete, IsrElsewhere
<1>9. ASSUME NEW i \in Lists, NEW k \in 1..n, DoneAt(i, k)
      PROVE  k \in 1..Len(actq') /\ DoneAt(i, k)'
  <2>1. /\ actq'[k] = actq[k] /\ actq[k] # p /\ actq[k] \in Pkt
        /\ k \in 1..Len(actq') /\ k <= n /\ k \in Nat
    BY <1>1, <1>2, <1>7
  <2>2. tag[actq[k]] = i /\ \A j \in 1..n : tag[actq[j]] = i => k <= j
    BY <1>9 DEF DoneAt, IsFirstTagged, Tagged
  <2>3. \A j \in 1..Len(actq') : tag'[actq'[j]] = i => k <= j
    <3> SUFFICES ASSUME NEW j \in 1..Len(actq'), tag'[actq'[j]] = i, j \in 1..n
                 PROVE  k <= j
      BY <1>1, <1>7, <2>1
    <3>1. actq'[j] = actq[j] /\ actq[j] # p /\ actq[j] \in Pkt
      BY <1>1, <1>2, <1>7
    <3> QED BY <1>4, <2>2, <3>1
  <2>4. IsFirstTagged(actq', tag', i, k)
    BY <1>4, <2>1, <2>2, <2>3 DEF IsFirstTagged, Tagged
  <2>5. actq'[k] \notin OfEngine(i)'
    BY <1>4, <1>9, <2>1 DEF DoneAt
  <2>6. Queued(i)' = OfEngine(i)' \cup {actq'[k]}
    <3>1. Queued(i) = OfEngine(i) \cup {actq[k]}
      BY <1>9 DEF DoneAt
    <3>2. i = postIndex => OfEngine(i) = {}
      BY <1>1 DEF OfEngine
    <3> QED BY <1>4, <1>6, <2>1, <3>1, <3>2
  <2> QED BY <2>1, <2>4, <2>5, <2>6 DEF DoneAt
<1>10. ASSUME NEW i \in Lists
       PROVE  IF Completing(i)' THEN \E k \in 1..Len(actq') : DoneAt(i, k)'
                                ELSE Queued(i)' = OfEngine(i)'
  <2>1. CASE Completing(i)'
    <3>1. PICK k \in 1..n : DoneAt(i, k)
      BY <1>8, <2>1 DEF ActiveInv
    <3> QED BY <1>9, <2>1, <3>1
  <2>2. CASE ~Completing(i)'
    <3>1. Queued(i) = OfEngine(i)
      BY <1>8, <2>2 DEF ActiveInv
    <3>2. i = postIndex => OfEngine(i) = {}
      BY <1>1 DEF OfEngine
    <3> QED BY <1>4, <1>6, <2>2, <3>1, <3>2
  <2> QED BY <2>1, <2>2
<1> QED BY <1>10 DEF ActiveInv

\* A list the handler frees was busy, and its packet is queued: that packet is
\* the one to be fetched.
LEMMA HandlerActive ==
    ASSUME ListInv, OwnInv, ActiveInv, NEW i \in Lists, IsrList(i)
    PROVE  ActiveInv'
<1> DEFINE new == NewStatus(i)
           done == new # sts[i] /\ ListDone(new)
<1>0. /\ HandsTypeOK /\ LocalsTypeOK /\ Isr \in Threads
      /\ sts \in [Lists -> SUBSET (Waiting \cup Failed)] /\ actq \in Seq(Pkt)
  BY DEF OwnInv, TypeInv, Hands, DriverTypeOK, PacketsTypeOK, Threads
<1>1. /\ UNCHANGED <<actq, tag, target>> /\ isr'.list = i
      /\ sts' = [sts EXCEPT ![i] = IF done THEN {} ELSE new]
  BY <1>0 DEF IsrList, queues, LocalsTypeOK
<1>2. pc'[Isr] \in {"done_ok", "done_err"} <=> done
  <2>1. pc'[Isr] = CASE done /\ new = {} -> "done_ok"
                     [] done /\ new # {} -> "done_err"
                     [] ~done -> IF i = 0 THEN "list1" ELSE "tail"
    BY <1>0 DEF IsrList, HandsTypeOK
  <2> HIDE DEF new, done
  <2>2. CASE done /\ new = {}
    BY <2>1, <2>2
  <2>3. CASE done /\ new # {}
    BY <2>1, <2>3
  <2>4. CASE ~done
    BY <2>1, <2>4
  <2> QED BY <2>2, <2>3, <2>4
<1>3. \A j \in Lists : ~Completing(j) /\ (Completing(j)' <=> j = i /\ done)
  <2> HIDE DEF done
  <2>1. pc[Isr] \notin {"done_ok", "done_err"}
    BY DEF IsrList
  <2> QED BY <1>1, <1>2, <2>1 DEF Completing
<1>4. sts[i] = {} => new = {} /\ ~done
  <2> SUFFICES ASSUME sts[i] = {} PROVE new = sts[i]
    OBVIOUS
  <2>1. Ahead(i)
    BY DEF IsrList, Ahead, Lists
  <2>2. \A q \in Planes : isr.err[i][q] = {}
    BY <2>1 DEF ListInv, ErrorsAwaited, ErrorsCurrent
  <2> QED BY <2>2 DEF NewStatus, Seen
<1>5. ~done /\ sts[i] # {} => new # {}
  BY DEF ListDone, Waiting
<1> HIDE DEF new, done
<1>6. /\ \A j \in Lists : j # i => sts'[j] = sts[j]
      /\ sts'[i] = IF done THEN {} ELSE new
  BY <1>0, <1>1
<1>7. /\ \A j \in Lists : j # i => OfEngine(j)' = OfEngine(j)
      /\ OfEngine(i)' = IF done THEN {} ELSE OfEngine(i)
  BY <1>1, <1>4, <1>5, <1>6 DEF OfEngine
<1>8. \A j \in Lists : Queued(j)' = Queued(j) /\ Queued(j) = OfEngine(j)
  BY <1>1, <1>3 DEF Queued, ActiveInv
<1>9. ASSUME done PROVE \E k \in 1..Len(actq) : DoneAt(i, k)'
  <2>1. Queued(i) = {target[i]}
    BY <1>4, <1>8, <1>9 DEF OfEngine
  <2>2. target[i] \in Items(actq)
    BY <2>1 DEF Queued
  <2>3. PICK k \in 1..Len(actq) : actq[k] = target[i]
    BY <1>0, <2>2, ItemAt
  <2>4. \A j \in 1..Len(actq) : tag[actq[j]] = i => actq[j] = target[i]
    BY <1>0, <2>1, ItemAt DEF Queued
  <2>5. \A j \in 1..Len(actq) : tag[actq[j]] = i => j = k
    BY <2>3, <2>4 DEF OwnInv, PacketOwnership, NoRepeats
  <2>6. tag[actq[k]] = i
    BY <2>1, <2>3 DEF Queued
  <2>7. IsFirstTagged(actq, tag, i, k)
    BY <1>0, <2>3, <2>5, <2>6, LenProperties DEF IsFirstTagged, Tagged
  <2> QED BY <1>1, <1>7, <1>8, <1>9, <2>1, <2>3, <2>7 DEF DoneAt
<1> QED BY <1>1, <1>3, <1>7, <1>8, <1>9 DEF ActiveInv

\* The packet fetched by tag is that of the finished transfer.
LEMMA FetchActive ==
    ASSUME OwnInv, ActiveInv, IsrDone
    PROVE  ActiveInv'
<1>1. /\ actq \in Seq(Pkt) /\ NoRepeats(actq) /\ HandsTypeOK
      /\ isr.list \in Lists /\ Len(actq) \in Nat /\ Isr \in Threads
  BY LenProperties
     DEF OwnInv, PacketOwnership, TypeInv, PacketsTypeOK, Hands, LocalsTypeOK,
         Threads
<1>2. PICK k \in 1..Len(actq) : /\ IsFirstTagged(actq, tag, isr.list, k)
                                /\ actq' = RemoveAt(actq, k)
  BY DEF IsrDone
<1>3. Completing(isr.list) /\ \A i \in Lists : i # isr.list => ~Completing(i)
  BY DEF IsrDone, Completing
<1>4. PICK j \in 1..Len(actq) : DoneAt(isr.list, j)
  BY <1>1, <1>3 DEF ActiveInv
<1>5. j = k
  BY <1>1, <1>2, <1>4 DEF DoneAt, IsFirstTagged, Tagged
<1>6. /\ UNCHANGED <<tag, sts, target, isr>>
      /\ \E l \in {"ready", "err_post"} : Goto(Isr, l)
  BY DEF IsrDone, lists, device
<1>7. \A i \in Lists : ~Completing(i)'
  BY <1>1, <1>6 DEF Goto, HandsTypeOK, Completing
<1>8. Items(actq') = Items(actq) \ {actq[k]}
  BY <1>1, <1>2, RemoveItem
<1>9. /\ \A i \in Lists : OfEngine(i)' = OfEngine(i)
      /\ \A i \in Lists : Queued(i)' = Queued(i) \ {actq[k]}
  BY <1>6, <1>8 DEF OfEngine, Queued
<1>10. tag[actq[k]] = isr.list
  BY <1>2 DEF IsFirstTagged, Tagged
<1>11. ASSUME NEW i \in Lists PROVE Queued(i)' = OfEngine(i)'
  <2>1. CASE i = isr.list
    <3>1. /\ Queued(i) = OfEngine(i) \cup {actq[k]}
          /\ actq[k] \notin OfEngine(i)
      BY <1>4, <1>5, <2>1 DEF DoneAt
    <3> QED BY <1>9, <3>1
  <2>2. CASE i # isr.list
    <3>1. Queued(i) = OfEngine(i)
      BY <1>3, <2>2 DEF ActiveInv
    <3>2. actq[k] \notin Queued(i)
      BY <1>10, <2>2 DEF Queued
    <3> QED BY <1>9, <3>1, <3>2
  <2> QED BY <2>1, <2>2
<1> QED BY <1>7, <1>11 DEF ActiveInv

LEMMA ActiveStep ==
    ASSUME NoFlush, ListInv, OwnInv, ActiveInv, [Next]_vars
    PROVE  ActiveInv'
<1>1. CASE QueueKept
  BY <1>1, QueueKeptStep DEF OwnInv, TypeInv
<1>2. CASE IsrNoPkt
  <2>1. /\ Tagged(actq, tag, isr.list) = {} /\ Completing(isr.list)
        /\ isr.list \in Lists
    BY <1>2 DEF IsrNoPkt, Completing, OwnInv, TypeInv, LocalsTypeOK
  <2>2. PICK k \in 1..Len(actq) : DoneAt(isr.list, k)
    BY <2>1 DEF ActiveInv
  <2> QED BY <2>1, <2>2 DEF DoneAt, IsFirstTagged
<1> QED BY <1>1, <1>2, QueueChanges, ProgramActive, HandlerActive, FetchActive

\* How many packets carry the tag of a list.
LEMMA CountTagged ==
    ASSUME OwnInv, ActiveInv, NEW i \in Lists
    PROVE  Cardinality(Tagged(actq, tag, i)) =
              (IF sts[i] # {} THEN 1 ELSE 0) + (IF Completing(i) THEN 1 ELSE 0)
<1> DEFINE T == Tagged(actq, tag, i)
           Count == (IF sts[i] # {} THEN 1 ELSE 0)
                       + (IF Completing(i) THEN 1 ELSE 0)
<1>1. /\ actq \in Seq(Pkt)
      /\ \A j, k \in 1..Len(actq) : actq[j] = actq[k] => j = k
  BY DEF OwnInv, PacketOwnership, NoRepeats, TypeInv, PacketsTypeOK
<1>2. \A j \in 1..Len(actq) : j \in T <=> actq[j] \in Queued(i)
  BY <1>1, ItemAt DEF Queued, Tagged
<1>3. T \subseteq 1..Len(actq)
  BY DEF Tagged
<1>4. \A x \in Queued(i) : \E j \in T : actq[j] = x
  BY <1>1, <1>2, ItemAt DEF Queued
<1> HIDE DEF T
<1> SUFFICES Cardinality(T) = Count
  BY Zenon DEF T
<1>5. CASE Queued(i) = {}
  <2>1. T = {}
    BY <1>2, <1>3, <1>5
  <2>2. sts[i] = {} /\ ~Completing(i)
    BY <1>5 DEF ActiveInv, OfEngine, DoneAt
  <2> QED BY <2>1, <2>2, FS_EmptySet
<1>6. ASSUME NEW x, Queued(i) = {x} PROVE Cardinality(T) = 1
  <2>1. PICK j \in T : actq[j] = x
    BY <1>4, <1>6
  <2>2. T = {j}
    BY <1>1, <1>2, <1>3, <1>6, <2>1
  <2> QED BY <2>2, FS_Singleton
<1>7. ASSUME NEW x, NEW y, x # y, Queued(i) = {x, y} PROVE Cardinality(T) = 2
  <2>1. PICK j \in T : actq[j] = x
    BY <1>4, <1>7
  <2>2. PICK k \in T : actq[k] = y
    BY <1>4, <1>7
  <2>3. T = {j} \cup {k} /\ j # k
    <3>1. j \in 1..Len(actq) /\ k \in 1..Len(actq) /\ j # k
      BY <1>3, <1>7, <2>1, <2>2
    <3>2. ASSUME NEW l \in T PROVE l = j \/ l = k
      <4>1. l \in 1..Len(actq) /\ (actq[l] = x \/ actq[l] = y)
        BY <1>2, <1>3, <1>7
      <4> QED BY <1>1, <2>1, <2>2, <3>1, <4>1
    <3> QED BY <3>1, <3>2
  <2>4. IsFiniteSet({j}) /\ Cardinality({j}) = 1
    BY FS_Singleton
  <2>5. Cardinality({j} \cup {k}) = 1 + 1
    BY <2>3, <2>4, FS_AddElement
  <2> QED BY <2>3, <2>5
<1>8. CASE Completing(i)
  <2>1. PICK k \in 1..Len(actq) : DoneAt(i, k)
    BY <1>8 DEF ActiveInv
  <2>2. CASE sts[i] = {}
    <3>1. Queued(i) = {actq[k]}
      BY <2>1, <2>2 DEF DoneAt, OfEngine
    <3>2. Cardinality(T) = 1
      BY <1>6, <3>1
    <3> QED BY <1>8, <2>2, <3>2
  <2>3. CASE sts[i] # {}
    <3>1. Queued(i) = {target[i], actq[k]} /\ target[i] # actq[k]
      BY <2>1, <2>3 DEF DoneAt, OfEngine
    <3>2. Cardinality(T) = 2
      BY <1>7, <3>1
    <3> QED BY <1>8, <2>3, <3>2
  <2> QED BY <2>2, <2>3
<1>9. CASE ~Completing(i) /\ Queued(i) # {}
  <2>1. sts[i] # {} /\ Queued(i) = {target[i]}
    BY <1>9 DEF ActiveInv, OfEngine
  <2> QED BY <1>6, <1>9, <2>1
<1> QED BY <1>5, <1>8, <1>9

-----------------------------------------------------------------------------
(***************************************************************************)
(* The theorems about lists in error and about the active queue.           *)
(***************************************************************************)
\* While only start, pause and resume are issued, a list with a failed plane
\* still waits for another, so that an interrupt is to come that takes it out of
\* the error state: an error never leaves a list stuck, whatever the order in
\* which the planes end and the status is read (crystalhd_link_rx_isr).
THEOREM FailedLists ==
    ASSUME NoFlush
    PROVE  Spec => []FailedListsWait
<1>1. Init => TypeInv /\ ListInv /\ FailedListsWait
  BY TypeInit, ListInit DEF Init, FailedListsWait
<1>2. TypeInv /\ ListInv /\ FailedListsWait /\ [Next]_vars
        => TypeInv' /\ ListInv' /\ FailedListsWait'
  BY TypeStep, ListStep, FailedStep
<1> QED BY <1>1, <1>2, PTL DEF Spec

LEMMA ActiveInductive ==
    ASSUME NoFlush
    PROVE  Spec => [](OwnInv /\ ListInv /\ ActiveInv)
<1>1. Init => OwnInv /\ ListInv /\ ActiveInv
  <2> SUFFICES ASSUME Init PROVE ActiveInv
    BY TypeInit, OwnInit, ListInit DEF OwnInv
  <2>1. /\ Items(actq) = {} /\ sts = [i \in Lists |-> {}]
        /\ pc[Isr] = "idle"
    BY DEF Init, Items, ToSet, Threads
  <2> QED BY <2>1 DEF ActiveInv, Completing, Queued, OfEngine
<1>2. OwnInv /\ ListInv /\ ActiveInv /\ [Next]_vars
        => OwnInv' /\ ListInv' /\ ActiveInv'
  BY TypeStep, OwnStep, ListStep, ActiveStep DEF OwnInv
<1> QED BY <1>1, <1>2, PTL DEF Spec

\* While only start, pause and resume are issued, the active queue holds one
\* packet for each busy list and one for a list that was just found finished:
\* the handler always finds the packet whose tag it looks for, although the
\* list may be posted to again before it does.
THEOREM ActiveQueue ==
    ASSUME NoFlush
    PROVE  Spec => []ActiveMatchesLists
<1>1. OwnInv /\ ListInv /\ ActiveInv => ActiveMatchesLists
  BY CountTagged DEF ActiveMatchesLists
<1> QED BY <1>1, ActiveInductive, PTL

\* While only start, pause and resume are issued, the engine writes to buffers
\* of packets in the active queue only: never to one that was handed to the
\* application, put into the free queue or posted again.
THEOREM EngineWrites ==
    ASSUME NoFlush
    PROVE  Spec => []EngineWritesActive
<1>1. OwnInv /\ ListInv /\ ActiveInv => EngineWritesActive
  <2> SUFFICES ASSUME OwnInv, ListInv, ActiveInv, NEW i \in Lists, valid[i] # {}
               PROVE  target[i] \in Items(actq)
    BY DEF EngineWritesActive
  <2>1. sts[i] # {}
    BY DEF ListInv, ValidAwaited
  <2>2. target[i] \in Queued(i)
    BY <2>1 DEF ActiveInv, DoneAt, OfEngine
  <2> QED BY <2>2 DEF Queued
<1> QED BY <1>1, ActiveInductive, PTL
=============================================================================
