-------------------------- MODULE CrystalhdTxProofs --------------------------
(***************************************************************************)
(* The transmit path of CrystalhdTx, for any number of packets, requests   *)
(* and writers, any size of the input buffer, and all failures.            *)
(***************************************************************************)
EXTENDS CrystalhdTx, DioQueueProofs, FiniteSetTheorems

-----------------------------------------------------------------------------
(***************************************************************************)
(* Types.                                                                  *)
(***************************************************************************)
\* A context holds a packet exactly at these places.
HoldLabels == {"post", "cancel_put", "call", "put"}
HoldersHold ==
    \A t \in Contexts :
        IF pc[t] \in HoldLabels THEN pkt[t] \in Pkt ELSE pkt[t] = NoPkt

\* A writer has a request from the time its pages are mapped.
WritersMapped == \A w \in Writers : (pc[w] = "idle") <=> (dio[w] = NoDio)

\* The engine has a request for each list it is to read, which is there once.
ValidTargeted == NoRepeats(valid) /\ \A i \in Items(valid) : target[i] \in Dio

QueuesOK ==
    /\ freeq \in Seq(Pkt) /\ actq \in Seq(Pkt)
    /\ tag \in [Pkt -> Lists \cup {NoTag}]
    /\ dioReq \in [Pkt -> Dio \cup {NoDio}]
    /\ cbEvent \in [Pkt -> Writers \cup {NoWriter}]
DriverOK ==
    /\ postIndex \in Lists /\ lock \in Writers \cup {NoWriter}
    /\ cinExit \in BOOLEAN
MappingOK == dios \subseteq Dio /\ evSts \in [Dio -> {"none", "ok", "error"}]
PlacesOK ==
    /\ pc \in [Contexts -> Labels] /\ pkt \in [Contexts -> Pkt \cup {NoPkt}]
    /\ HoldersHold
LocalsOK ==
    /\ dio \in [Writers -> Dio \cup {NoDio}] /\ list \in [Writers -> Lists]
HandlerOK ==
    /\ todo \in Seq(Lists) /\ isrSts \in {"ok", "error"}
    /\ snap \subseteq {"done", "error"} \X Lists
EngineOK ==
    /\ run \in BOOLEAN
    /\ valid \in Seq(Lists) /\ target \in [Lists -> Dio \cup {NoDio}]
    /\ ValidTargeted
StatusOK ==
    /\ intr \subseteq {"done", "error"} \X Lists /\ errsts \subseteq Lists
    /\ intrOn \in BOOLEAN
HistoryOK == taken \subseteq Dio /\ disturbed \in BOOLEAN
LevelOK == level \in 0..FifoSize

\* TypeOK and what it needs, by groups of variables.
TypeInv ==
    /\ QueuesOK /\ DriverOK /\ MappingOK /\ PlacesOK /\ LocalsOK /\ HandlerOK
    /\ EngineOK /\ StatusOK /\ LevelOK /\ HistoryOK /\ WritersMapped

LEMMA TypeInvTypes == TypeInv => TypeOK
  BY DEF TypeInv, TypeOK, QueuesOK, DriverOK, MappingOK, PlacesOK, LocalsOK,
         HandlerOK, EngineOK, StatusOK, LevelOK, HistoryOK

LEMMA Frame ==
    /\ QueuesOK /\ UNCHANGED queues => QueuesOK'
    /\ DriverOK /\ UNCHANGED driver => DriverOK'
    /\ MappingOK /\ UNCHANGED mapping => MappingOK'
    /\ PlacesOK /\ UNCHANGED <<pc, pkt>> => PlacesOK'
    /\ LocalsOK /\ UNCHANGED locals => LocalsOK'
    /\ HandlerOK /\ UNCHANGED handler => HandlerOK'
    /\ EngineOK /\ UNCHANGED engine => EngineOK'
    /\ StatusOK /\ UNCHANGED status => StatusOK'
    /\ LevelOK /\ UNCHANGED level => LevelOK'
    /\ HistoryOK /\ UNCHANGED history => HistoryOK'
    /\ WritersMapped /\ UNCHANGED <<pc, dio>> => WritersMapped'
<1>1. QueuesOK /\ UNCHANGED queues => QueuesOK'
  BY DEF QueuesOK, queues
<1>2. DriverOK /\ UNCHANGED driver => DriverOK'
  BY DEF DriverOK, driver
<1>3. MappingOK /\ UNCHANGED mapping => MappingOK'
  BY DEF MappingOK, mapping
<1>4. PlacesOK /\ UNCHANGED <<pc, pkt>> => PlacesOK'
  BY DEF PlacesOK, HoldersHold
<1>5. LocalsOK /\ UNCHANGED locals => LocalsOK'
  BY DEF LocalsOK, locals
<1>6. HandlerOK /\ UNCHANGED handler => HandlerOK'
  BY DEF HandlerOK, handler
<1>7. EngineOK /\ UNCHANGED engine => EngineOK'
  BY DEF EngineOK, engine, ValidTargeted, NoRepeats
<1>8. StatusOK /\ UNCHANGED status => StatusOK'
  BY DEF StatusOK, status
<1>9. LevelOK /\ UNCHANGED level => LevelOK'
  BY DEF LevelOK
<1>10. HistoryOK /\ UNCHANGED history => HistoryOK'
  BY DEF HistoryOK, history
<1>11. WritersMapped /\ UNCHANGED <<pc, dio>> => WritersMapped'
  BY DEF WritersMapped
<1> QED BY <1>1, <1>2, <1>3, <1>4, <1>5, <1>6, <1>7, <1>8, <1>9, <1>10, <1>11

\* A context goes on with what it has in its hands.
LEMMA GoOn ==
    ASSUME PlacesOK, NEW t \in Contexts, NEW l \in Labels, Goto(t, l),
           UNCHANGED pkt, (l \in HoldLabels) <=> (pc[t] \in HoldLabels)
    PROVE  PlacesOK'
  BY DEF PlacesOK, HoldersHold, Goto

\* A context takes a packet or puts its packet down.
LEMMA GoHolding ==
    ASSUME PlacesOK, NEW t \in Contexts, NEW l \in Labels, Goto(t, l),
           NEW p \in Pkt \cup {NoPkt}, Hold(t, p),
           IF l \in HoldLabels THEN p \in Pkt ELSE p = NoPkt
    PROVE  PlacesOK'
  BY DEF PlacesOK, HoldersHold, Goto, Hold

\* A step between two places at which a request is held.
LEMMA StaysMapped ==
    ASSUME PlacesOK, WritersMapped, NEW t \in Contexts, NEW l, Goto(t, l),
           UNCHANGED dio, t = Isr \/ (pc[t] # "idle" /\ l # "idle")
    PROVE  WritersMapped'
<1>1. Isr \notin Writers
  BY TxAssumption
<1> QED BY <1>1 DEF PlacesOK, WritersMapped, Goto

\* A queue of packets that holds each packet once and all of them.
LEMMA AllQueued ==
    ASSUME NEW q \in [1..Cardinality(Pkt) -> Pkt], NoRepeats(q)
    PROVE  q \in Seq(Pkt) /\ Items(q) = Pkt
<1> DEFINE n == Cardinality(Pkt)
<1>1. n \in Nat
  BY TxAssumption, FS_CardinalityType
<1>2. q \in Seq(Pkt) /\ Len(q) = n
  BY <1>1, SeqDef, LenProperties
<1>3. q \in Injection(1..n, Pkt)
  BY <1>2 DEF NoRepeats, Injection, IsInjective
<1>4. IsFiniteSet(1..n) /\ Cardinality(1..n) = n
  BY <1>1, FS_Interval
<1>5. q \in Surjection(1..n, Pkt)
  BY <1>3, <1>4, FS_Injection, TxAssumption
<1>6. Items(q) = Pkt
  <2>1. \A p \in Pkt : \E i \in 1..n : q[i] = p
    BY <1>5 DEF Surjection
  <2>2. \A i \in 1..n : q[i] \in Pkt
    OBVIOUS
  <2> HIDE DEF n
  <2>3. \A p : p \in Items(q) <=> \E i \in 1..n : q[i] = p
    BY <1>2, ItemAt
  <2> QED BY <2>1, <2>2, <2>3
<1> QED BY <1>2, <1>6

LEMMA TypeInit ==
    ASSUME Init PROVE TypeInv
<1> USE TxAssumption DEF Init
<1>1. QueuesOK
  BY AllQueued, EmptySeq DEF QueuesOK, NoTag
<1>2. DriverOK
  BY DEF DriverOK, Lists
<1>3. MappingOK
  BY DEF MappingOK
<1>4. PlacesOK
  BY DEF PlacesOK, HoldersHold, HoldLabels, Labels
<1>5. LocalsOK
  BY DEF LocalsOK, Lists
<1>6. HandlerOK
  BY EmptySeq DEF HandlerOK
<1>7. EngineOK
  <2>1. Items(<< >>) = {} /\ NoRepeats(<< >>)
    BY DEF Items, ToSet, NoRepeats
  <2> QED BY <2>1, EmptySeq DEF EngineOK, ValidTargeted
<1>8. StatusOK
  BY DEF StatusOK
<1>9. LevelOK
  BY DEF LevelOK
<1>10. HistoryOK
  BY DEF HistoryOK
<1>11. WritersMapped
  BY DEF WritersMapped, Contexts
<1> QED BY <1>1, <1>2, <1>3, <1>4, <1>5, <1>6, <1>7, <1>8, <1>9, <1>10, <1>11
        DEF TypeInv

\* A list goes to the end of the engine's order.
LEMMA ArmList ==
    ASSUME NoRepeats(valid), valid \in Seq(Lists), NEW i \in Lists
    PROVE  /\ MakeValid(i) \in Seq(Lists) /\ NoRepeats(MakeValid(i))
           /\ Items(MakeValid(i)) = Items(valid) \cup {i}
           /\ i \notin Items(valid) => MakeValid(i) = Append(valid, i)
<1>1. CASE Armed(i) = {}
  <2>1. i \notin Items(valid)
    BY <1>1, ItemAt DEF Armed
  <2> QED BY <1>1, <2>1, AddItem DEF MakeValid, DioqAdd
<1>2. CASE Armed(i) # {}
  <2> DEFINE k == CHOOSE k \in Armed(i) : TRUE
             rest == RemoveAt(valid, k)
  <2>1. k \in 1..Len(valid) /\ valid[k] = i
    BY <1>2 DEF Armed
  <2>2. i \in Items(valid)
    BY <2>1, ItemAt
  <2> HIDE DEF k
  <2>3. /\ rest \in Seq(Lists) /\ NoRepeats(rest)
        /\ Items(rest) = Items(valid) \ {i}
    BY <2>1, RemoveItem
  <2>4. MakeValid(i) = DioqAdd(rest, i)
    BY <1>2 DEF MakeValid, DioqAdd, k
  <2> HIDE DEF rest
  <2> QED BY <2>2, <2>3, <2>4, AddItem
<1> QED BY <1>1, <1>2

LEMMA TupleItems ==
    /\ Items(<< >>) = {}
    /\ \A a : Items(<<a>>) = {a}
    /\ \A a, b : Items(<<a, b>>) = {a, b}
<1>1. Items(<< >>) = {}
  BY DEF Items, ToSet
<1>2. ASSUME NEW a PROVE Items(<<a>>) = {a}
  <2>1. DOMAIN <<a>> = {1}
    OBVIOUS
  <2> QED BY <2>1 DEF Items, ToSet
<1>3. ASSUME NEW a, NEW b PROVE Items(<<a, b>>) = {a, b}
  <2>1. DOMAIN <<a, b>> = {1, 2}
    OBVIOUS
  <2> QED BY <2>1 DEF Items, ToSet
<1> QED BY <1>1, <1>2, <1>3

LEMMA InLists ==
    ASSUME NEW S, S \subseteq Lists
    PROVE  In(S) \in Seq(Lists) /\ Items(In(S)) = S
<1>1. S = {0, 1} \/ S = {0} \/ S = {1} \/ S = {}
  BY DEF Lists
<1>2. /\ <<0, 1>> \in Seq(Lists) /\ <<0>> \in Seq(Lists) /\ <<1>> \in Seq(Lists)
      /\ {0} # {0, 1} /\ {1} # {0, 1} /\ {0} # {1}
  <2>1. 0 \in Lists /\ 1 \in Lists
    BY DEF Lists
  <2>2. <<0, 1>> \in Seq(Lists) /\ <<0>> \in Seq(Lists) /\ <<1>> \in Seq(Lists)
    BY <2>1
  <2>3. 1 \in {0, 1} /\ 1 \notin {0} /\ 0 \in {0, 1} /\ 0 \notin {1} /\ 0 \in {0}
    OBVIOUS
  <2> QED BY <2>2, <2>3, Zenon
<1>3. CASE S = {0, 1}
  <2>1. In(S) = <<0, 1>>
    BY <1>3 DEF In, Lists
  <2> QED BY <1>2, <1>3, <2>1, TupleItems
<1>4. CASE S = {0}
  <2>1. In(S) = <<0>>
    BY <1>2, <1>4 DEF In, Lists
  <2> QED BY <1>2, <1>4, <2>1, TupleItems
<1>5. CASE S = {1}
  <2>1. In(S) = <<1>>
    BY <1>2, <1>5 DEF In, Lists
  <2> QED BY <1>2, <1>5, <2>1, TupleItems
<1>6. CASE S = {}
  <2>1. In(S) = << >>
    BY <1>6 DEF In, Lists
  <2> QED BY <1>6, <2>1, EmptySeq, TupleItems
<1> QED BY <1>1, <1>3, <1>4, <1>5, <1>6

\* Steps of a writer that move no packet and no request.
LEMMA WalkTypes ==
    ASSUME TypeInv, NEW w \in Writers,
           \/ Check(w) \/ CodeinCancelled(w) \/ CodeinSlept(w) \/ FetchNone(w)
           \/ Posted(w) \/ WaitStep(w) \/ WaitSignal(w) \/ Stop(w)
           \/ StopDone(w) \/ StopFail(w) \/ CancelNone(w)
    PROVE  TypeInv'
<1> USE DEF Check, CodeinCancelled, CodeinSlept, FetchNone, Posted, WaitStep,
            WaitDone, WaitTimeout, WaitSignal, Stop, StopIdle, StopBegin,
            StopDone, StopFail, CancelNone
<1>1. w \in Contexts /\ w # Isr
  BY TxAssumption DEF Contexts
<1>2. UNCHANGED <<queues, mapping, pkt, locals, handler, level>>
  BY DEF device
<1>3. /\ pc[w] \in {"check", "busy", "fetch", "posted", "wait", "stop",
                     "stopping", "cancel"}
      /\ \E l \in {"fetch", "busy", "unmap", "check", "wait", "success",
                    "stop", "cancel", "stopping"} : Goto(w, l)
  OBVIOUS
<1>4. PICK l \in {"fetch", "busy", "unmap", "check", "wait", "success",
                  "stop", "cancel", "stopping"} : Goto(w, l)
  BY <1>3
<1>5. PlacesOK'
  <2>1. l \in Labels /\ l \notin HoldLabels /\ pc[w] \notin HoldLabels
    BY <1>3, <1>4 DEF Labels, HoldLabels
  <2> QED BY <1>1, <1>2, <1>4, <2>1, GoOn DEF TypeInv
<1>6. WritersMapped'
  <2>1. l # "idle" /\ pc[w] # "idle"
    BY <1>3, <1>4
  <2> QED BY <1>1, <1>2, <1>4, <2>1, StaysMapped DEF TypeInv, locals
<1>7. DriverOK'
  <2>1. postIndex' \in {postIndex, 0} /\ lock' \in {lock, w, NoWriter}
    BY DEF driver
  <2>2. cinExit' \in BOOLEAN
    <3>1. cinExit' = cinExit \/ cinExit' = FALSE
      BY DEF driver
    <3> QED BY <3>1 DEF TypeInv, DriverOK
  <2> QED BY <2>1, <2>2 DEF TypeInv, DriverOK, Lists
<1>8. UNCHANGED <<valid, target>> /\ (run' = run \/ run' = FALSE)
  BY DEF device, engine
<1>9. EngineOK'
  BY <1>8 DEF TypeInv, EngineOK, ValidTargeted, NoRepeats
<1>10. StatusOK'
  <2>1. UNCHANGED <<intr, errsts>>
    BY DEF device, status
  <2>2. intrOn' = intrOn \/ intrOn' = TRUE \/ intrOn' = FALSE
    BY DEF device, status
  <2>3. intrOn' \in BOOLEAN
    BY <2>2 DEF TypeInv, StatusOK
  <2> QED BY <2>1, <2>3 DEF TypeInv, StatusOK
<1>11. HistoryOK'
  <2>1. taken' = taken /\ disturbed' \in BOOLEAN
    BY DEF history, TypeInv, HistoryOK
  <2> QED BY <2>1 DEF TypeInv, HistoryOK
<1> QED BY <1>2, <1>5, <1>6, <1>7, <1>9, <1>10, <1>11, Frame DEF TypeInv

\* A request is taken from the pool or goes back to it.
LEMMA MapTypes ==
    ASSUME TypeInv, NEW w \in Writers, Begin(w) \/ Unmap(w)
    PROVE  TypeInv'
<1> USE DEF TypeInv
<1>1. w \in Contexts /\ w # Isr
  BY TxAssumption DEF Contexts
<1>2. UNCHANGED <<queues, driver, pkt, handler, device, disturbed>>
  BY DEF Begin, Unmap, history
<1>3. CASE Begin(w)
  <2>1. PICK d \in dios : dios' = dios \ {d} /\ dio' = [dio EXCEPT ![w] = d]
    BY <1>3 DEF Begin
  <2>2. d \in Dio /\ d # NoDio
    BY <2>1, TxAssumption DEF MappingOK
  <2>3. MappingOK' /\ LocalsOK'
    BY <1>3, <2>1, <2>2 DEF Begin, MappingOK, LocalsOK
  <2>4. PlacesOK'
    BY <1>1, <1>3, GoOn DEF Begin, Labels, HoldLabels
  <2>5. WritersMapped'
    BY <1>3, <2>1, <2>2 DEF Begin, Goto, WritersMapped, LocalsOK, PlacesOK, Contexts
  <2> QED BY <1>2, <1>3, <2>3, <2>4, <2>5, Frame DEF Begin, device, engine, status
<1>4. CASE Unmap(w)
  <2>1. dio[w] \in Dio
    BY <1>4 DEF Unmap, WritersMapped, LocalsOK
  <2>2. MappingOK' /\ LocalsOK' /\ HistoryOK'
    BY <1>4, <2>1 DEF Unmap, MappingOK, LocalsOK, HistoryOK, Lists
  <2>3. PlacesOK'
    BY <1>1, <1>4, GoOn DEF Unmap, Labels, HoldLabels
  <2>4. WritersMapped'
    BY <1>4 DEF Unmap, Goto, WritersMapped, LocalsOK, PlacesOK, Contexts
  <2> QED BY <1>2, <2>2, <2>3, <2>4, Frame DEF device, engine, status
<1> QED BY <1>3, <1>4

\* A writer takes a packet from a queue or puts its packet back.
LEMMA PacketTypes ==
    ASSUME TypeInv, NEW w \in Writers,
           \/ FetchFree(w) \/ XlatFail(w) \/ CancelFind(w) \/ CancelPut(w)
    PROVE  TypeInv'
<1> USE DEF TypeInv
<1>1. w \in Contexts /\ w # Isr
  BY TxAssumption DEF Contexts
<1>2. /\ UNCHANGED <<driver, mapping, locals, handler, device, taken>>
      /\ disturbed' \in BOOLEAN
  BY DEF FetchFree, XlatFail, CancelFind, CancelPut, history, HistoryOK
<1>3. HistoryOK'
  BY <1>2 DEF HistoryOK
<1>4. WritersMapped'
  <2>1. pc[w] # "idle" /\ \E l \in {"post", "unmap", "cancel_put"} : Goto(w, l)
    BY DEF FetchFree, XlatFail, CancelFind, CancelPut
  <2>2. PICK l \in {"post", "unmap", "cancel_put"} : Goto(w, l)
    BY <2>1
  <2> QED BY <1>1, <1>2, <2>1, <2>2, StaysMapped DEF locals
<1>5. QueuesOK' /\ PlacesOK'
  <2>1. CASE FetchFree(w)
    <3>1. DioqHead(freeq) \in Pkt /\ DioqFetch(freeq) \in Seq(Pkt)
      BY <2>1, FetchItem DEF FetchFree, QueuesOK
    <3>2. PlacesOK'
      BY <1>1, <2>1, <3>1, GoHolding DEF FetchFree, HoldLabels, Labels
    <3> QED BY <2>1, <3>1, <3>2 DEF FetchFree, QueuesOK
  <2>2. CASE XlatFail(w)
    <3>1. pkt[w] \in Pkt
      BY <1>1, <2>2 DEF XlatFail, PlacesOK, HoldersHold, HoldLabels
    <3>2. DioqAdd(freeq, pkt[w]) \in Seq(Pkt)
      BY <3>1, AddItem DEF QueuesOK
    <3>3. PlacesOK'
      BY <1>1, <2>2, GoHolding DEF XlatFail, HoldLabels, Labels
    <3> QED BY <2>2, <3>2, <3>3 DEF XlatFail, QueuesOK
  <2>3. CASE CancelFind(w)
    <3>1. PICK k \in 1..Len(actq) : Hold(w, actq[k]) /\ actq' = RemoveAt(actq, k)
      BY <2>3 DEF CancelFind
    <3>2. actq[k] \in Pkt /\ RemoveAt(actq, k) \in Seq(Pkt)
      BY RemoveItem DEF QueuesOK
    <3>3. PlacesOK'
      BY <1>1, <2>3, <3>1, <3>2, GoHolding DEF CancelFind, HoldLabels, Labels
    <3> QED BY <2>3, <3>1, <3>2, <3>3 DEF CancelFind, QueuesOK
  <2>4. CASE CancelPut(w)
    <3>1. pkt[w] \in Pkt
      BY <1>1, <2>4 DEF CancelPut, PlacesOK, HoldersHold, HoldLabels
    <3>2. DioqAdd(freeq, pkt[w]) \in Seq(Pkt)
      BY <3>1, AddItem DEF QueuesOK
    <3>3. PlacesOK'
      BY <1>1, <2>4, GoHolding DEF CancelPut, HoldLabels, Labels
    <3> QED BY <2>4, <3>2, <3>3 DEF CancelPut, PutFree, QueuesOK
  <2> QED BY <2>1, <2>2, <2>3, <2>4
<1> QED BY <1>2, <1>3, <1>4, <1>5, Frame DEF device, engine, status

LEMMA PostTypes ==
    ASSUME TypeInv, NEW w \in Writers, Post(w)
    PROVE  TypeInv'
<1> USE DEF TypeInv, Post
<1>1. w \in Contexts /\ w # Isr
  BY TxAssumption DEF Contexts
<1>2. pkt[w] \in Pkt /\ dio[w] \in Dio /\ postIndex \in Lists
  BY <1>1 DEF PlacesOK, HoldersHold, HoldLabels, WritersMapped, LocalsOK, DriverOK
<1>3. DioqAdd(actq, pkt[w]) \in Seq(Pkt)
  BY <1>2, AddItem DEF QueuesOK
<1>4. QueuesOK'
  BY <1>2, <1>3 DEF QueuesOK, PostTag
<1>5. PlacesOK'
  BY <1>1, GoHolding DEF HoldLabels, Labels
<1>6. WritersMapped'
  BY <1>1, StaysMapped
<1>7. DriverOK' /\ LocalsOK'
  BY <1>2 DEF DriverOK, LocalsOK, NextPost, PostTag, Lists
<1>8. EngineOK'
  <2>1. /\ valid' \in Seq(Lists) /\ NoRepeats(valid')
        /\ Items(valid') = Items(valid) \cup {postIndex}
    BY <1>2, ArmList DEF EngineOK, ValidTargeted
  <2>2. Items(valid) \subseteq Lists
    BY ItemTypes DEF EngineOK
  <2> QED BY <1>2, <2>1, <2>2 DEF EngineOK, ValidTargeted
<1>9. HistoryOK'
  BY DEF HistoryOK
<1> QED BY <1>4, <1>5, <1>6, <1>7, <1>8, <1>9, Frame

LEMMA HandlerTypes ==
    ASSUME TypeInv, IsrStep PROVE TypeInv'
<1> USE DEF TypeInv
<1>1. Isr \in Contexts
  BY DEF Contexts
<1>2. UNCHANGED <<lock, cinExit, dios, locals, engine, intrOn, level, history>>
  BY DEF IsrStep, IsrEnter, IsrFind, IsrFindNone, IsrCall, IsrPut, IsrErrors,
         IsrReset, IsrAck, driver, mapping, device, status
<1>3. WritersMapped'
  <2>1. UNCHANGED dio /\ \E l \in Labels : Goto(Isr, l)
    BY DEF IsrStep, IsrEnter, IsrFind, IsrFindNone, IsrCall, IsrPut, IsrErrors,
           IsrReset, IsrAck, locals, Handled, Labels
  <2> QED BY <1>1, <2>1, StaysMapped
<1>4. CASE IsrEnter
  <2>1. /\ todo' \in Seq(Lists)
    <3>1. {i \in Lists : <<"done", i>> \in intr} \subseteq Lists
      OBVIOUS
    <3> QED BY <1>4, <3>1, InLists DEF IsrEnter
  <2>2. HandlerOK'
    BY <1>4, <2>1 DEF IsrEnter, HandlerOK, StatusOK
  <2>3. PlacesOK'
    BY <1>1, <1>4, GoOn DEF IsrEnter, Labels, HoldLabels
  <2> QED BY <1>2, <1>3, <1>4, <2>2, <2>3, Frame DEF IsrEnter, device, status
<1>5. CASE IsrFind
  <2>1. PICK k \in 1..Len(actq) : Hold(Isr, actq[k]) /\ actq' = RemoveAt(actq, k)
    BY <1>5 DEF IsrFind
  <2>2. actq[k] \in Pkt /\ RemoveAt(actq, k) \in Seq(Pkt)
    BY RemoveItem DEF QueuesOK
  <2>3. PlacesOK'
    BY <1>1, <1>5, <2>1, <2>2, GoHolding DEF IsrFind, HoldLabels, Labels
  <2>4. QueuesOK'
    BY <1>5, <2>1, <2>2 DEF IsrFind, QueuesOK
  <2> QED BY <1>2, <1>3, <1>5, <2>3, <2>4, Frame DEF IsrFind, device
<1>6. CASE IsrFindNone \/ IsrReset \/ IsrAck \/ IsrErrors
  <2>1. PlacesOK'
    <3>1. UNCHANGED pkt /\ pc[Isr] \in {"find", "reset"}
          /\ \E l \in {"find", "reset", "idle"} : Goto(Isr, l)
      BY <1>6 DEF IsrFindNone, IsrReset, IsrAck, IsrErrors, Handled
    <3>2. PICK l \in {"find", "reset", "idle"} : Goto(Isr, l)
      BY <3>1
    <3>3. l \in Labels /\ l \notin HoldLabels /\ pc[Isr] \notin HoldLabels
      BY <3>1 DEF Labels, HoldLabels
    <3> QED BY <1>1, <3>1, <3>2, <3>3, GoOn
  <2>2. todo' \in Seq(Lists)
    <3>1. \/ todo # << >> /\ todo' = Tail(todo)
          \/ todo' = todo
          \/ todo' = In(errsts)
      BY <1>6 DEF IsrFindNone, IsrReset, IsrAck, IsrErrors, handler
    <3>2. todo # << >> => Tail(todo) \in Seq(Lists)
      BY HeadTailProperties DEF HandlerOK
    <3>3. In(errsts) \in Seq(Lists)
      BY InLists DEF StatusOK
    <3> QED BY <3>1, <3>2, <3>3 DEF HandlerOK
  <2>3. HandlerOK'
    <3>1. isrSts' \in {isrSts, "error", "ok"} /\ (snap' = snap \/ snap' = {})
      BY <1>6 DEF IsrFindNone, IsrReset, IsrAck, IsrErrors, handler
    <3> QED BY <2>2, <3>1 DEF HandlerOK
  <2>4. StatusOK'
    <3>1. intr' \subseteq intr /\ errsts' \subseteq errsts
      BY <1>6 DEF IsrFindNone, IsrReset, IsrAck, IsrErrors, device, status
    <3> QED BY <1>2, <3>1 DEF StatusOK
  <2>5. DriverOK'
    <3>1. postIndex' = postIndex \/ postIndex' = 0
      BY <1>6 DEF IsrFindNone, IsrReset, IsrAck, IsrErrors, driver
    <3> QED BY <1>2, <3>1 DEF DriverOK, Lists
  <2>6. UNCHANGED <<queues, mapping>>
    BY <1>6 DEF IsrFindNone, IsrReset, IsrAck, IsrErrors
  <2> QED BY <1>2, <1>3, <2>1, <2>3, <2>4, <2>5, <2>6, Frame
<1>7. CASE IsrCall
  <2>1. MappingOK'
    BY <1>7 DEF IsrCall, MappingOK, HandlerOK
  <2>2. PlacesOK'
    BY <1>1, <1>7, GoOn DEF IsrCall, Labels, HoldLabels
  <2> QED BY <1>2, <1>3, <1>7, <2>1, <2>2, Frame DEF IsrCall, device
<1>8. CASE IsrPut
  <2>1. pkt[Isr] \in Pkt
    BY <1>1, <1>8 DEF IsrPut, PlacesOK, HoldersHold, HoldLabels
  <2>2. DioqAdd(freeq, pkt[Isr]) \in Seq(Pkt)
    BY <2>1, AddItem DEF QueuesOK
  <2>3. PlacesOK'
    BY <1>1, <1>8, GoHolding DEF IsrPut, Handled, HoldLabels, Labels
  <2>4. QueuesOK'
    BY <1>8, <2>2 DEF IsrPut, PutFree, QueuesOK
  <2>5. HandlerOK'
    <3>1. todo' \in Seq(Lists)
      <4>1. CASE todo = << >>
        BY <1>8, <4>1 DEF IsrPut, HandlerOK
      <4>2. CASE todo # << >>
        BY <1>8, <4>2, HeadTailProperties DEF IsrPut, HandlerOK
      <4> QED BY <4>1, <4>2
    <3> QED BY <1>8, <3>1 DEF IsrPut, HandlerOK
  <2> QED BY <1>2, <1>3, <1>8, <2>3, <2>4, <2>5, Frame DEF IsrPut, device
<1> QED BY <1>4, <1>5, <1>6, <1>7, <1>8 DEF IsrStep

LEMMA EngineTypes ==
    ASSUME TypeInv, HwStep PROVE TypeInv'
<1> USE DEF TypeInv
<1>1. UNCHANGED <<queues, driver, mapping, pc, pkt, locals, handler, run, intrOn>>
  BY DEF HwStep, HwEnd, HwHalt, HwDrain, engine, status
<1>2. CASE \E ending \in Endings : HwEnd(ending)
  <2>1. PICK ending \in Endings : HwEnd(ending)
    BY <1>2
  <2> DEFINE i == Head(valid)
  <2>2. /\ i \in Lists /\ i \in Items(valid) /\ Tail(valid) \in Seq(Lists)
        /\ Items(Tail(valid)) = Items(valid) \ {i} /\ NoRepeats(Tail(valid))
    BY <2>1, FetchItem DEF HwEnd, EngineOK, ValidTargeted, DioqHead, DioqFetch
  <2>3. target[i] \in Dio
    BY <2>2 DEF EngineOK, ValidTargeted
  <2>4. EngineOK'
    BY <1>1, <2>1, <2>2 DEF HwEnd, EngineOK, ValidTargeted
  <2>5. ending \in {"done", "error"}
    BY TxAssumption
  <2>6. StatusOK'
    BY <1>1, <2>1, <2>2, <2>5 DEF HwEnd, StatusOK
  <2>7. LevelOK'
    BY <2>1, TxAssumption DEF HwEnd, LevelOK
  <2>8. HistoryOK'
    BY <2>1, <2>3 DEF HwEnd, HistoryOK
  <2> QED BY <1>1, <2>4, <2>6, <2>7, <2>8, Frame DEF locals
<1>3. CASE HwHalt
  <2>1. Items(<< >>) = {} /\ NoRepeats(<< >>)
    BY TupleItems DEF NoRepeats
  <2>2. EngineOK'
    BY <1>1, <1>3, <2>1, EmptySeq DEF HwHalt, EngineOK, ValidTargeted
  <2> QED BY <1>1, <1>3, <2>2, Frame DEF HwHalt, locals
<1>4. CASE HwDrain
  <2>1. LevelOK'
    BY <1>4, TxAssumption DEF HwDrain, LevelOK
  <2> QED BY <1>1, <1>4, <2>1, Frame DEF HwDrain, locals, device
<1> QED BY <1>2, <1>3, <1>4 DEF HwStep

LEMMA TypeStep ==
    ASSUME TypeInv, [Next]_vars PROVE TypeInv'
<1>1. CASE UNCHANGED vars
  BY <1>1, Frame DEF TypeInv, vars, device, locals
<1>2. CASE Flush
  <2>1. DriverOK'
    BY <1>2 DEF Flush, TypeInv, DriverOK
  <2> QED BY <1>2, <2>1, Frame DEF Flush, TypeInv, device, locals
<1>3. CASE Next /\ ~Flush
  BY <1>3, WalkTypes, MapTypes, PacketTypes, PostTypes, HandlerTypes,
     EngineTypes DEF Next, PostStep, CancelStep
<1> QED BY <1>1, <1>2, <1>3

LEMMA TypesHold == Spec => []TypeInv
<1>1. Init => TypeInv
  BY TypeInit
<1>2. TypeInv /\ [Next]_vars => TypeInv'
  BY TypeStep
<1> QED BY <1>1, <1>2, PTL DEF Spec

\* Every reachable state has the declared types: a context that is to write to
\* a packet has one, no list is armed twice, and the fullness of the input
\* buffer stays in its size, also after the index was reset.
THEOREM TxTypes == Spec => []TypeOK
BY TypesHold, TypeInvTypes, PTL

-----------------------------------------------------------------------------
(***************************************************************************)
(* Ownership.  F are the free packets, A the active ones, and h says what  *)
(* each context holds.                                                     *)
(***************************************************************************)
InHands(h) == {h[t] : t \in Contexts} \ {NoPkt}
Owned(F, A, h) ==
    /\ F \cap A = {} /\ InHands(h) \cap (F \cup A) = {}
    /\ F \cup A \cup InHands(h) = Pkt
    /\ \A t, u \in Contexts : h[t] = h[u] /\ h[t] # NoPkt => t = u

\* A context with empty hands takes a free or an active packet.
LEMMA OwnedTake ==
    ASSUME NEW F, NEW A, NEW h \in [Contexts -> Pkt \cup {NoPkt}],
           Owned(F, A, h), NEW t \in Contexts, h[t] = NoPkt,
           NEW x \in Pkt, x \in F \cup A
    PROVE  Owned(F \ {x}, A \ {x}, [h EXCEPT ![t] = x])
<1> DEFINE g == [h EXCEPT ![t] = x]
<1>1. x # NoPkt /\ x \notin InHands(h)
  BY TxAssumption DEF Owned
<1>2. InHands(g) = InHands(h) \cup {x}
  BY <1>1 DEF InHands
<1>3. \A u, v \in Contexts : g[u] = g[v] /\ g[u] # NoPkt => u = v
  BY <1>1 DEF Owned, InHands
<1> HIDE DEF g
<1>4. Owned(F \ {x}, A \ {x}, g)
  BY <1>1, <1>2, <1>3 DEF Owned
<1> QED BY <1>4 DEF g

\* A context puts its packet in one of the queues.
LEMMA OwnedPut ==
    ASSUME NEW F, NEW A, NEW h \in [Contexts -> Pkt \cup {NoPkt}],
           Owned(F, A, h), NEW t \in Contexts, h[t] \in Pkt
    PROVE  /\ h[t] \notin F /\ h[t] \notin A
           /\ Owned(F \cup {h[t]}, A, [h EXCEPT ![t] = NoPkt])
           /\ Owned(F, A \cup {h[t]}, [h EXCEPT ![t] = NoPkt])
<1> DEFINE g == [h EXCEPT ![t] = NoPkt]
           x == h[t]
<1>1. x # NoPkt /\ x \in InHands(h)
  BY TxAssumption DEF InHands
<1>2. InHands(g) = InHands(h) \ {x}
  BY <1>1 DEF InHands, Owned
<1>3. \A u, v \in Contexts : g[u] = g[v] /\ g[u] # NoPkt => u = v
  BY <1>1 DEF Owned
<1>4. x \notin F /\ x \notin A
  BY <1>1 DEF Owned
<1> HIDE DEF g, x
<1>5. Owned(F \cup {x}, A, g) /\ Owned(F, A \cup {x}, g)
  BY <1>1, <1>2, <1>3, <1>4 DEF Owned
<1> QED BY <1>4, <1>5 DEF g, x

\* TxOwnership in these terms.
OwnInv ==
    /\ NoRepeats(freeq) /\ NoRepeats(actq)
    /\ Owned(Items(freeq), Items(actq), pkt)

LEMMA ConcatOnce ==
    ASSUME NEW S, NEW a \in Seq(S), NEW b \in Seq(S),
           NoRepeats(a), NoRepeats(b), Items(a) \cap Items(b) = {}
    PROVE  NoRepeats(a \o b)
<1> DEFINE m == Len(a)
           n == Len(b)
           c == a \o b
<1>1. m \in Nat /\ n \in Nat
  BY LenProperties
<1>2. /\ Len(c) = m + n
      /\ \A i \in 1..(m + n) : c[i] = IF i <= m THEN a[i] ELSE b[i - m]
  BY ConcatProperties
<1>3. \A i \in 1..m, j \in 1..n : a[i] # b[j]
  BY ItemAt
<1> HIDE DEF m, n, c
<1>4. \A i, j \in 1..(m + n) : c[i] = c[j] => i = j
  <2> SUFFICES ASSUME NEW i \in 1..(m + n), NEW j \in 1..(m + n), c[i] = c[j]
               PROVE  i = j
    OBVIOUS
  <2>1. CASE i <= m /\ j <= m
    BY <1>1, <1>2, <2>1 DEF NoRepeats, m
  <2>2. CASE i > m /\ j > m
    <3>1. i - m \in 1..n /\ j - m \in 1..n /\ b[i - m] = b[j - m]
      BY <1>1, <1>2, <2>2
    <3>2. i - m = j - m
      BY <3>1 DEF NoRepeats, n
    <3> QED BY <1>1, <3>2
  <2>3. CASE i <= m /\ j > m
    <3>1. i \in 1..m /\ j - m \in 1..n /\ a[i] = b[j - m]
      BY <1>1, <1>2, <2>3
    <3> QED BY <1>3, <3>1
  <2>4. CASE i > m /\ j <= m
    <3>1. j \in 1..m /\ i - m \in 1..n /\ a[j] = b[i - m]
      BY <1>1, <1>2, <2>4
    <3> QED BY <1>3, <3>1
  <2> QED BY <1>1, <2>1, <2>2, <2>3, <2>4
<1> QED BY <1>2, <1>4 DEF NoRepeats, c

LEMMA OwnedTx ==
    ASSUME TypeInv, OwnInv PROVE TxOwnership
<1>1. NoRepeats(freeq \o actq)
  BY ConcatOnce DEF TypeInv, QueuesOK, OwnInv, Owned
<1> QED BY <1>1 DEF TxOwnership, OwnInv, Owned, Held, InHands

LEMMA OwnInit ==
    ASSUME Init PROVE OwnInv
<1>1. Items(freeq) = Pkt /\ NoRepeats(freeq)
  BY AllQueued DEF Init
<1>2. Items(actq) = {} /\ NoRepeats(actq)
  BY TupleItems DEF Init, NoRepeats
<1>3. InHands(pkt) = {}
  BY DEF Init, InHands
<1> QED BY <1>1, <1>2, <1>3 DEF OwnInv, Owned, Init

LEMMA OwnFrame ==
    ASSUME OwnInv, UNCHANGED <<freeq, actq, pkt>> PROVE OwnInv'
BY DEF OwnInv, NoRepeats

LEMMA OwnTakeFree ==
    ASSUME TypeInv, OwnInv, NEW w \in Writers, FetchFree(w) PROVE OwnInv'
<1> DEFINE x == DioqHead(freeq)
<1>1. /\ w \in Contexts /\ pkt[w] = NoPkt /\ freeq # << >> /\ actq' = actq
      /\ freeq' = DioqFetch(freeq) /\ pkt' = [pkt EXCEPT ![w] = x]
  BY DEF FetchFree, Contexts, TypeInv, PlacesOK, HoldersHold, HoldLabels, Hold
<1>2. /\ x \in Pkt /\ x \in Items(freeq)
      /\ Items(freeq') = Items(freeq) \ {x} /\ NoRepeats(freeq')
  BY <1>1, FetchItem DEF TypeInv, QueuesOK, OwnInv
<1>3. Items(actq) \ {x} = Items(actq)
  BY <1>2 DEF OwnInv, Owned
<1>4. Owned(Items(freeq) \ {x}, Items(actq) \ {x}, pkt')
  <2> HIDE DEF x
  <2> QED BY <1>1, <1>2, OwnedTake DEF OwnInv, TypeInv, PlacesOK
<1> HIDE DEF x
<1>5. Owned(Items(freeq'), Items(actq'), pkt')
  BY <1>1, <1>2, <1>3, <1>4
<1> QED BY <1>1, <1>2, <1>5 DEF OwnInv, NoRepeats

LEMMA OwnTakeActive ==
    ASSUME TypeInv, OwnInv, NEW t \in Contexts, pkt[t] = NoPkt,
           NEW k \in 1..Len(actq), Hold(t, actq[k]),
           actq' = RemoveAt(actq, k), freeq' = freeq
    PROVE  OwnInv' /\ actq[k] \in Pkt /\ Items(actq') = Items(actq) \ {actq[k]}
<1> DEFINE x == actq[k]
<1>1. /\ x \in Pkt /\ x \in Items(actq)
      /\ Items(actq') = Items(actq) \ {x} /\ NoRepeats(actq')
  BY RemoveItem DEF TypeInv, QueuesOK, OwnInv
<1>2. Items(freeq) \ {x} = Items(freeq) /\ pkt' = [pkt EXCEPT ![t] = x]
  BY <1>1 DEF OwnInv, Owned, Hold
<1> HIDE DEF x
<1>3. Owned(Items(freeq) \ {x}, Items(actq) \ {x}, pkt')
  BY <1>1, <1>2, OwnedTake DEF OwnInv, TypeInv, PlacesOK
<1>4. Owned(Items(freeq'), Items(actq'), pkt')
  BY <1>1, <1>2, <1>3
<1>5. NoRepeats(freeq')
  BY DEF OwnInv
<1> QED BY <1>1, <1>4, <1>5 DEF OwnInv, x

LEMMA OwnPutFree ==
    ASSUME TypeInv, OwnInv, NEW t \in Contexts, pkt[t] \in Pkt, Hold(t, NoPkt),
           freeq' = DioqAdd(freeq, pkt[t]), actq' = actq
    PROVE  OwnInv'
<1>1. pkt[t] \notin Items(freeq)
      /\ Owned(Items(freeq) \cup {pkt[t]}, Items(actq), pkt')
  BY OwnedPut DEF OwnInv, TypeInv, PlacesOK, Hold
<1>2. Items(freeq') = Items(freeq) \cup {pkt[t]} /\ NoRepeats(freeq')
  BY <1>1, AddItem DEF OwnInv, TypeInv, QueuesOK
<1> QED BY <1>1, <1>2 DEF OwnInv

LEMMA OwnPost ==
    ASSUME TypeInv, OwnInv, NEW w \in Writers, Post(w)
    PROVE  /\ OwnInv' /\ pkt[w] \in Pkt /\ pkt[w] \notin Items(actq)
           /\ Items(actq') = Items(actq) \cup {pkt[w]}
<1>1. w \in Contexts /\ pkt[w] \in Pkt
  BY DEF Post, Contexts, TypeInv, PlacesOK, HoldersHold, HoldLabels
<1>2. pkt[w] \notin Items(actq)
      /\ Owned(Items(freeq), Items(actq) \cup {pkt[w]}, pkt')
  BY <1>1, OwnedPut DEF OwnInv, TypeInv, PlacesOK, Hold, Post
<1>3. Items(actq') = Items(actq) \cup {pkt[w]} /\ NoRepeats(actq')
  BY <1>1, <1>2, AddItem DEF OwnInv, TypeInv, QueuesOK, Post
<1>4. freeq' = freeq
  BY DEF Post
<1> QED BY <1>1, <1>2, <1>3, <1>4 DEF OwnInv

LEMMA OwnStep ==
    ASSUME TypeInv, OwnInv, [Next]_vars PROVE OwnInv'
<1> USE DEF TypeInv, PlacesOK, HoldersHold, HoldLabels
<1>1. Isr \in Contexts /\ \A w \in Writers : w \in Contexts
  BY DEF Contexts
<1>2. CASE \E w \in Writers : FetchFree(w) \/ Post(w)
  BY <1>2, OwnTakeFree, OwnPost
<1>3. CASE \E w \in Writers : CancelFind(w)
  <2>1. PICK w \in Writers : CancelFind(w)
    BY <1>3
  <2>2. PICK k \in 1..Len(actq) : Hold(w, actq[k]) /\ actq' = RemoveAt(actq, k)
    BY <2>1 DEF CancelFind
  <2>3. freeq' = freeq /\ pkt[w] = NoPkt
    BY <1>1, <2>1 DEF CancelFind
  <2> QED BY <1>1, <2>2, <2>3, OwnTakeActive
<1>4. CASE IsrFind
  <2>1. PICK k \in 1..Len(actq) : Hold(Isr, actq[k]) /\ actq' = RemoveAt(actq, k)
    BY <1>4 DEF IsrFind
  <2>2. freeq' = freeq /\ pkt[Isr] = NoPkt
    BY <1>1, <1>4 DEF IsrFind
  <2> QED BY <1>1, <2>1, <2>2, OwnTakeActive
<1>5. CASE IsrPut \/ \E w \in Writers : XlatFail(w) \/ CancelPut(w)
  <2>1. PICK t \in Contexts :
            /\ pkt[t] \in Pkt /\ Hold(t, NoPkt)
            /\ freeq' = DioqAdd(freeq, pkt[t]) /\ actq' = actq
    BY <1>1, <1>5 DEF IsrPut, XlatFail, CancelPut, PutFree
  <2> QED BY <2>1, OwnPutFree
<1>6. CASE \/ UNCHANGED vars \/ Flush \/ HwStep
           \/ IsrStep /\ ~IsrFind /\ ~IsrPut
  <2>1. UNCHANGED <<freeq, actq, pkt>>
    BY <1>6 DEF vars, Flush, HwStep, HwEnd, HwHalt, HwDrain, IsrStep, IsrEnter,
                IsrFindNone, IsrCall, IsrErrors, IsrReset, IsrAck, queues
  <2> QED BY <2>1, OwnFrame
<1>7. CASE \E w \in Writers :
              \/ Begin(w) \/ Check(w) \/ CodeinCancelled(w) \/ CodeinSlept(w)
              \/ FetchNone(w) \/ Posted(w) \/ WaitStep(w) \/ WaitSignal(w)
              \/ Stop(w) \/ StopDone(w) \/ StopFail(w) \/ CancelNone(w)
              \/ Unmap(w)
  <2>1. UNCHANGED <<freeq, actq, pkt>>
    BY <1>7 DEF Begin, Check, CodeinCancelled, CodeinSlept, FetchNone, Posted,
                WaitStep, WaitDone, WaitTimeout, WaitSignal, Stop, StopIdle,
                StopBegin, StopDone, StopFail, CancelNone, Unmap, queues
  <2> QED BY <2>1, OwnFrame
<1> QED BY <1>2, <1>3, <1>4, <1>5, <1>6, <1>7
        DEF Next, PostStep, CancelStep

LEMMA OwnHolds == Spec => []OwnInv
<1>1. Init => OwnInv
  BY OwnInit
<1>2. TypeInv /\ OwnInv /\ [Next]_vars => OwnInv'
  BY OwnStep
<1> QED BY <1>1, <1>2, TypesHold, PTL DEF Spec

\* Every packet is in exactly one place, once, for any number of packets and
\* writers, although the interrupt handler and a cancellation both take packets
\* out of the active queue, and the tags may lead either to the other's.
THEOREM TxPacketOwnership == Spec => []TxOwnership
<1>1. TypeInv /\ OwnInv => TxOwnership
  BY OwnedTx
<1> QED BY <1>1, TypesHold, OwnHolds, PTL

-----------------------------------------------------------------------------
(***************************************************************************)
(* What holds whether or not a request was disturbed.                      *)
(***************************************************************************)
\* A direct I/O request is in the pool or with one writer.
DiosOwned ==
    /\ \A v, w \in Writers : dio[v] = dio[w] /\ dio[v] # NoDio => v = w
    /\ \A w \in Writers : dio[w] \notin dios
LockHeld == \A w \in Writers : (pc[w] = "stopping") <=> (lock = w)
Raised == intr \subseteq Endings \X Lists
IsrRested == pc[Isr] = "idle" => snap = {}

RunInv == DiosOwned /\ LockHeld /\ Raised /\ IsrRested

\* A step of a writer leaves the handler's place alone, and that of others.
LEMMA OthersStay ==
    ASSUME TypeInv, NEW w \in Writers, NEW l, Goto(w, l)
    PROVE  /\ pc'[w] = l /\ pc'[Isr] = pc[Isr] /\ w # Isr
           /\ \A v \in Writers : v # w => pc'[v] = pc[v]
<1>1. w # Isr /\ w \in Contexts /\ Isr \in Contexts
      /\ \A v \in Writers : v \in Contexts
  BY TxAssumption DEF Contexts
<1> QED BY <1>1 DEF Goto, TypeInv, PlacesOK

LEMMA HandlerStays ==
    ASSUME TypeInv, NEW l, Goto(Isr, l)
    PROVE  pc'[Isr] = l /\ \A w \in Writers : pc'[w] = pc[w] /\ w # Isr
<1>1. Isr \in Contexts /\ \A v \in Writers : v \in Contexts /\ v # Isr
  BY TxAssumption DEF Contexts
<1> QED BY <1>1 DEF Goto, TypeInv, PlacesOK

\* The steps of a writer, by what they do to its place.
WriterStep(w) ==
    \/ Begin(w) \/ PostStep(w) \/ XlatFail(w) \/ WaitStep(w) \/ WaitSignal(w)
    \/ Stop(w) \/ CancelStep(w) \/ Unmap(w)

LEMMA RunWriter ==
    ASSUME TypeInv, RunInv, NEW w \in Writers, WriterStep(w)
    PROVE  RunInv'
<1>1. UNCHANGED <<intr, snap>> /\ \E l : Goto(w, l)
  BY DEF WriterStep, Begin, PostStep, Check, CodeinCancelled, CodeinSlept,
         FetchFree, FetchNone, Post, Posted, XlatFail, WaitStep, WaitDone,
         WaitTimeout, WaitSignal, Stop, StopIdle, StopBegin, CancelStep,
         StopDone, StopFail, CancelFind, CancelNone, CancelPut, Unmap,
         handler, device, status
<1>2. PICK l : Goto(w, l)
  BY <1>1
<1>3. Raised' /\ IsrRested'
  BY <1>1, <1>2, OthersStay DEF RunInv, Raised, IsrRested
<1>4. DiosOwned'
  <2>1. CASE Begin(w)
    <3>1. PICK d \in dios : dios' = dios \ {d} /\ dio' = [dio EXCEPT ![w] = d]
      BY <2>1 DEF Begin
    <3>2. \A v \in Writers : dio'[v] = IF v = w THEN d ELSE dio[v]
      BY <3>1 DEF TypeInv, LocalsOK
    <3> QED BY <3>1, <3>2 DEF RunInv, DiosOwned
  <2>2. CASE Unmap(w)
    <3>1. dios' = dios \cup {dio[w]} /\ dio[w] # NoDio
      BY <2>2 DEF Unmap, TypeInv, WritersMapped
    <3>2. \A v \in Writers : dio'[v] = IF v = w THEN NoDio ELSE dio[v]
      BY <2>2 DEF Unmap, TypeInv, LocalsOK
    <3>3. NoDio \notin dios'
      BY <3>1, TxAssumption DEF TypeInv, MappingOK
    <3> QED BY <3>1, <3>2, <3>3 DEF RunInv, DiosOwned
  <2>3. CASE ~Begin(w) /\ ~Unmap(w)
    <3>1. UNCHANGED <<dio, dios>>
      BY <2>3
         DEF WriterStep, PostStep, Check, CodeinCancelled, CodeinSlept,
             FetchFree, FetchNone, Post, Posted, XlatFail, WaitStep, WaitDone,
             WaitTimeout, WaitSignal, Stop, StopIdle, StopBegin, CancelStep,
             StopDone, StopFail, CancelFind, CancelNone, CancelPut, locals,
             mapping
    <3> QED BY <3>1 DEF RunInv, DiosOwned
  <2> QED BY <2>1, <2>2, <2>3
<1>5. LockHeld'
  <2>1. CASE StopBegin(w)
    <3>1. lock = NoWriter /\ lock' = w /\ Goto(w, "stopping")
      BY <2>1 DEF StopBegin
    <3> QED BY <3>1, OthersStay, TxAssumption DEF RunInv, LockHeld
  <2>2. CASE StopDone(w) \/ StopFail(w)
    <3>1. lock' = NoWriter /\ pc[w] = "stopping" /\ Goto(w, "cancel")
      BY <2>2 DEF StopDone, StopFail
    <3>2. lock = w
      BY <3>1 DEF RunInv, LockHeld
    <3> QED BY <3>1, <3>2, OthersStay, TxAssumption DEF RunInv, LockHeld
  <2>3. CASE ~StopBegin(w) /\ ~StopDone(w) /\ ~StopFail(w)
    <3>1. lock' = lock /\ pc[w] # "stopping" /\ ~Goto(w, "stopping")
      <4>1. lock' = lock /\ pc[w] # "stopping"
            /\ \E m \in Labels \ {"stopping"} : Goto(w, m)
        BY <2>3
           DEF WriterStep, Begin, PostStep, Check, CodeinCancelled, CodeinSlept,
               FetchFree, FetchNone, Post, Posted, XlatFail, WaitStep, WaitDone,
               WaitTimeout, WaitSignal, Stop, StopIdle, CancelStep, CancelFind,
               CancelNone, CancelPut, Unmap, driver, Labels
      <4> QED BY <4>1, OthersStay
    <3>2. pc'[w] # "stopping"
      BY <1>2, <3>1, OthersStay
    <3> QED BY <1>2, <3>1, <3>2, OthersStay DEF RunInv, LockHeld
  <2> QED BY <2>1, <2>2, <2>3
<1> QED BY <1>3, <1>4, <1>5 DEF RunInv

LEMMA RunHandler ==
    ASSUME TypeInv, RunInv, IsrStep PROVE RunInv'
<1>1. /\ UNCHANGED <<dio, dios, lock>> /\ intr' \subseteq intr
      /\ \E l : Goto(Isr, l) /\ (l = "idle" => snap' = {})
  BY DEF IsrStep, IsrEnter, IsrFind, IsrFindNone, IsrCall, IsrPut, IsrErrors,
         IsrReset, IsrAck, Handled, locals, mapping, driver, device, status
<1>2. PICK l : Goto(Isr, l) /\ (l = "idle" => snap' = {})
  BY <1>1
<1> QED BY <1>1, <1>2, HandlerStays
        DEF RunInv, DiosOwned, LockHeld, Raised, IsrRested

LEMMA RunStep ==
    ASSUME TypeInv, RunInv, [Next]_vars PROVE RunInv'
<1>1. CASE UNCHANGED vars \/ Flush \/ HwHalt \/ HwDrain
  <2>1. UNCHANGED <<dio, dios, pc, lock, intr, snap>>
    BY <1>1 DEF vars, Flush, HwHalt, HwDrain, locals, mapping, driver, handler,
                device, status
  <2> QED BY <2>1 DEF RunInv, DiosOwned, LockHeld, Raised, IsrRested
<1>2. CASE \E ending \in Endings : HwEnd(ending)
  <2>1. PICK ending \in Endings : HwEnd(ending)
    BY <1>2
  <2>2. UNCHANGED <<dio, dios, pc, lock, snap>>
        /\ intr' = intr \cup {<<ending, Head(valid)>>} /\ valid # << >>
    BY <2>1 DEF HwEnd, locals, mapping, driver, handler
  <2>3. Head(valid) \in Lists
    BY <2>2, HeadTailProperties DEF TypeInv, EngineOK
  <2> QED BY <2>2, <2>3 DEF RunInv, DiosOwned, LockHeld, Raised, IsrRested
<1>3. CASE IsrStep
  BY <1>3, RunHandler
<1>4. CASE \E w \in Writers : WriterStep(w)
  BY <1>4, RunWriter
<1> QED BY <1>1, <1>2, <1>3, <1>4 DEF Next, WriterStep, HwStep

LEMMA RunHolds == Spec => []RunInv
<1>1. Init => RunInv
  BY TxAssumption DEF Init, RunInv, DiosOwned, LockHeld, Raised, IsrRested, Contexts
<1>2. TypeInv /\ RunInv /\ [Next]_vars => RunInv'
  BY RunStep
<1> QED BY <1>1, <1>2, TypesHold, PTL DEF Spec

-----------------------------------------------------------------------------
(***************************************************************************)
(* Undisturbed requests.  A packet is current from its post until it is    *)
(* cancelled or its completion was called.                                 *)
(***************************************************************************)
WaitLabels == {"posted", "wait", "stop", "stopping", "cancel"}
EarlyLabels == {"check", "busy", "fetch", "post"}
Current ==
    {p \in Pkt : p \in Items(actq) \/ (pc[Isr] = "call" /\ p = pkt[Isr])}

\* A current packet leads to its writer, who waits for it with its request.
OwnersWait ==
    \A p \in Current :
        /\ cbEvent[p] \in Writers /\ pc[cbEvent[p]] \in WaitLabels
        /\ dio[cbEvent[p]] = dioReq[p] /\ evSts[dioReq[p]] = "none"
OneEach == \A p, q \in Current : cbEvent[p] = cbEvent[q] => p = q
OneOnList == \A p, q \in Items(actq) : tag[p] = tag[q] => p = q

\* A request that is not posted has no status of an earlier use.
Fresh ==
    /\ \A d \in dios : evSts[d] = "none"
    /\ \A w \in Writers : pc[w] \in EarlyLabels => evSts[dio[w]] = "none"
PacketsClear == OwnersWait /\ OneEach /\ OneOnList /\ Fresh

\* An interrupt that is still to be handled, a completion that is about to be
\* called, a status and a success stand for data that the device took.
ActiveEnds ==
    \A p \in Items(actq) :
        \/ <<"done", tag[p]>> \in intr \ snap
        \/ isrSts = "ok" /\ tag[p] \in Items(todo)
        => dioReq[p] \in taken
CallEnds == pc[Isr] = "call" /\ isrSts = "ok" => dioReq[pkt[Isr]] \in taken
StatusTrue == \A d \in Dio : evSts[d] = "ok" => d \in taken
SuccessTrue == \A w \in Writers : pc[w] = "success" => dio[w] \in taken
EndsTaken == ActiveEnds /\ CallEnds /\ StatusTrue /\ SuccessTrue

\* A list in the engine belongs to an active packet, whose writer is not yet
\* to cancel it, and has nothing left of an earlier transfer.
EngineFollows ==
    \A i \in Items(valid) :
        \E p \in Items(actq) : /\ tag[p] = i /\ dioReq[p] = target[i]
                               /\ pc[cbEvent[p]] # "cancel"
Unfinished ==
    \A i \in Items(valid) :
        /\ i \notin Items(todo) /\ i \notin errsts
        /\ \A e \in Endings : <<e, i>> \notin intr \ snap
StoppedIdle == ~run /\ lock = NoWriter => valid = << >>
EngineClear == EngineFollows /\ Unfinished /\ StoppedIdle

ClearInv == PacketsClear /\ EndsTaken /\ EngineClear

Inv == TypeInv /\ OwnInv /\ RunInv

\* Nothing current belongs to a writer that does not wait, or that has a status.
LEMMA NothingCurrent ==
    ASSUME OwnersWait, NEW w \in Writers,
           pc[w] \notin WaitLabels \/ evSts[dio[w]] # "none"
    PROVE  \A p \in Current : cbEvent[p] # w
BY DEF OwnersWait

\* What is active is current, and the packet a writer holds is not.
LEMMA CurrentPackets ==
    ASSUME TypeInv, OwnInv
    PROVE  /\ Items(actq) \subseteq Current
           /\ \A w \in Writers : pkt[w] \notin Current
           /\ pkt[Isr] \notin Items(actq)
<1>1. Items(actq) \subseteq Pkt
  BY ItemTypes DEF TypeInv, QueuesOK
<1>2. Isr \in Contexts /\ Isr \notin Writers
      /\ \A w \in Writers : w \in Contexts
  BY TxAssumption DEF Contexts
<1>3. \A t \in Contexts : pkt[t] \notin Items(actq)
  BY <1>1, TxAssumption DEF OwnInv, Owned, InHands
<1>4. \A w \in Writers : pkt[w] \in Pkt => pkt[w] # pkt[Isr]
  BY <1>2, TxAssumption DEF OwnInv, Owned
<1> QED BY <1>1, <1>2, <1>3, <1>4 DEF Current

SamePackets ==
    \A p \in Current : /\ cbEvent'[p] = cbEvent[p] /\ dioReq'[p] = dioReq[p]
                       /\ tag'[p] = tag[p]

\* A step of a writer that moves no current packet.
LEMMA ClearWalk ==
    ASSUME Inv, ClearInv, NEW w \in Writers, NEW l, Goto(w, l),
           UNCHANGED <<actq, dio, mapping, handler, intr, errsts, valid, target,
                       taken>>,
           pkt'[Isr] = pkt[Isr], SamePackets,
           l \in WaitLabels \/ \A p \in Current : cbEvent[p] # w,
           l \in EarlyLabels => pc[w] \in EarlyLabels,
           l = "cancel" => valid = << >>,
           l = "success" => dio[w] \in taken,
           StoppedIdle'
    PROVE  ClearInv'
<1>1. pc'[w] = l /\ pc'[Isr] = pc[Isr] /\ \A v \in Writers : v # w => pc'[v] = pc[v]
  BY OthersStay DEF Inv
<1>2. Current' = Current
  BY <1>1 DEF Current
<1>3. Items(actq) \subseteq Current
  BY CurrentPackets DEF Inv
<1>4. UNCHANGED <<dios, evSts, todo, isrSts, snap>>
  BY DEF mapping, handler
<1>5. OwnersWait'
  BY <1>1, <1>2, <1>4 DEF ClearInv, PacketsClear, OwnersWait, SamePackets
<1>6. OneEach' /\ OneOnList'
  BY <1>2, <1>3 DEF ClearInv, PacketsClear, OneEach, OneOnList, SamePackets
<1>7. Fresh'
  BY <1>1, <1>4 DEF ClearInv, PacketsClear, Fresh
<1>8. ActiveEnds'
  BY <1>3, <1>4 DEF ClearInv, EndsTaken, ActiveEnds, SamePackets
<1>9. CallEnds'
  <2>1. ASSUME pc[Isr] = "call" PROVE pkt[Isr] \in Current
    BY <2>1 DEF Current, Inv, TypeInv, PlacesOK, HoldersHold, HoldLabels, Contexts
  <2> QED BY <1>1, <1>4, <2>1 DEF ClearInv, EndsTaken, CallEnds, SamePackets
<1>10. StatusTrue' /\ SuccessTrue'
  BY <1>1, <1>4 DEF ClearInv, EndsTaken, StatusTrue, SuccessTrue
<1>11. EngineFollows'
  <2> SUFFICES ASSUME NEW i \in Items(valid)
               PROVE  \E p \in Items(actq) :
                          /\ tag'[p] = i /\ dioReq'[p] = target[i]
                          /\ pc'[cbEvent'[p]] # "cancel"
    BY DEF EngineFollows
  <2>1. PICK p \in Items(actq) : /\ tag[p] = i /\ dioReq[p] = target[i]
                                /\ pc[cbEvent[p]] # "cancel"
    BY DEF ClearInv, EngineClear, EngineFollows
  <2>2. cbEvent[p] \in Writers
    BY <1>3 DEF ClearInv, PacketsClear, OwnersWait
  <2>3. l # "cancel"
    BY TupleItems
  <2>4. pc'[cbEvent[p]] # "cancel"
    BY <1>1, <2>1, <2>2, <2>3
  <2> QED BY <1>3, <2>1, <2>4 DEF SamePackets
<1>12. Unfinished'
  BY <1>4 DEF ClearInv, EngineClear, Unfinished
<1> QED BY <1>5, <1>6, <1>7, <1>8, <1>9, <1>10, <1>11, <1>12
        DEF ClearInv, PacketsClear, EndsTaken, EngineClear

\* Steps of a writer before its post, the wait and the way out.
LEMMA ClearBefore ==
    ASSUME Inv, ClearInv, NEW w \in Writers,
           \/ Check(w) \/ CodeinCancelled(w) \/ CodeinSlept(w) \/ FetchFree(w)
           \/ FetchNone(w) \/ XlatFail(w) \/ Posted(w)
    PROVE  ClearInv'
<1> USE DEF Check, CodeinCancelled, CodeinSlept, FetchFree, FetchNone, XlatFail,
            Posted
<1>1. UNCHANGED <<actq, tag, dioReq, cbEvent, dio, mapping, handler, intr, errsts,
                  valid, target, taken, run, lock>>
  BY DEF queues, locals, device, status, engine, history, driver
<1>2. pkt'[Isr] = pkt[Isr]
  <2>1. w # Isr /\ Isr \in Contexts
    BY TxAssumption DEF Contexts
  <2> QED BY <2>1 DEF Hold, Inv, TypeInv, PlacesOK
<1>3. SamePackets
  BY <1>1 DEF SamePackets
<1>4. StoppedIdle'
  BY <1>1 DEF ClearInv, EngineClear, StoppedIdle
<1>5. CASE Posted(w)
  BY <1>1, <1>2, <1>3, <1>4, <1>5, ClearWalk DEF WaitLabels, EarlyLabels
<1>6. CASE ~Posted(w)
  <2>1. /\ pc[w] \in EarlyLabels /\ pc[w] \notin WaitLabels
        /\ \E l \in EarlyLabels \cup {"unmap"} : Goto(w, l)
    BY <1>6 DEF WaitLabels, EarlyLabels
  <2>2. PICK l \in EarlyLabels \cup {"unmap"} : Goto(w, l)
    BY <2>1
  <2>3. \A p \in Current : cbEvent[p] # w
    BY <2>1, NothingCurrent DEF ClearInv, PacketsClear
  <2>4. l # "cancel" /\ l # "success"
    BY DEF EarlyLabels
  <2> QED BY <1>1, <1>2, <1>3, <1>4, <2>1, <2>2, <2>3, <2>4, ClearWalk
<1> QED BY <1>5, <1>6

\* The wait, and the stop of the engine.
LEMMA ClearWait ==
    ASSUME Inv, ClearInv, NEW w \in Writers,
           \/ WaitStep(w) \/ WaitSignal(w) \/ Stop(w) \/ StopDone(w)
           \/ (StopFail(w) /\ ~disturbed')
    PROVE  ClearInv'
<1>1. UNCHANGED <<actq, tag, dioReq, cbEvent, dio, mapping, handler, intr, errsts,
                  valid, target, taken, pkt>>
  BY DEF WaitStep, WaitDone, WaitTimeout, WaitSignal, Stop, StopIdle, StopBegin,
         StopDone, StopFail, queues, locals, device, status, engine, history
<1>2. SamePackets /\ pkt'[Isr] = pkt[Isr]
  BY <1>1 DEF SamePackets
<1>3. CASE WaitDone(w)
  <2>1. \A p \in Current : cbEvent[p] # w
    BY <1>3, NothingCurrent DEF WaitDone, ClearInv, PacketsClear
  <2>2. StoppedIdle'
    BY <1>3 DEF WaitDone, ClearInv, EngineClear, StoppedIdle, device, driver, engine
  <2>3. CASE evSts[dio[w]] = "ok"
    <3>1. dio[w] \in Dio
      BY <1>3 DEF WaitDone, Inv, TypeInv, WritersMapped, LocalsOK
    <3>2. dio[w] \in taken
      BY <2>3, <3>1 DEF ClearInv, EndsTaken, StatusTrue
    <3>3. Goto(w, "success")
      BY <1>3, <2>3 DEF WaitDone
    <3> QED BY <1>1, <1>2, <2>1, <2>2, <3>2, <3>3, ClearWalk DEF EarlyLabels
  <2>4. CASE evSts[dio[w]] # "ok"
    <3>1. Goto(w, "unmap")
      BY <1>3, <2>4 DEF WaitDone
    <3> QED BY <1>1, <1>2, <2>1, <2>2, <3>1, ClearWalk DEF EarlyLabels
  <2> QED BY <2>3, <2>4
<1>4. CASE WaitTimeout(w) \/ WaitSignal(w)
  <2>1. StoppedIdle' /\ Goto(w, "stop")
    BY <1>4 DEF WaitTimeout, WaitSignal, ClearInv, EngineClear, StoppedIdle,
                device, driver, engine
  <2> QED BY <1>1, <1>2, <2>1, ClearWalk DEF EarlyLabels, WaitLabels
<1>5. CASE StopBegin(w)
  <2>1. StoppedIdle' /\ Goto(w, "stopping")
    BY <1>5, TxAssumption DEF StopBegin, StoppedIdle
  <2> QED BY <1>1, <1>2, <2>1, ClearWalk DEF EarlyLabels, WaitLabels
<1>6. CASE StopIdle(w) \/ StopDone(w) \/ (StopFail(w) /\ ~disturbed')
  <2>1. valid = << >> /\ valid' = << >> /\ Goto(w, "cancel")
    BY <1>1, <1>6 DEF StopIdle, StopDone, StopFail, ClearInv, EngineClear, StoppedIdle
  <2>2. StoppedIdle'
    BY <2>1 DEF StoppedIdle
  <2> QED BY <1>1, <1>2, <2>1, <2>2, ClearWalk DEF EarlyLabels, WaitLabels
<1> QED BY <1>3, <1>4, <1>5, <1>6 DEF WaitStep, Stop

\* The cancellation: the interrupt handler was first, or the packet goes back.
LEMMA ClearCancel ==
    ASSUME Inv, ClearInv, NEW w \in Writers,
           (CancelNone(w) /\ ~disturbed') \/ CancelPut(w)
    PROVE  ClearInv'
<1>1. UNCHANGED <<actq, dio, mapping, handler, intr, errsts, valid, target,
                  taken, run, lock>>
      /\ Goto(w, "unmap")
  BY DEF CancelNone, CancelPut, queues, locals, device, status, engine, history,
         driver
<1>2. StoppedIdle'
  BY <1>1 DEF ClearInv, EngineClear, StoppedIdle
<1>3. pkt'[Isr] = pkt[Isr]
  <2>1. w # Isr /\ Isr \in Contexts
    BY TxAssumption DEF Contexts
  <2> QED BY <2>1 DEF CancelNone, CancelPut, Hold, Inv, TypeInv, PlacesOK
<1>4. SamePackets
  <2>1. CASE CancelNone(w)
    BY <2>1 DEF CancelNone, queues, SamePackets
  <2>2. CASE CancelPut(w)
    <3>1. pkt[w] \notin Current /\ Current \subseteq Pkt
      BY CurrentPackets DEF Inv, Current
    <3>2. cbEvent \in [Pkt -> Writers \cup {NoWriter}]
          /\ dioReq \in [Pkt -> Dio \cup {NoDio}]
          /\ tag \in [Pkt -> Lists \cup {NoTag}]
      BY DEF Inv, TypeInv, QueuesOK
    <3> QED BY <2>2, <3>1, <3>2 DEF CancelPut, PutFree, SamePackets
  <2> QED BY <2>1, <2>2
<1>5. \A p \in Current : cbEvent[p] # w
  <2>1. CASE CancelNone(w)
    <3>1. ASSUME NEW p \in Current, cbEvent[p] = w PROVE FALSE
      <4>1. dioReq[p] = dio[w] /\ p \in Pkt
        BY <3>1 DEF ClearInv, PacketsClear, OwnersWait, Current
      <4>2. ~disturbed'
        BY <2>1 DEF CancelPut, CancelNone
      <4>3. p \in Own(w)
        BY <4>1 DEF Own
      <4> QED BY <2>1, <4>2, <4>3 DEF CancelNone
    <3> QED BY <3>1
  <2>2. CASE CancelPut(w)
    <3>1. pc[w] \notin WaitLabels
      BY <2>2 DEF CancelPut, WaitLabels
    <3> QED BY <3>1, NothingCurrent DEF ClearInv, PacketsClear
  <2> QED BY <2>1, <2>2
<1> QED BY <1>1, <1>2, <1>3, <1>4, <1>5, ClearWalk DEF EarlyLabels

\* A current packet's writer has a request that nobody else has.
LEMMA CurrentOwner ==
    ASSUME Inv, ClearInv, NEW p \in Current
    PROVE  /\ cbEvent[p] \in Writers /\ pc[cbEvent[p]] \in WaitLabels
           /\ dioReq[p] = dio[cbEvent[p]] /\ dioReq[p] \in Dio
           /\ dioReq[p] \notin dios
           /\ \A w \in Writers : dio[w] = dioReq[p] => w = cbEvent[p]
<1>1. /\ cbEvent[p] \in Writers /\ pc[cbEvent[p]] \in WaitLabels
      /\ dioReq[p] = dio[cbEvent[p]]
  BY DEF ClearInv, PacketsClear, OwnersWait
<1>2. dio[cbEvent[p]] # NoDio
  BY <1>1 DEF WaitLabels, Inv, TypeInv, WritersMapped
<1> QED BY <1>1, <1>2 DEF Inv, TypeInv, LocalsOK, RunInv, DiosOwned

\* The packet that the interrupt handler completes is current.
LEMMA CalledCurrent ==
    ASSUME Inv, pc[Isr] = "call" PROVE pkt[Isr] \in Current
BY DEF Current, Inv, TypeInv, PlacesOK, HoldersHold, HoldLabels, Contexts

\* A request is mapped or unmapped.
LEMMA ClearMap ==
    ASSUME Inv, ClearInv, NEW w \in Writers, Begin(w) \/ Unmap(w)
    PROVE  ClearInv'
<1> USE DEF ClearInv
<1>1. /\ UNCHANGED <<actq, tag, dioReq, cbEvent, pkt, todo, isrSts, snap, intr,
                     errsts, valid, target, run, lock>>
      /\ \E l \in {"check", "idle"} : Goto(w, l) /\ (l = "check" => Begin(w))
  BY DEF Begin, Unmap, queues, handler, device, status, engine, driver
<1>2. PICK l \in {"check", "idle"} : Goto(w, l) /\ (l = "check" => Begin(w))
  BY <1>1
<1>3. /\ pc'[w] = l /\ pc'[Isr] = pc[Isr]
      /\ \A v \in Writers : v # w => pc'[v] = pc[v]
  BY <1>2, OthersStay DEF Inv
<1>4. Current' = Current
  BY <1>1, <1>3 DEF Current
<1>5. \A p \in Current : cbEvent[p] # w
  <2>1. pc[w] \notin WaitLabels
    BY DEF Begin, Unmap, WaitLabels
  <2> QED BY <2>1, NothingCurrent DEF PacketsClear
<1>6. \A v \in Writers : v # w => dio'[v] = dio[v]
  BY DEF Begin, Unmap, Inv, TypeInv, LocalsOK
<1>7. \A d \in Dio : evSts'[d] = evSts[d] \/ (evSts'[d] = "none" /\ Unmap(w))
  BY DEF Begin, Unmap, Inv, TypeInv, MappingOK
<1>8. OwnersWait'
  BY <1>1, <1>3, <1>4, <1>5, <1>6, <1>7, CurrentOwner DEF PacketsClear, OwnersWait
<1>9. OneEach' /\ OneOnList'
  BY <1>1, <1>4 DEF PacketsClear, OneEach, OneOnList
<1>10. ASSUME NEW d \in taken, d # dio[w] PROVE d \in taken'
  BY <1>10 DEF Begin, Unmap, history
<1>11. Items(actq) \subseteq Current
  BY CurrentPackets DEF Inv
<1>12. ASSUME NEW p \in Current, dioReq[p] \in taken PROVE dioReq[p] \in taken'
  BY <1>5, <1>10, <1>12, CurrentOwner
<1>13. ActiveEnds' /\ CallEnds'
  BY <1>1, <1>3, <1>11, <1>12, CalledCurrent DEF EndsTaken, ActiveEnds, CallEnds
<1>14. Fresh' /\ StatusTrue' /\ SuccessTrue'
  <2>1. CASE Begin(w)
    <3>1. PICK d \in dios : dios' = dios \ {d} /\ dio'[w] = d
      BY <2>1 DEF Begin, Inv, TypeInv, LocalsOK
    <3>2. UNCHANGED <<evSts, taken>> /\ pc'[w] = "check"
      BY <1>3, <2>1, OthersStay DEF Begin, history, Inv
    <3> QED BY <1>3, <1>6, <3>1, <3>2
            DEF PacketsClear, EndsTaken, Fresh, StatusTrue, SuccessTrue
  <2>2. CASE Unmap(w)
    <3>1. dio[w] \in Dio
      BY <2>2 DEF Unmap, Inv, TypeInv, WritersMapped, LocalsOK
    <3>2. /\ dios' = dios \cup {dio[w]} /\ taken' = taken \ {dio[w]}
          /\ evSts' = [evSts EXCEPT ![dio[w]] = "none"] /\ pc'[w] = "idle"
      BY <2>2, OthersStay DEF Unmap, Inv
    <3>3. \A v \in Writers : v # w => dio[v] # dio[w]
      BY <3>1, TxAssumption DEF Inv, RunInv, DiosOwned
    <3>4. \A d \in Dio : evSts'[d] = IF d = dio[w] THEN "none" ELSE evSts[d]
      BY <3>1, <3>2 DEF Inv, TypeInv, MappingOK
    <3>5. \A v \in Writers : pc[v] \in EarlyLabels => dio[v] \in Dio
      BY DEF Inv, TypeInv, WritersMapped, LocalsOK, EarlyLabels
    <3>6. Fresh'
      <4>1. \A d \in dios' : evSts'[d] = "none"
        BY <3>1, <3>2, <3>4 DEF PacketsClear, Fresh, Inv, TypeInv, MappingOK
      <4>2. ASSUME NEW v \in Writers, pc'[v] \in EarlyLabels
            PROVE  evSts'[dio'[v]] = "none"
        <5>1. v # w
          BY <3>2, <4>2 DEF EarlyLabels
        <5> QED BY <1>3, <1>6, <3>4, <3>5, <4>2, <5>1 DEF PacketsClear, Fresh
      <4> QED BY <4>1, <4>2 DEF Fresh
    <3> QED BY <1>3, <1>6, <3>2, <3>3, <3>4, <3>6
            DEF EndsTaken, StatusTrue, SuccessTrue
  <2> QED BY <2>1, <2>2
<1>15. EngineFollows'
  BY <1>1, <1>3, <1>5, <1>11, CurrentOwner DEF EngineClear, EngineFollows
<1>16. Unfinished' /\ StoppedIdle'
  BY <1>1 DEF EngineClear, Unfinished, StoppedIdle
<1> QED BY <1>8, <1>9, <1>13, <1>14, <1>15, <1>16
        DEF PacketsClear, EndsTaken, EngineClear

\* A request is posted on a list where nothing of an earlier one is left.
LEMMA ClearPost ==
    ASSUME Inv, ClearInv, NEW w \in Writers, Post(w), ~disturbed'
    PROVE  ClearInv'
<1> USE DEF ClearInv
<1> DEFINE i == postIndex
           x == pkt[w]
<1>1. /\ UNCHANGED <<dio, dios, evSts, todo, isrSts, snap, intr, errsts, taken>>
      /\ run' = TRUE
  BY DEF Post, mapping, handler, status
<1>2. /\ pc'[w] = "posted" /\ pc'[Isr] = pc[Isr] /\ pc[w] = "post"
      /\ \A v \in Writers : v # w => pc'[v] = pc[v]
  BY OthersStay DEF Post, Inv
<1>3. /\ x \in Pkt /\ x \notin Current /\ i \in Lists /\ dio[w] \in Dio
      /\ Items(actq') = Items(actq) \cup {x} /\ Items(actq) \subseteq Current
  BY <1>2, OwnPost, CurrentPackets
     DEF Inv, TypeInv, DriverOK, WritersMapped, LocalsOK
<1>4. /\ tag'[x] = i /\ dioReq'[x] = dio[w] /\ cbEvent'[x] = w
      /\ \A p \in Current : /\ tag'[p] = tag[p] /\ dioReq'[p] = dioReq[p]
                            /\ cbEvent'[p] = cbEvent[p]
  BY <1>3 DEF Post, PostTag, Inv, TypeInv, QueuesOK, Current
<1>5. ~InUse(i)
  BY DEF Post
<1>6. /\ \A p \in Items(actq) : tag[p] # i
      /\ i \notin Items(valid) /\ i \notin Items(todo) /\ i \notin errsts
      /\ \A e \in Endings : <<e, i>> \notin intr \ snap
  <2>1. ASSUME NEW p \in Items(actq), tag[p] = i PROVE FALSE
    <3>1. PICK k \in 1..Len(actq) : actq[k] = p
      BY ItemAt DEF Inv, TypeInv, QueuesOK
    <3>2. k \in Tagged(actq, tag, i)
      BY <2>1, <3>1 DEF Tagged
    <3> QED BY <1>5, <3>2 DEF InUse
  <2> QED BY <1>5, <2>1 DEF InUse
<1>7. pkt'[Isr] = pkt[Isr]
  <2>1. w # Isr /\ Isr \in Contexts
    BY TxAssumption DEF Contexts
  <2> QED BY <2>1 DEF Post, Hold, Inv, TypeInv, PlacesOK
<1>8. Current' = Current \cup {x}
  BY <1>2, <1>3, <1>7 DEF Current
<1>9. \A p \in Current : cbEvent[p] # w
  BY <1>2, NothingCurrent DEF PacketsClear, WaitLabels
<1> HIDE DEF x
<1>10. OwnersWait'
  <2>1. evSts[dio[w]] = "none"
    BY <1>2 DEF PacketsClear, Fresh, EarlyLabels
  <2>2. \A p \in Current :
            /\ cbEvent'[p] \in Writers /\ pc'[cbEvent'[p]] \in WaitLabels
            /\ dio'[cbEvent'[p]] = dioReq'[p] /\ evSts'[dioReq'[p]] = "none"
    BY <1>1, <1>2, <1>4, <1>9 DEF PacketsClear, OwnersWait
  <2>3. /\ cbEvent'[x] \in Writers /\ pc'[cbEvent'[x]] \in WaitLabels
        /\ dio'[cbEvent'[x]] = dioReq'[x] /\ evSts'[dioReq'[x]] = "none"
    BY <1>1, <1>2, <1>4, <2>1 DEF WaitLabels
  <2> QED BY <1>8, <2>2, <2>3 DEF OwnersWait
<1>11. OneEach'
  BY <1>4, <1>8, <1>9 DEF PacketsClear, OneEach
<1>12. OneOnList'
  BY <1>3, <1>4, <1>6 DEF PacketsClear, OneOnList
<1>13. Fresh'
  BY <1>1, <1>2 DEF PacketsClear, Fresh, EarlyLabels
<1>14. ActiveEnds'
  <2>1. \A p \in Items(actq) :
            \/ <<"done", tag'[p]>> \in intr' \ snap'
            \/ isrSts' = "ok" /\ tag'[p] \in Items(todo')
            => dioReq'[p] \in taken'
    BY <1>1, <1>3, <1>4 DEF EndsTaken, ActiveEnds
  <2>2. <<"done", tag'[x]>> \notin intr' \ snap'
    BY <1>1, <1>4, <1>6 DEF Inv, RunInv, Raised
  <2>3. tag'[x] \notin Items(todo')
    BY <1>1, <1>4, <1>6
  <2> QED BY <1>3, <2>1, <2>2, <2>3 DEF ActiveEnds
<1>15. CallEnds'
  BY <1>1, <1>2, <1>4, <1>7, CalledCurrent DEF EndsTaken, CallEnds
<1>16. StatusTrue' /\ SuccessTrue'
  BY <1>1, <1>2 DEF EndsTaken, StatusTrue, SuccessTrue
<1>17. /\ Items(valid') = Items(valid) \cup {i} /\ Items(valid) \subseteq Lists
       /\ target'[i] = dio[w] /\ \A j \in Lists : j # i => target'[j] = target[j]
  BY <1>3, ArmList, ItemTypes DEF Post, Inv, TypeInv, EngineOK, ValidTargeted
<1>18. EngineFollows'
  <2>1. ASSUME NEW j \in Items(valid)
        PROVE  \E p \in Items(actq') :
                   /\ tag'[p] = j /\ dioReq'[p] = target'[j]
                   /\ pc'[cbEvent'[p]] # "cancel"
    <3>1. PICK p \in Items(actq) : /\ tag[p] = j /\ dioReq[p] = target[j]
                                  /\ pc[cbEvent[p]] # "cancel"
      BY DEF EngineClear, EngineFollows
    <3>2. j # i /\ target'[j] = target[j] /\ p \in Current
      BY <1>3, <1>6, <1>17
    <3>3. pc'[cbEvent'[p]] # "cancel"
      BY <1>2, <1>4, <1>9, <3>1, <3>2, CurrentOwner
    <3> QED BY <1>3, <1>4, <3>1, <3>2, <3>3
  <2>2. /\ x \in Items(actq') /\ tag'[x] = i /\ dioReq'[x] = target'[i]
        /\ pc'[cbEvent'[x]] # "cancel"
    BY <1>2, <1>3, <1>4, <1>17
  <2> QED BY <1>17, <2>1, <2>2 DEF EngineFollows
<1>19. Unfinished'
  BY <1>1, <1>6, <1>17 DEF EngineClear, Unfinished
<1>20. StoppedIdle'
  BY <1>1 DEF StoppedIdle
<1> QED BY <1>10, <1>11, <1>12, <1>13, <1>14, <1>15, <1>16, <1>18, <1>19, <1>20
        DEF PacketsClear, EndsTaken, EngineClear

\* A cancellation that takes its own request's packet out of the active queue.
LEMMA ClearCancelFind ==
    ASSUME Inv, ClearInv, NEW w \in Writers, CancelFind(w), ~disturbed'
    PROVE  ClearInv'
<1> USE DEF ClearInv
<1>1. UNCHANGED <<tag, dioReq, cbEvent, dio, dios, evSts, todo, isrSts, snap, intr,
                  errsts, taken, valid, target, run, lock>>
  BY DEF CancelFind, mapping, handler, status, engine, locals, device, driver
<1>2. /\ pc'[w] = "cancel_put" /\ pc'[Isr] = pc[Isr] /\ pc[w] = "cancel"
      /\ \A v \in Writers : v # w => pc'[v] = pc[v]
  BY OthersStay DEF CancelFind, Inv
<1>3. PICK k \in 1..Len(actq) : /\ Hold(w, actq[k]) /\ actq' = RemoveAt(actq, k)
                                /\ Own(w) = {actq[k]}
  BY DEF CancelFind
<1> DEFINE x == actq[k]
<1>4. /\ x \in Pkt /\ Items(actq') = Items(actq) \ {x} /\ x \in Items(actq)
      /\ Items(actq) \subseteq Current
  <2>1. pkt[w] = NoPkt /\ w \in Contexts
    BY <1>2 DEF Contexts, Inv, TypeInv, PlacesOK, HoldersHold, HoldLabels
  <2>2. freeq' = freeq
    BY DEF CancelFind
  <2>3. x \in Pkt /\ Items(actq') = Items(actq) \ {x}
    BY <1>3, <2>1, <2>2, OwnTakeActive DEF Inv
  <2>4. x \in Items(actq)
    BY RemoveItem DEF Inv, TypeInv, QueuesOK
  <2> QED BY <2>3, <2>4, CurrentPackets DEF Inv
<1>5. cbEvent[x] = w
  <2>1. dioReq[x] = dio[w]
    BY <1>3 DEF Own
  <2> QED BY <1>4, <2>1, CurrentOwner
<1>6. pkt'[Isr] = pkt[Isr] /\ pkt[Isr] # x
  <2>1. w # Isr /\ Isr \in Contexts
    BY TxAssumption DEF Contexts
  <2> QED BY <1>3, <1>4, <2>1, CurrentPackets DEF Hold, Inv, TypeInv, PlacesOK
<1> HIDE DEF x
<1>7. Current' = Current \ {x}
  BY <1>2, <1>4, <1>6 DEF Current
<1>8. \A p \in Current : p # x => cbEvent[p] # w
  BY <1>4, <1>5 DEF PacketsClear, OneEach
<1>9. OwnersWait'
  BY <1>1, <1>2, <1>7, <1>8 DEF PacketsClear, OwnersWait
<1>10. OneEach' /\ OneOnList'
  BY <1>1, <1>4, <1>7 DEF PacketsClear, OneEach, OneOnList
<1>11. Fresh'
  BY <1>1, <1>2 DEF PacketsClear, Fresh, EarlyLabels
<1>12. ActiveEnds' /\ CallEnds'
  BY <1>1, <1>2, <1>4, <1>6 DEF EndsTaken, ActiveEnds, CallEnds
<1>13. StatusTrue' /\ SuccessTrue'
  BY <1>1, <1>2 DEF EndsTaken, StatusTrue, SuccessTrue
<1>14. EngineFollows'
  <2> SUFFICES ASSUME NEW i \in Items(valid)
               PROVE  \E p \in Items(actq') :
                          /\ tag[p] = i /\ dioReq[p] = target[i]
                          /\ pc'[cbEvent[p]] # "cancel"
    BY <1>1 DEF EngineFollows
  <2>1. PICK p \in Items(actq) : /\ tag[p] = i /\ dioReq[p] = target[i]
                                /\ pc[cbEvent[p]] # "cancel"
    BY DEF EngineClear, EngineFollows
  <2>2. p # x /\ p \in Current
    BY <1>2, <1>4, <1>5, <2>1
  <2>3. pc'[cbEvent[p]] # "cancel"
    BY <1>2, <1>8, <2>1, <2>2, CurrentOwner
  <2> QED BY <1>4, <2>1, <2>2, <2>3
<1>15. Unfinished' /\ StoppedIdle'
  BY <1>1 DEF EngineClear, Unfinished, StoppedIdle
<1> QED BY <1>9, <1>10, <1>11, <1>12, <1>13, <1>14, <1>15
        DEF PacketsClear, EndsTaken, EngineClear

\* A step of the interrupt handler that takes and calls no packet.
LEMMA ClearService ==
    ASSUME Inv, ClearInv, NEW l, Goto(Isr, l), l # "call", pc[Isr] # "call",
           UNCHANGED <<actq, dio, mapping, engine, lock, taken>>, SamePackets,
           ActiveEnds', Unfinished'
    PROVE  ClearInv'
<1> USE DEF ClearInv
<1>1. UNCHANGED <<dios, evSts, valid, target, run>>
  BY DEF mapping, engine
<1>2. pc'[Isr] = l /\ \A w \in Writers : pc'[w] = pc[w]
  BY HandlerStays DEF Inv
<1>3. Current' = Current /\ Items(actq) \subseteq Current
  BY <1>2, CurrentPackets DEF Current, Inv
<1>4. OwnersWait'
  BY <1>1, <1>2, <1>3 DEF PacketsClear, OwnersWait, SamePackets
<1>5. OneEach' /\ OneOnList'
  BY <1>3 DEF PacketsClear, OneEach, OneOnList, SamePackets
<1>6. Fresh'
  BY <1>1, <1>2 DEF PacketsClear, Fresh
<1>7. CallEnds' /\ StatusTrue' /\ SuccessTrue'
  BY <1>1, <1>2 DEF EndsTaken, CallEnds, StatusTrue, SuccessTrue
<1>8. EngineFollows'
  <2> SUFFICES ASSUME NEW i \in Items(valid)
               PROVE  \E p \in Items(actq) :
                          /\ tag'[p] = i /\ dioReq'[p] = target[i]
                          /\ pc'[cbEvent'[p]] # "cancel"
    BY <1>1 DEF EngineFollows
  <2>1. PICK p \in Items(actq) : /\ tag[p] = i /\ dioReq[p] = target[i]
                                /\ pc[cbEvent[p]] # "cancel"
    BY DEF EngineClear, EngineFollows
  <2>2. p \in Current
    BY <1>3
  <2>3. pc'[cbEvent[p]] # "cancel"
    BY <1>2, <2>1, <2>2, CurrentOwner
  <2> QED BY <2>1, <2>2, <2>3 DEF SamePackets
<1>9. StoppedIdle'
  BY <1>1 DEF EngineClear, StoppedIdle
<1> QED BY <1>4, <1>5, <1>6, <1>7, <1>8, <1>9
        DEF PacketsClear, EndsTaken, EngineClear

\* What is left to complete once a list is through was left before.
LEMMA TailItems ==
    ASSUME NEW q \in Seq(Lists)
    PROVE  Items(Tail(q)) \subseteq Items(q)
<1>1. CASE q = << >>
  <2>1. Tail(q) = << >>
    BY <1>1
  <2> QED BY <2>1, TupleItems
<1>2. CASE q # << >>
  <2> SUFFICES ASSUME NEW x \in Items(Tail(q)) PROVE x \in Items(q)
    OBVIOUS
  <2>1. /\ Tail(q) \in Seq(Lists) /\ Len(Tail(q)) = Len(q) - 1
        /\ \A i \in 1..Len(Tail(q)) : Tail(q)[i] = q[i + 1]
    BY <1>2, HeadTailProperties
  <2>2. PICK i \in 1..Len(Tail(q)) : Tail(q)[i] = x
    BY <2>1, ItemAt
  <2>3. i + 1 \in 1..Len(q) /\ q[i + 1] = x
    BY <2>1, <2>2, LenProperties
  <2> QED BY <2>3, ItemAt
<1> QED BY <1>1, <1>2

LEMMA ClearIsrEnter ==
    ASSUME Inv, ClearInv, IsrEnter PROVE ClearInv'
<1>1. /\ UNCHANGED <<actq, dio, mapping, engine, lock, taken, intr, errsts>>
      /\ SamePackets /\ snap' = intr /\ isrSts' = "ok" /\ snap = {}
      /\ Goto(Isr, "find") /\ pc[Isr] = "idle"
  BY DEF IsrEnter, queues, locals, driver, device, status, history, SamePackets,
         Inv, RunInv, IsrRested
<1>2. \A i \in Items(todo') : <<"done", i>> \in intr \ snap
  <2>1. {i \in Lists : <<"done", i>> \in intr} \subseteq Lists
    OBVIOUS
  <2>2. Items(todo') = {i \in Lists : <<"done", i>> \in intr}
    BY <2>1, InLists DEF IsrEnter
  <2> QED BY <1>1, <2>2
<1>3. Items(actq) \subseteq Current
  BY CurrentPackets DEF Inv
<1>4. ActiveEnds'
  BY <1>1, <1>2, <1>3 DEF ClearInv, EndsTaken, ActiveEnds, SamePackets
<1>5. Unfinished'
  <2>1. \A i : <<"done", i>> \in intr => "done" \in Endings
    BY DEF Inv, RunInv, Raised
  <2>2. UNCHANGED valid
    BY <1>1 DEF engine
  <2> QED BY <1>1, <1>2, <2>1, <2>2 DEF ClearInv, EngineClear, Unfinished
<1> QED BY <1>1, <1>4, <1>5, ClearService

LEMMA ClearIsrRest ==
    ASSUME Inv, ClearInv,
           IsrFindNone \/ IsrPut \/ IsrErrors \/ IsrReset \/ IsrAck
    PROVE  ClearInv'
<1>1. /\ UNCHANGED <<actq, dio, mapping, engine, lock, taken>>
      /\ pc[Isr] # "call" /\ \E l : Goto(Isr, l) /\ l # "call"
  BY DEF IsrFindNone, IsrPut, IsrErrors, IsrReset, IsrAck, Handled, queues, locals,
         driver, device, history
<1>2. PICK l : Goto(Isr, l) /\ l # "call"
  BY <1>1
<1>3. Items(actq) \subseteq Current
  BY CurrentPackets DEF Inv
<1>4. SamePackets
  <2>1. CASE IsrPut
    <3>1. pkt[Isr] \notin Current /\ Current \subseteq Pkt
      BY <1>1, CurrentPackets DEF Inv, Current
    <3>2. cbEvent \in [Pkt -> Writers \cup {NoWriter}]
          /\ dioReq \in [Pkt -> Dio \cup {NoDio}]
          /\ tag \in [Pkt -> Lists \cup {NoTag}]
      BY DEF Inv, TypeInv, QueuesOK
    <3> QED BY <2>1, <3>1, <3>2 DEF IsrPut, PutFree, SamePackets
  <2>2. CASE ~IsrPut
    BY <2>2 DEF IsrFindNone, IsrErrors, IsrReset, IsrAck, queues, SamePackets
  <2> QED BY <2>1, <2>2
<1>5. intr' \ snap' \subseteq intr \ snap /\ errsts' \subseteq errsts
  BY DEF IsrFindNone, IsrPut, IsrErrors, IsrReset, IsrAck, handler, device, status
<1>6. \/ isrSts' = isrSts /\ Items(todo') \subseteq Items(todo)
      \/ isrSts' = "error" /\ Items(todo') = errsts
      \/ Items(todo') = {}
  <2>1. CASE IsrFindNone \/ IsrPut
    BY <2>1, TailItems DEF IsrFindNone, IsrPut, Inv, TypeInv, HandlerOK
  <2>2. CASE IsrErrors
    BY <2>2, InLists DEF IsrErrors, Inv, TypeInv, StatusOK
  <2>3. CASE IsrReset
    BY <2>3 DEF IsrReset, handler
  <2>4. CASE IsrAck
    BY <2>4, TupleItems DEF IsrAck
  <2> QED BY <2>1, <2>2, <2>3, <2>4
<1>7. ActiveEnds'
  BY <1>1, <1>3, <1>4, <1>5, <1>6 DEF ClearInv, EndsTaken, ActiveEnds, SamePackets
<1>8. Unfinished'
  BY <1>1, <1>5, <1>6 DEF ClearInv, EngineClear, Unfinished, engine
<1> QED BY <1>1, <1>2, <1>4, <1>7, <1>8, ClearService

\* The handler takes the packet of a list that it has to complete.
LEMMA ClearIsrFind ==
    ASSUME Inv, ClearInv, IsrFind PROVE ClearInv'
<1> USE DEF ClearInv
<1>1. UNCHANGED <<tag, dioReq, cbEvent, dio, dios, evSts, todo, isrSts, snap, intr,
                  errsts, taken, valid, target, run, lock, freeq>>
  BY DEF IsrFind, mapping, handler, status, engine, locals, device, driver, history
<1>2. /\ pc'[Isr] = "call" /\ pc[Isr] = "find"
      /\ \A w \in Writers : pc'[w] = pc[w]
  BY HandlerStays DEF IsrFind, Inv
<1>3. PICK k \in 1..Len(actq) :
          /\ Hold(Isr, actq[k]) /\ actq' = RemoveAt(actq, k)
          /\ IsFirstTagged(actq, tag, Head(todo), k)
  BY DEF IsrFind
<1> DEFINE x == actq[k]
<1>4. Isr \in Contexts /\ pkt[Isr] = NoPkt
  BY <1>2 DEF Contexts, Inv, TypeInv, PlacesOK, HoldersHold, HoldLabels
<1>5. /\ x \in Pkt /\ Items(actq') = Items(actq) \ {x} /\ x \in Items(actq)
      /\ Items(actq) \subseteq Current
  <2>1. x \in Pkt /\ Items(actq') = Items(actq) \ {x}
    BY <1>1, <1>3, <1>4, OwnTakeActive DEF Inv
  <2>2. x \in Items(actq)
    BY RemoveItem DEF Inv, TypeInv, QueuesOK
  <2> QED BY <2>1, <2>2, CurrentPackets DEF Inv
<1>6. tag[x] \in Items(todo)
  <2>1. tag[x] = Head(todo)
    BY <1>3 DEF IsFirstTagged, Tagged
  <2>2. Head(todo) \in Items(todo)
    BY FetchItem DEF IsrFind, DioqHead, Inv, TypeInv, HandlerOK
  <2> QED BY <2>1, <2>2
<1>7. pkt'[Isr] = x
  BY <1>3, <1>4 DEF Hold, Inv, TypeInv, PlacesOK
<1> HIDE DEF x
<1>8. Current' = Current
  BY <1>2, <1>5, <1>7 DEF Current
<1>9. OwnersWait'
  BY <1>1, <1>2, <1>8 DEF PacketsClear, OwnersWait
<1>10. OneEach' /\ OneOnList'
  BY <1>1, <1>5, <1>8 DEF PacketsClear, OneEach, OneOnList
<1>11. Fresh'
  BY <1>1, <1>2 DEF PacketsClear, Fresh
<1>12. ActiveEnds' /\ CallEnds'
  BY <1>1, <1>5, <1>6, <1>7 DEF EndsTaken, ActiveEnds, CallEnds
<1>13. StatusTrue' /\ SuccessTrue'
  BY <1>1, <1>2 DEF EndsTaken, StatusTrue, SuccessTrue
<1>14. EngineFollows'
  <2> SUFFICES ASSUME NEW i \in Items(valid)
               PROVE  \E p \in Items(actq') :
                          /\ tag[p] = i /\ dioReq[p] = target[i]
                          /\ pc'[cbEvent[p]] # "cancel"
    BY <1>1 DEF EngineFollows
  <2>1. PICK p \in Items(actq) : /\ tag[p] = i /\ dioReq[p] = target[i]
                                /\ pc[cbEvent[p]] # "cancel"
    BY DEF EngineClear, EngineFollows
  <2>2. p # x /\ p \in Current
    BY <1>5, <1>6, <2>1 DEF EngineClear, Unfinished
  <2>3. pc'[cbEvent[p]] # "cancel"
    BY <1>2, <2>1, <2>2, CurrentOwner
  <2> QED BY <1>5, <2>1, <2>2, <2>3
<1>15. Unfinished' /\ StoppedIdle'
  BY <1>1 DEF EngineClear, Unfinished, StoppedIdle
<1> QED BY <1>9, <1>10, <1>11, <1>12, <1>13, <1>14, <1>15
        DEF PacketsClear, EndsTaken, EngineClear

\* The callback writes the status of the packet's own request.
LEMMA ClearIsrCall ==
    ASSUME Inv, ClearInv, IsrCall PROVE ClearInv'
<1> USE DEF ClearInv
<1>1. UNCHANGED <<actq, tag, dioReq, cbEvent, dio, dios, todo, isrSts, snap, intr,
                  errsts, taken, valid, target, run, lock, pkt>>
  BY DEF IsrCall, queues, handler, status, engine, locals, device, driver, history
<1>2. /\ pc'[Isr] = "put" /\ pc[Isr] = "call"
      /\ \A w \in Writers : pc'[w] = pc[w]
  BY HandlerStays DEF IsrCall, Inv
<1> DEFINE x == pkt[Isr]
           d == dioReq[x]
<1>3. /\ x \in Current /\ x \notin Items(actq) /\ Items(actq) \subseteq Current
  BY <1>2, CalledCurrent, CurrentPackets DEF Inv
<1>4. Current' = Items(actq)
  BY <1>1, <1>2, <1>3 DEF Current
<1>5. d \in Dio /\ \A e \in Dio : evSts'[e] = IF e = d THEN isrSts ELSE evSts[e]
  BY <1>3, CurrentOwner DEF IsrCall, Inv, TypeInv, MappingOK
<1>6. \A p \in Items(actq) : dioReq[p] # d /\ dioReq[p] \in Dio
  BY <1>3, CurrentOwner DEF PacketsClear, OneEach
<1>7. /\ d \notin dios
      /\ \A w \in Writers : pc[w] \in EarlyLabels => dio[w] # d
  BY <1>3, CurrentOwner DEF EarlyLabels, WaitLabels
<1>8. isrSts = "ok" => d \in taken
  BY <1>2 DEF EndsTaken, CallEnds
<1> HIDE DEF x, d
<1>9. OwnersWait'
  BY <1>1, <1>2, <1>3, <1>4, <1>5, <1>6 DEF PacketsClear, OwnersWait
<1>10. OneEach' /\ OneOnList'
  BY <1>1, <1>3, <1>4 DEF PacketsClear, OneEach, OneOnList
<1>11. Fresh'
  <2>1. \A w \in Writers : pc[w] \in EarlyLabels => dio[w] \in Dio
    BY DEF Inv, TypeInv, WritersMapped, LocalsOK, EarlyLabels
  <2>2. dios \subseteq Dio
    BY DEF Inv, TypeInv, MappingOK
  <2> QED BY <1>1, <1>2, <1>5, <1>7, <2>1, <2>2 DEF PacketsClear, Fresh
<1>12. ActiveEnds' /\ CallEnds'
  BY <1>1, <1>2 DEF EndsTaken, ActiveEnds, CallEnds
<1>13. StatusTrue' /\ SuccessTrue'
  BY <1>1, <1>2, <1>5, <1>8 DEF EndsTaken, StatusTrue, SuccessTrue
<1>14. EngineFollows'
  BY <1>1, <1>2, <1>3, CurrentOwner DEF EngineClear, EngineFollows
<1>15. Unfinished' /\ StoppedIdle'
  BY <1>1 DEF EngineClear, Unfinished, StoppedIdle
<1> QED BY <1>9, <1>10, <1>11, <1>12, <1>13, <1>14, <1>15
        DEF PacketsClear, EndsTaken, EngineClear

-----------------------------------------------------------------------------
\* The device ends a transfer of a list that was last completed, or stops.
LEMMA ClearEngine ==
    ASSUME Inv, ClearInv, HwStep \/ Flush \/ UNCHANGED vars, ~disturbed'
    PROVE  ClearInv'
<1> USE DEF ClearInv
<1>1. UNCHANGED <<actq, tag, dioReq, cbEvent, dio, dios, evSts, todo, isrSts, snap,
                  pc, run, lock, pkt>>
  BY DEF HwStep, HwEnd, HwHalt, HwDrain, Flush, vars, queues, mapping, locals,
         handler, engine, driver, device
<1>2. Current' = Current /\ Items(actq') = Items(actq)
  BY <1>1 DEF Current
<1>3. PacketsClear'
  BY <1>1, <1>2 DEF PacketsClear, OwnersWait, OneEach, OneOnList, Fresh
<1>4. taken \subseteq taken'
  BY DEF HwStep, HwEnd, HwHalt, HwDrain, Flush, vars, history
<1>5. CallEnds' /\ StatusTrue' /\ SuccessTrue'
  BY <1>1, <1>4 DEF EndsTaken, CallEnds, StatusTrue, SuccessTrue
<1>6. CASE \E ending \in Endings : HwEnd(ending)
  <2>1. PICK ending \in Endings : HwEnd(ending)
    BY <1>6
  <2> DEFINE i == Head(valid)
  <2>2. /\ valid # << >> /\ intr' = intr \cup {<<ending, i>>}
        /\ errsts' = IF ending = "error" THEN errsts \cup {i} ELSE errsts
        /\ ending = "done" => target[i] \in taken'
        /\ \A e \in Endings : <<e, i>> \notin intr
        /\ valid' = Tail(valid) /\ target' = [target EXCEPT ![i] = NoDio]
    BY <2>1 DEF HwEnd
  <2>3. i \in Lists /\ i \in Items(valid) /\ Items(valid') = Items(valid) \ {i}
    BY <2>2, FetchItem
       DEF Inv, TypeInv, EngineOK, ValidTargeted, DioqHead, DioqFetch
  <2>4. \A j : j # i => (j \in Lists => target'[j] = target[j])
    BY <2>2 DEF Inv, TypeInv, EngineOK
  <2> HIDE DEF i
  <2>5. ActiveEnds'
    <3> SUFFICES ASSUME NEW p \in Items(actq),
                        \/ <<"done", tag[p]>> \in intr' \ snap
                        \/ isrSts = "ok" /\ tag[p] \in Items(todo)
                 PROVE  dioReq[p] \in taken'
      BY <1>1 DEF ActiveEnds
    <3>1. CASE \/ <<"done", tag[p]>> \in intr \ snap
               \/ isrSts = "ok" /\ tag[p] \in Items(todo)
      BY <1>4, <3>1 DEF EndsTaken, ActiveEnds
    <3>2. CASE ending = "done" /\ tag[p] = i
      <4>1. PICK q \in Items(actq) : tag[q] = i /\ dioReq[q] = target[i]
        BY <2>3 DEF EngineClear, EngineFollows
      <4>2. q = p
        BY <3>2, <4>1 DEF PacketsClear, OneOnList
      <4> QED BY <2>2, <3>2, <4>1, <4>2
    <3> QED BY <2>2, <3>1, <3>2
  <2>6. EngineFollows'
    <3>1. Items(valid) \subseteq Lists
      BY ItemTypes DEF Inv, TypeInv, EngineOK
    <3> QED BY <1>1, <2>3, <2>4, <3>1 DEF EngineClear, EngineFollows
  <2>7. Unfinished'
    <3> SUFFICES ASSUME NEW j \in Items(valid), j # i
                 PROVE  /\ j \notin Items(todo) /\ j \notin errsts'
                        /\ \A e \in Endings : <<e, j>> \notin intr' \ snap
      BY <1>1, <2>3 DEF Unfinished
    <3> QED BY <2>2 DEF EngineClear, Unfinished
  <2>8. StoppedIdle'
    BY <1>1, <2>2 DEF EngineClear, StoppedIdle
  <2> QED BY <1>3, <1>5, <2>5, <2>6, <2>7, <2>8 DEF EndsTaken, EngineClear
<1>7. CASE ~\E ending \in Endings : HwEnd(ending)
  <2>1. UNCHANGED <<intr, errsts, taken>>
    BY <1>7 DEF HwStep, HwHalt, HwDrain, Flush, vars, history, device, status
  <2>2. ActiveEnds'
    BY <1>1, <2>1 DEF EndsTaken, ActiveEnds
  <2>3. EngineClear'
    <3>1. CASE HwHalt
      BY <3>1, TupleItems
         DEF HwHalt, EngineClear, EngineFollows, Unfinished, StoppedIdle
    <3>2. CASE ~HwHalt
      <4>1. UNCHANGED <<valid, target>>
        BY <1>7, <3>2 DEF HwStep, HwDrain, Flush, vars, device, engine
      <4> QED BY <1>1, <2>1, <4>1
              DEF EngineClear, EngineFollows, Unfinished, StoppedIdle
    <3> QED BY <3>1, <3>2
  <2> QED BY <1>3, <1>5, <2>2, <2>3 DEF EndsTaken
<1> QED BY <1>6, <1>7

LEMMA ClearStep ==
    ASSUME Inv, ClearInv, [Next]_vars, ~disturbed' PROVE ClearInv'
<1>1. CASE HwStep \/ Flush \/ UNCHANGED vars
  BY <1>1, ClearEngine
<1>2. CASE IsrStep
  BY <1>2, ClearIsrEnter, ClearIsrRest, ClearIsrFind, ClearIsrCall DEF IsrStep
<1>3. ASSUME NEW w \in Writers, WriterStep(w) PROVE ClearInv'
  BY <1>3, ClearBefore, ClearWait, ClearCancel, ClearMap, ClearPost,
     ClearCancelFind DEF WriterStep, PostStep, CancelStep
<1> QED BY <1>1, <1>2, <1>3 DEF Next, WriterStep

LEMMA DisturbedStays ==
    ASSUME Inv, disturbed, [Next]_vars PROVE disturbed'
<1>1. ASSUME NEW w \in Writers, WriterStep(w) PROVE disturbed'
  <2>1. CASE PostStep(w)
    BY <2>1 DEF PostStep, Check, CodeinCancelled, CodeinSlept, FetchFree,
                FetchNone, Post, Posted, history
  <2>2. CASE CancelStep(w) \/ Stop(w)
    BY <2>2 DEF CancelStep, Stop, StopIdle, StopBegin, StopDone, StopFail,
                CancelFind, CancelNone, CancelPut, history
  <2>3. CASE ~PostStep(w) /\ ~CancelStep(w) /\ ~Stop(w)
    BY <1>1, <2>3 DEF WriterStep, Begin, XlatFail, WaitStep, WaitDone,
                WaitTimeout, WaitSignal, Unmap, history
  <2> QED BY <2>1, <2>2, <2>3
<1>2. CASE IsrStep \/ HwStep \/ Flush \/ UNCHANGED vars
  BY <1>2 DEF IsrStep, IsrEnter, IsrFind, IsrFindNone, IsrCall, IsrPut, IsrErrors,
              IsrReset, IsrAck, HwStep, HwEnd, HwHalt, HwDrain, Flush, vars,
              history
<1> QED BY <1>1, <1>2 DEF Next, WriterStep

LEMMA ClearInit ==
    ASSUME Init PROVE ClearInv
<1>1. /\ Items(actq) = {} /\ Items(valid) = {} /\ Items(todo) = {}
      /\ pc[Isr] = "idle" /\ \A w \in Writers : pc[w] = "idle"
  BY TupleItems DEF Init, Contexts
<1>2. Current = {}
  BY <1>1 DEF Current
<1>3. PacketsClear
  BY <1>1, <1>2
     DEF Init, PacketsClear, OwnersWait, OneEach, OneOnList, Fresh, EarlyLabels
<1>4. EndsTaken
  BY <1>1 DEF Init, EndsTaken, ActiveEnds, CallEnds, StatusTrue, SuccessTrue
<1>5. EngineClear
  BY <1>1 DEF Init, EngineClear, EngineFollows, Unfinished, StoppedIdle
<1> QED BY <1>3, <1>4, <1>5 DEF ClearInv

LEMMA InvHolds == Spec => []Inv
BY TypesHold, OwnHolds, RunHolds, PTL DEF Inv

LEMMA ClearHolds == Spec => [](disturbed \/ ClearInv)
<1>1. Init => disturbed \/ ClearInv
  BY ClearInit
<1>2. Inv /\ (disturbed \/ ClearInv) /\ [Next]_vars => (disturbed \/ ClearInv)'
  BY ClearStep, DisturbedStays
<1> QED BY <1>1, <1>2, InvHolds, PTL DEF Spec

\* An ioctl that reports success has had its own data taken by the device, for
\* any number of writers that share the two lists, with time-outs, signals and
\* failed transfers, as long as no request was disturbed.
THEOREM SuccessIsTrue == Spec => []TrueCompletion
<1>1. disturbed \/ ClearInv => TrueCompletion
  BY DEF ClearInv, EndsTaken, SuccessTrue, TrueCompletion
<1> QED BY <1>1, ClearHolds, PTL

\* The engine reads no page of a request whose writer has gone: the writer of an
\* armed list is still to stop the engine.
THEOREM EngineReadsWaiting == Spec => []EngineReadsMapped
<1>1. ASSUME Inv, ClearInv, NEW k \in 1..Len(valid)
      PROVE  \E w \in Writers : /\ dio[w] = target[valid[k]]
                                /\ pc[w] \in {"posted", "wait", "stop", "stopping"}
  <2>1. valid[k] \in Items(valid)
    BY <1>1, ItemAt DEF Inv, TypeInv, EngineOK
  <2>2. PICK p \in Items(actq) : /\ dioReq[p] = target[valid[k]]
                                /\ pc[cbEvent[p]] # "cancel"
    BY <1>1, <2>1 DEF ClearInv, EngineClear, EngineFollows
  <2>3. p \in Current
    BY <1>1, CurrentPackets DEF Inv
  <2> QED BY <1>1, <2>2, <2>3, CurrentOwner DEF WaitLabels
<1>2. Inv /\ (disturbed \/ ClearInv) => EngineReadsMapped
  BY <1>1 DEF EngineReadsMapped
<1> QED BY <1>2, InvHolds, ClearHolds, PTL

-----------------------------------------------------------------------------
(***************************************************************************)
(* Room in the input buffer.  Each writer who found room keeps it until    *)
(* its transfer is over: the threshold must be more than what all the      *)
(* others may have found room for at the same time.                        *)
(***************************************************************************)
Sent == {w \in Writers : pc[w] \in {"fetch", "post"}}
Load == Cardinality(Sent) + Len(valid)
RoomKept == level + XferSize * Load < FifoSize
RoomForOthers ==
    /\ IsFiniteSet(Writers) /\ FifoSize > 0
    /\ XferSize * (Cardinality(Writers) - 1) < Threshold

\* What the writers of armed lists and those about to post add up to.
LEMMA LoadTypes ==
    ASSUME RoomForOthers, Inv
    PROVE  /\ IsFiniteSet(Sent) /\ Cardinality(Sent) \in Nat /\ Len(valid) \in Nat
           /\ Load \in Nat /\ level \in Nat
           /\ Cardinality(Writers) \in Nat
<1>1. IsFiniteSet(Sent) /\ Cardinality(Sent) \in Nat /\ Cardinality(Writers) \in Nat
  BY FS_Subset, FS_CardinalityType DEF Sent, RoomForOthers
<1>2. Len(valid) \in Nat /\ level \in Nat
  BY LenProperties, TxAssumption DEF Inv, TypeInv, EngineOK, LevelOK
<1> QED BY <1>1, <1>2 DEF Load

\* Each armed list has a writer of its own, who is neither about to post nor to
\* look for room.
LEMMA LoadBound ==
    ASSUME RoomForOthers, Inv, ClearInv, NEW w \in Writers, pc[w] = "check"
    PROVE  Load + 1 <= Cardinality(Writers)
<1> DEFINE P == Sent \cup {w}
           D == 1..Len(valid)
           Sender(k) == CHOOSE p \in Items(actq) : tag[p] = valid[k]
           g == [k \in D |-> cbEvent[Sender(k)]]
<1>1. /\ IsFiniteSet(Sent) /\ w \notin Sent /\ IsFiniteSet(Writers)
      /\ Len(valid) \in Nat
  BY LoadTypes DEF Sent, RoomForOthers
<1>2. IsFiniteSet(P) /\ Cardinality(P) = Cardinality(Sent) + 1
  BY <1>1, FS_AddElement
<1>3. ASSUME NEW k \in D
      PROVE  Sender(k) \in Items(actq) /\ tag[Sender(k)] = valid[k]
  <2>1. valid[k] \in Items(valid)
    BY ItemAt DEF Inv, TypeInv, EngineOK
  <2>2. \E p \in Items(actq) : tag[p] = valid[k]
    BY <2>1 DEF ClearInv, EngineClear, EngineFollows
  <2> QED BY <2>2
<1>4. Items(actq) \subseteq Current
  BY CurrentPackets DEF Inv
<1> HIDE DEF Sender
<1>5. \A k \in D : cbEvent[Sender(k)] \in Writers \ P
  BY <1>3, <1>4, CurrentOwner DEF Sent, WaitLabels
<1>6. \A j, k \in D : cbEvent[Sender(j)] = cbEvent[Sender(k)] => j = k
  <2> SUFFICES ASSUME NEW j \in D, NEW k \in D,
                      cbEvent[Sender(j)] = cbEvent[Sender(k)]
               PROVE  j = k
    OBVIOUS
  <2>1. Sender(j) = Sender(k)
    BY <1>3, <1>4 DEF ClearInv, PacketsClear, OneEach
  <2>2. valid[j] = valid[k]
    BY <1>3, <2>1
  <2> QED BY <2>2 DEF Inv, TypeInv, EngineOK, ValidTargeted, NoRepeats
<1>7. IsFiniteSet(Writers \ P) /\ Writers \ P \in SUBSET Writers
  BY <1>1, FS_Subset
<1>8. Len(valid) <= Cardinality(Writers \ P)
  <2>1. g \in [D -> Writers \ P]
    BY <1>5
  <2>2. \A j, k \in D : g[j] = g[k] => j = k
    BY <1>6
  <2> HIDE DEF g, D
  <2>3. g \in Injection(D, Writers \ P)
    BY <2>1, <2>2 DEF Injection, IsInjective
  <2>4. Cardinality(D) <= Cardinality(Writers \ P)
    BY <1>7, <2>3, FS_Injection
  <2>5. Cardinality(D) = Len(valid)
    <3>1. Cardinality(1..Len(valid)) = Len(valid)
      <4> DEFINE n == Len(valid)
      <4>1. n \in Nat
        BY <1>1
      <4> HIDE DEF n
      <4>2. Cardinality(1..n) = n
        BY <4>1, FS_Interval
      <4> QED BY <4>2 DEF n
    <3> QED BY <3>1 DEF D
  <2> QED BY <2>4, <2>5
<1>9. Cardinality(Writers) = Cardinality(P) + Cardinality(Writers \ P)
  <2>1. P \cup (Writers \ P) = Writers /\ P \cap (Writers \ P) = {}
    BY DEF Sent
  <2> HIDE DEF P
  <2>2. Cardinality(P \cup (Writers \ P)) =
        Cardinality(P) + Cardinality(Writers \ P) - Cardinality(P \cap (Writers \ P))
    BY <1>2, <1>7, FS_Union
  <2>3. Cardinality(P \cap (Writers \ P)) = 0
    BY <2>1, FS_EmptySet
  <2>4. Cardinality(P) \in Nat /\ Cardinality(Writers \ P) \in Nat
    BY <1>2, <1>7, FS_CardinalityType
  <2>5. Cardinality(P \cup (Writers \ P)) = Cardinality(Writers)
    BY <2>1, Zenon
  <2> QED BY <2>2, <2>3, <2>4, <2>5
<1>10. Cardinality(Sent) \in Nat /\ Cardinality(Writers \ P) \in Nat
  BY <1>1, <1>7, FS_CardinalityType
<1> QED BY <1>1, <1>2, <1>8, <1>9, <1>10 DEF Load

\* The load as a product, and a smaller load.
LEMMA Products ==
    ASSUME NEW n \in Nat, NEW m \in Nat
    PROVE  /\ XferSize * n \in Nat
           /\ XferSize * (n + 1) = XferSize * n + XferSize
           /\ m <= n => XferSize * m <= XferSize * n
<1>1. XferSize \in Nat
  BY TxAssumption
<1>2. m <= n => XferSize * m <= XferSize * n
  <2> SUFFICES ASSUME m <= n PROVE XferSize * m <= XferSize * n
    OBVIOUS
  <2>1. n - m \in Nat /\ n = m + (n - m)
    OBVIOUS
  <2>2. XferSize * n = XferSize * m + XferSize * (n - m)
    BY <1>1, <2>1
  <2>3. XferSize * (n - m) >= 0
    BY <1>1, <2>1
  <2> QED BY <1>1, <2>2, <2>3
<1> QED BY <1>1, <1>2

\* A step that adds to neither.
LEMMA LoadShrinks ==
    ASSUME RoomForOthers, Inv, Inv', RoomKept, Load' <= Load, level' <= level
    PROVE  RoomKept'
<1>1. Load \in Nat /\ level \in Nat
  BY LoadTypes
<1>2. Load' \in Nat /\ level' \in Nat
  <2>1. IsFiniteSet(Sent') /\ Cardinality(Sent') \in Nat
    BY FS_Subset, FS_CardinalityType DEF Sent, RoomForOthers
  <2>2. Len(valid') \in Nat /\ level' \in Nat
    BY LenProperties, TxAssumption DEF Inv, TypeInv, EngineOK, LevelOK
  <2> QED BY <2>1, <2>2 DEF Load
<1>3. /\ XferSize * Load' <= XferSize * Load
      /\ XferSize * Load \in Nat /\ XferSize * Load' \in Nat
  BY <1>1, <1>2, Products
<1>4. FifoSize \in Nat
  BY TxAssumption
<1> QED BY <1>1, <1>2, <1>3, <1>4 DEF RoomKept

\* Whoever finds room finds it for itself and for everybody else.
LEMMA RoomCheck ==
    ASSUME RoomForOthers, Inv, ClearInv, RoomKept, NEW w \in Writers, Check(w)
    PROVE  RoomKept'
<1>1. /\ pc[w] = "check" /\ UNCHANGED <<valid, level>>
      /\ Goto(w, IF InputFree THEN "fetch" ELSE "busy")
  BY DEF Check, device, engine
<1>2. Load \in Nat /\ level \in Nat /\ Cardinality(Writers) \in Nat
      /\ IsFiniteSet(Sent) /\ Cardinality(Sent) \in Nat /\ Len(valid) \in Nat
  BY LoadTypes
<1>3. /\ FifoSize \in Nat /\ XferSize \in Nat /\ Threshold \in Nat
      /\ FifoSize > 0 /\ XferSize * (Cardinality(Writers) - 1) < Threshold
  BY TxAssumption DEF RoomForOthers
<1>4. CASE InputFree
  <2>1. Sent' = Sent \cup {w} /\ w \notin Sent
    BY <1>1, <1>4, OthersStay DEF Sent, Inv
  <2>2. Cardinality(Sent') = Cardinality(Sent) + 1
    BY <1>2, <2>1, FS_AddElement
  <2>3. Load' = Load + 1 /\ Load + 1 <= Cardinality(Writers)
    BY <1>1, <1>2, <2>2, LoadBound DEF Load
  <2>4. level < FifoSize
    BY <1>2, <1>3, Products DEF RoomKept
  <2>5. Fullness = level
    BY <1>2, <1>3, <2>4 DEF Fullness
  <2>6. XferSize <= FifoSize - level - Threshold
    BY <1>4, <2>5 DEF InputFree, Room
  <2>7. /\ XferSize * Load \in Nat /\ XferSize * (Load + 1) = XferSize * Load + XferSize
        /\ XferSize * Load <= XferSize * (Cardinality(Writers) - 1)
    <3>1. Cardinality(Writers) - 1 \in Nat /\ Load <= Cardinality(Writers) - 1
      BY <1>2, <2>3
    <3> QED BY <1>2, <3>1, Products
  <2>8. XferSize * (Cardinality(Writers) - 1) \in Int
    BY <1>2, <1>3
  <2>9. XferSize * Load < Threshold
    BY <1>3, <2>7, <2>8
  <2> HIDE DEF Load
  <2>10. level + XferSize * (Load + 1) < FifoSize
    BY <1>2, <1>3, <2>6, <2>7, <2>9
  <2> QED BY <1>1, <2>3, <2>10 DEF RoomKept
<1>5. CASE ~InputFree
  <2>1. Sent' = Sent
    BY <1>1, <1>5, OthersStay DEF Sent, Inv
  <2> QED BY <1>1, <2>1 DEF RoomKept, Load
<1> QED BY <1>4, <1>5

\* A post, and the end of a transfer, carry the load on.
LEMMA RoomPost ==
    ASSUME RoomForOthers, Inv, RoomKept, NEW w \in Writers, Post(w), ~disturbed'
    PROVE  RoomKept'
<1>1. IsFiniteSet(Sent) /\ Cardinality(Sent) \in Nat /\ Len(valid) \in Nat
  BY LoadTypes
<1>2. Sent' = Sent \ {w} /\ w \in Sent
  BY OthersStay DEF Post, Sent, Inv
<1>3. Cardinality(Sent') = Cardinality(Sent) - 1
  BY <1>1, <1>2, FS_RemoveElement
<1>4. Len(valid') = Len(valid) + 1
  <2>1. postIndex \notin Items(valid) /\ postIndex \in Lists
    BY DEF Post, InUse, Inv, TypeInv, DriverOK
  <2>2. valid' = Append(valid, postIndex)
    BY <2>1, ArmList DEF Post, Inv, TypeInv, EngineOK, ValidTargeted
  <2> QED BY <2>1, <2>2, AppendProperties DEF Inv, TypeInv, EngineOK
<1>5. Load' = Load
  BY <1>1, <1>3, <1>4 DEF Load
<1>6. level' = level
  BY DEF Post
<1> QED BY <1>5, <1>6 DEF RoomKept

LEMMA RoomEnd ==
    ASSUME RoomForOthers, Inv, Inv', RoomKept, NEW ending \in Endings, HwEnd(ending)
    PROVE  RoomKept'
<1>1. /\ Cardinality(Sent) \in Nat /\ Len(valid) \in Nat /\ level \in Nat
      /\ Load \in Nat
  BY LoadTypes
<1>2. Sent' = Sent
  BY DEF HwEnd, Sent
<1>3. Len(valid') = Len(valid) - 1 /\ Len(valid) > 0
  BY HeadTailProperties, EmptySeq DEF HwEnd, Inv, TypeInv, EngineOK
<1>4. Load' = Load - 1 /\ Load - 1 \in Nat
  BY <1>1, <1>2, <1>3 DEF Load
<1>5. CASE ending = "done"
  <2>1. level' = level + XferSize
    BY <1>5 DEF HwEnd
  <2>2. XferSize * ((Load - 1) + 1) = XferSize * (Load - 1) + XferSize
        /\ XferSize * (Load - 1) \in Nat
    BY <1>4, Products
  <2>3. (Load - 1) + 1 = Load /\ XferSize \in Nat /\ FifoSize \in Nat
    BY <1>1, TxAssumption
  <2>4. level + XferSize * Load < FifoSize
    BY DEF RoomKept
  <2> HIDE DEF Load
  <2>5. (level + XferSize) + XferSize * (Load - 1) < FifoSize
    BY <1>1, <2>2, <2>3, <2>4
  <2> QED BY <1>4, <2>1, <2>5 DEF RoomKept
<1>6. CASE ending # "done"
  <2>1. level' = level
    BY <1>6 DEF HwEnd
  <2> QED BY <1>1, <1>4, <2>1, LoadShrinks
<1> QED BY <1>5, <1>6

LEMMA RoomStep ==
    ASSUME RoomForOthers, Inv, Inv', ClearInv, RoomKept, [Next]_vars, ~disturbed'
    PROVE  RoomKept'
<1> USE DEF Inv
<1>1. Cardinality(Sent) \in Nat /\ IsFiniteSet(Sent) /\ Len(valid) \in Nat
      /\ level \in Nat
  BY LoadTypes
<1>2. ASSUME Sent' \subseteq Sent, level' <= level, valid' = valid \/ valid' = << >>
      PROVE  RoomKept'
  <2>1. Cardinality(Sent') <= Cardinality(Sent) /\ Cardinality(Sent') \in Nat
    BY <1>1, <1>2, FS_Subset, FS_CardinalityType
  <2>2. Len(valid') \in Nat /\ Len(valid') <= Len(valid)
    BY <1>1, <1>2
  <2>3. Load' <= Load
    BY <1>1, <2>1, <2>2 DEF Load
  <2> QED BY <1>2, <2>3, LoadShrinks
<1>3. CASE \E w \in Writers : Check(w) \/ Post(w)
  BY <1>3, RoomCheck, RoomPost
<1>4. CASE \E w \in Writers : WriterStep(w) /\ ~Check(w) /\ ~Post(w)
  <2>1. PICK w \in Writers : WriterStep(w) /\ ~Check(w) /\ ~Post(w)
    BY <1>4
  <2>2. /\ UNCHANGED <<level, valid>>
        /\ \E l : Goto(w, l) /\ (l \in {"fetch", "post"} => pc[w] = "fetch")
    BY <2>1 DEF WriterStep, Begin, PostStep, CodeinCancelled, CodeinSlept,
         FetchFree, FetchNone, Posted, XlatFail, WaitStep, WaitDone,
         WaitTimeout, WaitSignal, Stop, StopIdle, StopBegin, CancelStep,
         StopDone, StopFail, CancelFind, CancelNone, CancelPut, Unmap,
         device, engine
  <2>3. Sent' \subseteq Sent
    BY <2>2, OthersStay DEF Sent
  <2> QED BY <1>1, <1>2, <2>2, <2>3
<1>5. CASE IsrStep
  <2>1. UNCHANGED <<level, valid>> /\ \E l : Goto(Isr, l)
    BY <1>5 DEF IsrStep, IsrEnter, IsrFind, IsrFindNone, IsrCall, IsrPut,
                IsrErrors, IsrReset, IsrAck, device, engine
  <2>2. Sent' = Sent
    BY <2>1, HandlerStays DEF Sent
  <2> QED BY <1>1, <1>2, <2>1, <2>2
<1>6. CASE \E ending \in Endings : HwEnd(ending)
  BY <1>6, RoomEnd
<1>7. CASE HwHalt \/ HwDrain \/ Flush \/ UNCHANGED vars
  <2>1. pc' = pc /\ level' <= level /\ (valid' = valid \/ valid' = << >>)
    BY <1>1, <1>7 DEF HwHalt, HwDrain, Flush, vars, device, engine
  <2> QED BY <1>2, <2>1 DEF Sent
<1> QED BY <1>3, <1>4, <1>5, <1>6, <1>7 DEF Next, WriterStep, HwStep, PostStep

\* The input buffer never takes more than it has room for, and never fills to
\* the brim, which would read as empty: although each writer finds its room
\* before the others' transfers have ended, it is enough that the threshold is
\* more than one transfer of each of the other writers.
THEOREM InputBufferFits ==
    ASSUME RoomForOthers PROVE Spec => []InputFits
<1>1. Init => disturbed \/ RoomKept
  <2>1. ASSUME Init PROVE RoomKept
    <3>1. Sent = {} /\ level = 0 /\ valid = << >>
      BY <2>1 DEF Init, Sent, Contexts
    <3>2. Load = 0
      BY <3>1, FS_EmptySet DEF Load
    <3> QED BY <3>1, <3>2, TxAssumption DEF RoomKept, RoomForOthers
  <2> QED BY <2>1
<1>2. /\ Inv /\ Inv' /\ (disturbed \/ ClearInv) /\ (disturbed \/ RoomKept)
      /\ [Next]_vars
      => (disturbed \/ RoomKept)'
  BY RoomStep, DisturbedStays
<1>3. Inv /\ (disturbed \/ RoomKept) => InputFits
  <2>1. ASSUME Inv, RoomKept PROVE InputFits
    <3>1. /\ Load \in Nat /\ Len(valid) \in Nat /\ Len(valid) <= Load
          /\ level \in Nat /\ FifoSize \in Nat
      BY <2>1, LoadTypes, TxAssumption DEF Load
    <3>2. /\ XferSize * Len(valid) <= XferSize * Load
          /\ XferSize * Len(valid) \in Nat /\ XferSize * Load \in Nat
      BY <3>1, Products
    <3>3. level + XferSize * Load < FifoSize
      BY <2>1 DEF RoomKept
    <3> HIDE DEF Load
    <3>4. level + XferSize * Len(valid) < FifoSize
      BY <3>1, <3>2, <3>3
    <3> QED BY <3>4 DEF InputFits
  <2> QED BY <2>1 DEF InputFits
<1> QED BY <1>1, <1>2, <1>3, InvHolds, ClearHolds, PTL DEF Spec
=============================================================================
