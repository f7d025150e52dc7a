---------------------- MODULE CrystalhdFirmwareProofs ----------------------
(***************************************************************************)
(* The rings and commands of CrystalhdFirmware, for any number of blocks   *)
(* and any size of the rings that is larger.                               *)
(***************************************************************************)
EXTENDS CrystalhdFirmware, FiniteSetTheorems, SequenceTheorems, TLAPS

-----------------------------------------------------------------------------
(***************************************************************************)
(* Rings.                                                                  *)
(***************************************************************************)
\* The offsets of a ring between its read offset r and its write offset w.
InRing(r, w) ==
    {e \in Entries : IF r <= w THEN r <= e /\ e < w ELSE r <= e \/ e < w}

LEMMA Depths ==
    /\ Capacity \in Nat \ {0} /\ MinDepth \in Entries
    /\ Entries \subseteq Nat
    /\ \A e \in Entries : NextOffset(e) \in Entries
<1>1. Cardinality(Pib) \in Nat
  BY FirmwareAssumption, FS_CardinalityType
<1>2. MinDepth \in Nat /\ MaxDepth \in Nat /\ MinDepth < MaxDepth
  BY <1>1, FirmwareAssumption DEF Capacity
<1> QED BY <1>2 DEF Capacity, Entries, NextOffset

LEMMA RingEmpty ==
    ASSUME NEW r \in Entries
    PROVE  InRing(r, r) = {} /\ Filled(r, r) = 0
<1>1. r \in Nat /\ \A e \in Entries : e \in Nat
  BY Depths
<1>2. \A e \in Entries : e \notin InRing(r, r)
  BY <1>1 DEF InRing
<1>3. InRing(r, r) = {}
  BY <1>1, <1>2 DEF InRing
<1>4. Filled(r, r) = 0
  BY <1>1 DEF Filled
<1> QED BY <1>3, <1>4

\* Moving the write offset of a ring that is not full adds its entry.
LEMMA RingGrows ==
    ASSUME NEW r \in Entries, NEW w \in Entries, NextOffset(w) # r
    PROVE  /\ InRing(r, NextOffset(w)) = InRing(r, w) \cup {w}
           /\ w \notin InRing(r, w)
           /\ Filled(r, NextOffset(w)) = Filled(r, w) + 1
<1>1. MinDepth \in Nat /\ MaxDepth \in Nat /\ r \in Nat /\ w \in Nat
  BY Depths, FirmwareAssumption
<1>2. r >= MinDepth /\ w >= MinDepth /\ r < MaxDepth /\ w < MaxDepth
  BY <1>1 DEF Entries
<1>3. \A e \in Entries :
          e \in InRing(r, NextOffset(w)) <=> e \in InRing(r, w) \/ e = w
  BY <1>1, <1>2 DEF InRing, NextOffset, Entries
<1>4. w \notin InRing(r, w)
  BY <1>1 DEF InRing
<1>5. Filled(r, NextOffset(w)) = Filled(r, w) + 1
  BY <1>1, <1>2 DEF Filled, NextOffset, Capacity
<1> QED BY <1>3, <1>4, <1>5 DEF InRing

\* Moving the read offset of a ring that is not empty removes its entry.
LEMMA RingShrinks ==
    ASSUME NEW r \in Entries, NEW w \in Entries, r # w
    PROVE  /\ InRing(NextOffset(r), w) = InRing(r, w) \ {r}
           /\ r \in InRing(r, w)
           /\ Filled(NextOffset(r), w) = Filled(r, w) - 1
<1>1. MinDepth \in Nat /\ MaxDepth \in Nat /\ r \in Nat /\ w \in Nat
  BY Depths, FirmwareAssumption
<1>2. r >= MinDepth /\ w >= MinDepth /\ r < MaxDepth /\ w < MaxDepth
  BY <1>1 DEF Entries
<1>3. \A e \in Entries :
          e \in InRing(NextOffset(r), w) <=> e \in InRing(r, w) /\ e # r
  BY <1>1, <1>2 DEF InRing, NextOffset, Entries
<1>4. r \in InRing(r, w)
  BY <1>1, <1>2 DEF InRing
<1>5. Filled(NextOffset(r), w) = Filled(r, w) - 1
  BY <1>1, <1>2 DEF Filled, NextOffset, Capacity
<1> QED BY <1>3, <1>4, <1>5 DEF InRing

\* How much a ring holds.
LEMMA RingFilled ==
    ASSUME NEW r \in Entries, NEW w \in Entries
    PROVE  /\ Filled(r, w) \in 0..(Capacity - 1)
           /\ Filled(r, w) = 0 <=> r = w
<1>1. MinDepth \in Nat /\ MaxDepth \in Nat /\ r \in Nat /\ w \in Nat
  BY Depths, FirmwareAssumption
<1>2. r >= MinDepth /\ w >= MinDepth /\ r < MaxDepth /\ w < MaxDepth
  BY <1>1 DEF Entries
<1> QED BY <1>1, <1>2 DEF Filled, Capacity

\* What crystalhd_link_get_pib_avail_cnt returns.
LEMMA AvailFilled ==
    ASSUME TypeOK PROVE Avail = Filled(delR, delW)
<1>1. MinDepth \in Nat /\ MaxDepth \in Nat /\ delR \in Nat /\ delW \in Nat
  BY Depths, FirmwareAssumption DEF TypeOK
<1> QED BY <1>1 DEF Avail, Filled, Capacity

\* A ring that is full uses every entry but the one at its write offset.
LEMMA RingFull ==
    ASSUME NEW w \in Entries
    PROVE  InRing(NextOffset(w), w) = Entries \ {w}
<1>1. MinDepth \in Nat /\ MaxDepth \in Nat /\ w \in Nat
  BY Depths, FirmwareAssumption
<1>2. w >= MinDepth /\ w < MaxDepth
  BY <1>1 DEF Entries
<1>3. \A e \in Entries : e \in InRing(NextOffset(w), w) <=> e # w
  BY <1>1, <1>2 DEF InRing, NextOffset, Entries
<1> QED BY <1>3 DEF InRing

-----------------------------------------------------------------------------
(***************************************************************************)
(* The invariant of the blocks.                                            *)
(***************************************************************************)
Waiting == InRing(delR, delW)
Returning == InRing(relR, relW)
InDelivery == {delQ[e] : e \in Waiting}
InRelease == {relQ[e] : e \in Returning}

\* The handler has the block it took once it has moved the read offset.
HasBlock == isr \in {"fetch", "put", "put_offset"}
InHand == IF HasBlock THEN {pib} ELSE {}

\* The entries of the rings between their offsets are blocks, each once.
EntriesReal == InDelivery \subseteq Pib /\ InRelease \subseteq Pib
EntriesOnce ==
    /\ \A d, e \in Waiting : delQ[d] = delQ[e] => d = e
    /\ \A d, e \in Returning : relQ[d] = relQ[e] => d = e

\* No block is in two places.
Apart ==
    /\ decoder \cap InDelivery = {} /\ decoder \cap InRelease = {}
    /\ decoder \cap InHand = {} /\ decoder \cap lost = {}
    /\ InDelivery \cap InRelease = {} /\ InDelivery \cap InHand = {}
    /\ InDelivery \cap lost = {}
    /\ InRelease \cap InHand = {} /\ InRelease \cap lost = {}
    /\ InHand \cap lost = {}

\* What the handler knows of its block at each of its places.
HandKnown ==
    /\ HasBlock => pib \in Pib
    /\ isr = "advance" => delR # delW /\ pib = delQ[delR]
    /\ isr = "put_offset" => relQ[relW] = pib
    /\ isr \in {"idle", "cmd", "pibs", "take", "ack"} => pib = NoPib

\* It takes as many blocks as it counted, and they are still there.
CountKept ==
    /\ isr \in {"take", "advance"} => left >= 1 /\ left <= Filled(delR, delW)
    /\ HasBlock => left >= 1 /\ left - 1 <= Filled(delR, delW)

BlockInv ==
    TypeOK /\ EntriesReal /\ EntriesOnce /\ Apart /\ HandKnown /\ CountKept

\* The blocks in the release ring and the one in hand are different blocks of
\* Pib, which are fewer than the entries of a full ring and one.
LEMMA ReleaseRoom ==
    ASSUME BlockInv, HasBlock PROVE ~ReleaseFull
<1> SUFFICES ASSUME ReleaseFull PROVE FALSE
  OBVIOUS
<1> DEFINE entries == Entries \ {relW}
           f == [e \in entries |-> relQ[e]]
<1>1. relW \in Entries
  BY DEF BlockInv, TypeOK
<1>2. Returning = entries
  BY <1>1, RingFull DEF Returning, ReleaseFull
<1>3. pib \in Pib /\ pib \notin InRelease /\ InRelease \subseteq Pib
  BY DEF BlockInv, HandKnown, Apart, InHand, EntriesReal
<1>4. f \in Injection(entries, Pib \ {pib})
  <2>1. f \in [entries -> Pib \ {pib}]
    BY <1>2, <1>3 DEF InRelease
  <2>2. \A d, e \in entries : f[d] = f[e] => d = e
    BY <1>2 DEF BlockInv, EntriesOnce
  <2> HIDE DEF f, entries
  <2> QED BY <2>1, <2>2 DEF Injection, IsInjective
<1>5. IsFiniteSet(Pib \ {pib}) /\ Cardinality(Pib \ {pib}) = Cardinality(Pib) - 1
  BY <1>3, FirmwareAssumption, FS_RemoveElement
<1>6. Cardinality(entries) <= Cardinality(Pib) - 1
  <2> HIDE DEF f, entries
  <2> QED BY <1>4, <1>5, FS_Injection
<1>7. Cardinality(entries) = Capacity - 1
  <2>1. MinDepth \in Int /\ MaxDepth \in Int /\ MinDepth <= MaxDepth - 1
    BY Depths, FirmwareAssumption DEF Entries
  <2>2. IsFiniteSet(Entries) /\ Cardinality(Entries) = Capacity
    BY <2>1, FS_Interval DEF Entries, Capacity
  <2> QED BY <1>1, <2>2, FS_RemoveElement
<1>8. Cardinality(Pib) \in Nat /\ Capacity \in Nat
  BY FirmwareAssumption, FS_CardinalityType, Depths
<1> QED BY <1>6, <1>7, <1>8, FirmwareAssumption

-----------------------------------------------------------------------------
(***************************************************************************)
(* It is inductive.                                                        *)
(***************************************************************************)
LEMMA BlockInit ==
    ASSUME Init PROVE BlockInv
<1>1. Waiting = {} /\ Returning = {}
  BY RingEmpty, Depths DEF Init, Waiting, Returning
<1>2. TypeOK
  <2>1. /\ delQ \in [Entries -> Pib \cup {NoPib}]
        /\ relQ \in [Entries -> Pib \cup {NoPib}]
        /\ {delR, delW, relR, relW} \subseteq Entries
    BY Depths DEF Init
  <2>2. /\ decoder \subseteq Pib /\ change \subseteq Pib /\ lost \subseteq Pib
        /\ deco \subseteq Bits /\ snap \subseteq Bits
    BY DEF Init
  <2>3. /\ isr = "idle" /\ cmdr = "idle" /\ pib = NoPib
        /\ left \in 0..Capacity
    BY Depths DEF Init
  <2>4. /\ {got, mailbox, working, response} \subseteq Which
        /\ clean \in BOOLEAN /\ evtSts \in BOOLEAN
    BY DEF Init, Which
  <2> QED BY <2>1, <2>2, <2>3, <2>4 DEF TypeOK
<1>3. EntriesReal /\ EntriesOnce /\ Apart
  BY <1>1 DEF Init, EntriesReal, EntriesOnce, Apart, InDelivery, InRelease,
              InHand, HasBlock
<1>4. HandKnown /\ CountKept
  BY DEF Init, HandKnown, CountKept, HasBlock
<1> QED BY <1>2, <1>3, <1>4 DEF BlockInv

\* A step that moves no block between places.
LEMMA NothingMoves ==
    ASSUME BlockInv, UNCHANGED <<delivery, releases, decoder, lost>>,
           InHand' = InHand
    PROVE  EntriesReal' /\ EntriesOnce' /\ Apart'
<1>1. Waiting' = Waiting /\ Returning' = Returning
  BY DEF Waiting, Returning, delivery, releases
<1>2. InDelivery' = InDelivery /\ InRelease' = InRelease
  BY <1>1 DEF InDelivery, InRelease, delivery, releases
<1>3. EntriesReal' /\ Apart'
  BY <1>2 DEF BlockInv, EntriesReal, Apart
<1>4. EntriesOnce'
  BY <1>1 DEF BlockInv, EntriesOnce, delivery, releases
<1> QED BY <1>3, <1>4

\* Commands and firmware, the beginning and the end of the handler.
LEMMA BlockOther ==
    ASSUME BlockInv,
           \/ IsrEnter \/ IsrCmd \/ IsrAck \/ CmdStep \/ FwAccept \/ FwRespond
    PROVE  BlockInv'
<1>1. UNCHANGED blocks
  BY DEF IsrEnter, IsrCmd, IsrAck, CmdStep, CmdClear, CmdPost, CmdDone,
         CmdTimeout, CmdRead, CmdReturn, FwAccept, FwRespond
<1>2. isr' = isr \/ (/\ isr \in {"idle", "cmd", "pibs", "ack"}
                    /\ isr' \in {"idle", "cmd", "pibs", "ack"})
  BY DEF IsrEnter, IsrCmd, IsrAck, CmdStep, CmdClear, CmdPost, CmdDone,
         CmdTimeout, CmdRead, CmdReturn, FwAccept, FwRespond
<1>3. TypeOK'
  <2>1. /\ deco' \subseteq Bits /\ snap' \subseteq Bits
        /\ cmdr' \in {"idle", "post", "wait", "read", "return"}
        /\ {got', mailbox', working', response'} \subseteq Which
        /\ clean' \in BOOLEAN /\ evtSts' \in BOOLEAN
    BY DEF BlockInv, TypeOK, IsrEnter, IsrCmd, IsrAck, CmdStep, CmdClear,
           CmdPost, CmdDone, CmdTimeout, CmdRead, CmdReturn, FwAccept,
           FwRespond, commander, firmware, Which, Bits, Aged, ClearedSts, Open
  <2> QED BY <1>1, <1>2, <2>1
          DEF BlockInv, TypeOK, blocks, delivery, releases
<1>4. InHand' = InHand
  BY <1>1, <1>2 DEF InHand, HasBlock, blocks
<1>5. EntriesReal' /\ EntriesOnce' /\ Apart'
  BY <1>1, <1>4, NothingMoves DEF blocks
<1>6. HandKnown' /\ CountKept'
  BY <1>1, <1>2 DEF BlockInv, HandKnown, CountKept, HasBlock, blocks, delivery,
                    releases
<1> QED BY <1>3, <1>5, <1>6 DEF BlockInv

LEMMA BlockCount ==
    ASSUME BlockInv, IsrCount PROVE BlockInv'
<1>1. /\ UNCHANGED <<delivery, releases, decoder, lost, pib>>
      /\ isr = "pibs" /\ left' = Filled(delR, delW)
      /\ isr' = IF left' = 0 THEN "ack" ELSE "take"
  BY AvailFilled DEF IsrCount, BlockInv
<1>2. left' \in 0..(Capacity - 1) /\ Capacity \in Nat
  BY <1>1, RingFilled, Depths DEF BlockInv, TypeOK
<1>3. TypeOK'
  BY <1>1, <1>2 DEF IsrCount, BlockInv, TypeOK, delivery, releases, commander,
                    firmware
<1>4. InHand' = InHand
  BY <1>1 DEF InHand, HasBlock
<1>5. EntriesReal' /\ EntriesOnce' /\ Apart'
  BY <1>1, <1>4, NothingMoves
<1>6. HandKnown' /\ CountKept'
  BY <1>1, <1>2 DEF BlockInv, HandKnown, CountKept, HasBlock, delivery,
                    releases
<1> QED BY <1>3, <1>5, <1>6 DEF BlockInv

LEMMA BlockTake ==
    ASSUME BlockInv, IsrTake PROVE BlockInv'
<1>1. delR # delW
  <2>1. /\ isr = "take" /\ left \in Nat
        /\ left >= 1 /\ left <= Filled(delR, delW)
    BY DEF IsrTake, BlockInv, CountKept, TypeOK
  <2>2. Filled(delR, delW) = 0 <=> delR = delW
    BY RingFilled DEF BlockInv, TypeOK
  <2> QED BY <2>1, <2>2
<1>2. /\ UNCHANGED <<delivery, releases, decoder, lost, left>>
      /\ isr = "take" /\ isr' = "advance" /\ pib' = delQ[delR]
  BY <1>1 DEF IsrTake
<1>3. TypeOK'
  BY <1>2 DEF IsrTake, BlockInv, TypeOK, delivery, releases, commander,
              firmware
<1>4. InHand' = InHand
  BY <1>2 DEF InHand, HasBlock
<1>5. EntriesReal' /\ EntriesOnce' /\ Apart'
  BY <1>2, <1>4, NothingMoves
<1>6. HandKnown' /\ CountKept'
  BY <1>1, <1>2 DEF BlockInv, HandKnown, CountKept, HasBlock, delivery,
                    releases
<1> QED BY <1>3, <1>5, <1>6 DEF BlockInv

\* The block at the read offset leaves the ring for the handler's hand.
LEMMA BlockAdvance ==
    ASSUME BlockInv, IsrAdvance PROVE BlockInv'
<1>1. /\ isr = "advance" /\ delR' = NextOffset(delR)
      /\ UNCHANGED <<delQ, delW, releases, decoder, lost, pib, left>>
      /\ isr' \in {"fetch", "put"}
  BY DEF IsrAdvance
<1>2. delR \in Entries /\ delW \in Entries /\ delR # delW /\ pib = delQ[delR]
  BY <1>1 DEF BlockInv, TypeOK, HandKnown
<1>3. /\ Waiting' = Waiting \ {delR} /\ delR \in Waiting
      /\ Filled(delR', delW') = Filled(delR, delW) - 1
  BY <1>1, <1>2, RingShrinks DEF Waiting
<1>4. pib \in InDelivery /\ InDelivery' = InDelivery \ {pib}
  BY <1>1, <1>2, <1>3 DEF InDelivery, BlockInv, EntriesOnce
<1>5. Returning' = Returning /\ InRelease' = InRelease
  BY <1>1 DEF Returning, InRelease, releases
<1>6. InHand = {} /\ InHand' = {pib}
  BY <1>1 DEF InHand, HasBlock
<1>7. TypeOK'
  BY <1>1, <1>2, Depths DEF IsrAdvance, BlockInv, TypeOK, releases, commander,
                            firmware
<1>8. EntriesReal' /\ Apart'
  BY <1>1, <1>4, <1>5, <1>6 DEF BlockInv, EntriesReal, Apart
<1>9. EntriesOnce'
  BY <1>1, <1>3, <1>5 DEF BlockInv, EntriesOnce, releases
<1>10. HandKnown'
  BY <1>1, <1>4 DEF BlockInv, EntriesReal, HandKnown, HasBlock
<1>11. CountKept'
  <2>1. left \in Nat /\ left >= 1 /\ left <= Filled(delR, delW)
    BY <1>1 DEF BlockInv, CountKept, TypeOK
  <2>2. Filled(delR, delW) \in Nat
    BY <1>2, RingFilled, Depths
  <2> QED BY <1>1, <1>3, <2>1, <2>2 DEF CountKept, HasBlock
<1> QED BY <1>7, <1>8, <1>9, <1>10, <1>11 DEF BlockInv

LEMMA BlockFetch ==
    ASSUME BlockInv, IsrFetch PROVE BlockInv'
<1>1. isr = "fetch" /\ UNCHANGED <<delivery, releases, decoder>>
  BY DEF IsrFetch
<1>2. pib \in Pib /\ InHand = {pib}
  BY <1>1 DEF BlockInv, HandKnown, InHand, HasBlock
<1>3. CASE isr' = "put" /\ UNCHANGED <<pib, left, lost>>
  <2>1. TypeOK'
    BY <1>1, <1>3 DEF IsrFetch, BlockInv, TypeOK, delivery, releases,
                      commander, firmware
  <2>2. EntriesReal' /\ EntriesOnce' /\ Apart'
    BY <1>1, <1>2, <1>3, NothingMoves DEF InHand, HasBlock
  <2>3. HandKnown' /\ CountKept'
    BY <1>1, <1>3 DEF BlockInv, HandKnown, CountKept, HasBlock, delivery,
                      releases
  <2> QED BY <2>1, <2>2, <2>3 DEF BlockInv
<1>4. CASE /\ isr' = "ack" /\ lost' = lost \cup {pib} /\ pib' = NoPib
           /\ left' = 0
  <2>1. TypeOK'
    BY <1>1, <1>2, <1>4, Depths DEF IsrFetch, BlockInv, TypeOK, delivery,
                            releases, commander, firmware
  <2>2. Waiting' = Waiting /\ Returning' = Returning
    BY <1>1 DEF Waiting, Returning, delivery, releases
  <2>3. InDelivery' = InDelivery /\ InRelease' = InRelease /\ InHand' = {}
    BY <1>1, <1>4, <2>2 DEF InDelivery, InRelease, InHand, HasBlock, delivery,
                            releases
  <2>4. EntriesReal' /\ Apart'
    BY <1>1, <1>2, <1>4, <2>3 DEF BlockInv, EntriesReal, Apart
  <2>5. EntriesOnce'
    BY <1>1, <2>2 DEF BlockInv, EntriesOnce, delivery, releases
  <2>6. HandKnown' /\ CountKept'
    BY <1>4 DEF HandKnown, CountKept, HasBlock
  <2> QED BY <2>1, <2>4, <2>5, <2>6 DEF BlockInv
<1> QED BY <1>3, <1>4 DEF IsrFetch

\* The entry that is written is not one of the ring's yet.
LEMMA BlockPut ==
    ASSUME BlockInv, IsrPut PROVE BlockInv'
<1>1. isr = "put" /\ ~ReleaseFull
  BY ReleaseRoom DEF IsrPut, HasBlock
<1>2. /\ relQ' = [relQ EXCEPT ![relW] = pib] /\ isr' = "put_offset"
      /\ UNCHANGED <<delivery, relR, relW, decoder, lost, pib, left>>
  BY <1>1 DEF IsrPut
<1>3. relR \in Entries /\ relW \in Entries
  BY DEF BlockInv, TypeOK
<1>4. relW \notin Returning /\ Returning' = Returning
  BY <1>1, <1>2, <1>3, RingGrows DEF Returning, ReleaseFull
<1>5. \A e \in Returning : relQ'[e] = relQ[e]
  BY <1>2, <1>4 DEF BlockInv, TypeOK, Returning, InRing
<1>6. Waiting' = Waiting /\ InDelivery' = InDelivery
  BY <1>2 DEF Waiting, InDelivery, delivery
<1>7. InRelease' = InRelease /\ InHand' = InHand
  BY <1>1, <1>2, <1>4, <1>5 DEF InRelease, InHand, HasBlock
<1>8. TypeOK'
  BY <1>2, <1>3 DEF IsrPut, BlockInv, TypeOK, delivery, commander, firmware
<1>9. EntriesReal' /\ Apart'
  BY <1>2, <1>6, <1>7 DEF BlockInv, EntriesReal, Apart
<1>10. EntriesOnce'
  BY <1>2, <1>4, <1>5, <1>6 DEF BlockInv, EntriesOnce, delivery
<1>11. HandKnown' /\ CountKept'
  BY <1>1, <1>2, <1>3 DEF BlockInv, HandKnown, CountKept, HasBlock, delivery,
                          TypeOK
<1> QED BY <1>8, <1>9, <1>10, <1>11 DEF BlockInv

\* The block goes from the handler's hand into the release ring.
LEMMA BlockPutOffset ==
    ASSUME BlockInv, IsrPutOffset PROVE BlockInv'
<1>1. isr = "put_offset" /\ ~ReleaseFull /\ relQ[relW] = pib /\ pib \in Pib
  BY ReleaseRoom DEF IsrPutOffset, HasBlock, BlockInv, HandKnown
<1>2. /\ relW' = NextOffset(relW) /\ pib' = NoPib /\ left' = left - 1
      /\ isr' = IF left = 1 THEN "ack" ELSE "take"
      /\ UNCHANGED <<delivery, relQ, relR, decoder, lost>>
  BY DEF IsrPutOffset, After
<1>3. relR \in Entries /\ relW \in Entries
  BY DEF BlockInv, TypeOK
<1>4. Returning' = Returning \cup {relW} /\ relW \notin Returning
  BY <1>1, <1>2, <1>3, RingGrows DEF Returning, ReleaseFull
<1>5. InRelease' = InRelease \cup {pib}
  BY <1>1, <1>2, <1>4 DEF InRelease
<1>6. Waiting' = Waiting /\ InDelivery' = InDelivery
  BY <1>2 DEF Waiting, InDelivery, delivery
<1>7. InHand = {pib} /\ InHand' = {}
  BY <1>1, <1>2 DEF InHand, HasBlock
<1>8. left \in Nat /\ left >= 1 /\ left - 1 <= Filled(delR, delW)
  BY <1>1 DEF BlockInv, CountKept, HasBlock, TypeOK
<1>9. TypeOK'
  <2>1. left' \in 0..Capacity
    BY <1>2, <1>8, Depths DEF BlockInv, TypeOK
  <2> QED BY <1>2, <1>3, <2>1, Depths DEF IsrPutOffset, BlockInv, TypeOK,
                                     delivery, commander, firmware
<1>10. EntriesReal' /\ Apart'
  BY <1>1, <1>2, <1>5, <1>6, <1>7 DEF BlockInv, EntriesReal, Apart
<1>11. EntriesOnce'
  <2>1. \A e \in Returning : relQ[e] # relQ[relW]
    BY <1>1, <1>7 DEF BlockInv, Apart, InRelease
  <2> QED BY <1>2, <1>4, <1>6, <2>1 DEF BlockInv, EntriesOnce, delivery
<1>12. HandKnown'
  BY <1>2 DEF HandKnown, HasBlock
<1>13. CountKept'
  BY <1>2, <1>8 DEF CountKept, HasBlock, delivery
<1> QED BY <1>9, <1>10, <1>11, <1>12, <1>13 DEF BlockInv

\* The decoder fills the entry at the write offset, which is not read yet.
LEMMA BlockDeliver ==
    ASSUME BlockInv, FwDeliver PROVE BlockInv'
<1>1. PICK p \in decoder :
          /\ decoder' = decoder \ {p}
          /\ delQ' = [delQ EXCEPT ![delW] = p]
          /\ change' \in {change \cup {p}, change \ {p}}
  BY DEF FwDeliver
<1>2. /\ delR # NextOffset(delW) /\ delW' = NextOffset(delW)
      /\ UNCHANGED <<delR, releases, left, pib, lost, isr>>
  BY DEF FwDeliver
<1>3. delR \in Entries /\ delW \in Entries /\ p \in Pib
  BY DEF BlockInv, TypeOK
<1>4. /\ Waiting' = Waiting \cup {delW} /\ delW \notin Waiting
      /\ Filled(delR', delW') = Filled(delR, delW) + 1
  BY <1>2, <1>3, RingGrows DEF Waiting
<1>5. delQ'[delW] = p /\ \A e \in Waiting : delQ'[e] = delQ[e]
  BY <1>1, <1>3, <1>4 DEF BlockInv, TypeOK, Waiting, InRing
<1>6. InDelivery' = InDelivery \cup {p}
  BY <1>4, <1>5 DEF InDelivery
<1>7. Returning' = Returning /\ InRelease' = InRelease /\ InHand' = InHand
  BY <1>2 DEF Returning, InRelease, InHand, HasBlock, releases
<1>8. TypeOK'
  BY <1>1, <1>2, <1>3, Depths DEF FwDeliver, BlockInv, TypeOK, releases,
                                  commander, firmware, Bits
<1>9. EntriesReal' /\ Apart'
  BY <1>1, <1>2, <1>3, <1>6, <1>7 DEF BlockInv, EntriesReal, Apart
<1>10. EntriesOnce'
  <2>1. \A e \in Waiting : delQ[e] # p
    BY <1>1 DEF BlockInv, Apart, InDelivery
  <2> QED BY <1>2, <1>4, <1>5, <1>7, <2>1 DEF BlockInv, EntriesOnce, releases
<1>11. HandKnown'
  <2>1. isr = "advance" => delR' # delW' /\ delQ'[delR] = delQ[delR]
    <3> SUFFICES ASSUME isr = "advance"
                 PROVE  delR' # delW' /\ delQ'[delR] = delQ[delR]
      OBVIOUS
    <3>1. delR # delW
      BY DEF BlockInv, HandKnown
    <3>2. delR \in Waiting
      BY <1>3, <3>1, RingShrinks DEF Waiting
    <3> QED BY <1>2, <1>5, <3>2
  <2> QED BY <1>2, <2>1 DEF BlockInv, HandKnown, HasBlock, releases
<1>12. CountKept'
  <2>1. left \in Nat /\ Filled(delR, delW) \in Nat
    BY <1>3, RingFilled, Depths DEF BlockInv, TypeOK
  <2> QED BY <1>2, <1>4, <2>1 DEF BlockInv, CountKept, HasBlock
<1> QED BY <1>8, <1>9, <1>10, <1>11, <1>12 DEF BlockInv

\* The decoder takes back the block at the read offset of the release ring.
LEMMA BlockReclaim ==
    ASSUME BlockInv, FwReclaim PROVE BlockInv'
<1> DEFINE p == relQ[relR]
<1>1. /\ relR # relW /\ decoder' = decoder \cup {p}
      /\ relR' = NextOffset(relR)
      /\ UNCHANGED <<delivery, relQ, relW, left, pib, lost, isr>>
  BY DEF FwReclaim
<1>2. relR \in Entries /\ relW \in Entries
  BY DEF BlockInv, TypeOK
<1>3. Returning' = Returning \ {relR} /\ relR \in Returning
  BY <1>1, <1>2, RingShrinks DEF Returning
<1>4. p \in InRelease /\ p \in Pib /\ InRelease' = InRelease \ {p}
  BY <1>1, <1>3 DEF InRelease, BlockInv, EntriesOnce, EntriesReal
<1>5. Waiting' = Waiting /\ InDelivery' = InDelivery /\ InHand' = InHand
  BY <1>1 DEF Waiting, InDelivery, InHand, HasBlock, delivery
<1>6. TypeOK'
  BY <1>1, <1>2, <1>4, Depths DEF FwReclaim, BlockInv, TypeOK, delivery,
                                  commander, firmware
<1>7. EntriesReal' /\ Apart'
  <2> HIDE DEF p
  <2> QED BY <1>1, <1>4, <1>5 DEF BlockInv, EntriesReal, Apart
<1>8. EntriesOnce'
  BY <1>1, <1>3, <1>5 DEF BlockInv, EntriesOnce, delivery
<1>9. HandKnown' /\ CountKept'
  BY <1>1 DEF BlockInv, HandKnown, CountKept, HasBlock, delivery
<1> QED BY <1>6, <1>7, <1>8, <1>9 DEF BlockInv

LEMMA BlockNext ==
    ASSUME BlockInv, [Next]_vars PROVE BlockInv'
<1>1. CASE UNCHANGED vars
  BY <1>1 DEF vars, blocks, delivery, releases, commander, firmware, BlockInv,
              TypeOK, EntriesReal, EntriesOnce, Apart, HandKnown, CountKept,
              InDelivery, InRelease, InHand, HasBlock, Waiting, Returning
<1>2. CASE Next
  BY <1>2, BlockOther, BlockCount, BlockTake, BlockAdvance, BlockFetch,
     BlockPut, BlockPutOffset, BlockDeliver, BlockReclaim
     DEF Next, IsrStep, FwStep
<1> QED BY <1>1, <1>2

LEMMA Blocks == Spec => []BlockInv
<1>1. Init => BlockInv
  BY BlockInit
<1>2. BlockInv /\ [Next]_vars => BlockInv'
  BY BlockNext
<1> QED BY <1>1, <1>2, PTL DEF Spec

\* Every reachable state has the declared types: offsets stay in the ring, and
\* what the handler works on is a block or address 0.
THEOREM FirmwareTypes == Spec => []TypeOK
<1>1. BlockInv => TypeOK
  BY DEF BlockInv
<1> QED BY <1>1, Blocks, PTL

\* crystalhd_link_rel_addr_to_pib_Q never finds the release ring full: the
\* "should never happen" of crystalhd_linkfuncs.c:1172, for any number of blocks
\* below the number of entries.
THEOREM ReleaseNeverFull == Spec => []ReleaseHasRoom
<1>1. BlockInv => ReleaseHasRoom
  BY ReleaseRoom DEF ReleaseHasRoom, HasBlock
<1> QED BY <1>1, Blocks, PTL

-----------------------------------------------------------------------------
(***************************************************************************)
(* Commands.                                                               *)
(***************************************************************************)
\* Whether the handler is told of a response, or already was.
Signalled == evtSts \/ "cmd" \in deco \/ "cmd" \in snap

\* Once a command that began with nothing open is posted, it is the only one
\* the firmware has, and a response that is signalled is its own.
CmdInv ==
    /\ TypeOK
    /\ isr = "cmd" => "cmd" \in snap
    /\ cmdr = "read" => evtSts
    /\ cmdr # "idle" /\ clean =>
          /\ mailbox \in {"none", "own"} /\ working \in {"none", "own"}
          /\ Signalled => response = "own"
    /\ cmdr = "return" /\ clean => got = "own"

LEMMA CmdInit ==
    ASSUME Init PROVE CmdInv
<1>1. TypeOK
  BY BlockInit DEF BlockInv
<1> QED BY <1>1 DEF Init, CmdInv

LEMMA CmdNext ==
    ASSUME CmdInv, TypeOK', [Next]_vars PROVE CmdInv'
<1> USE DEF CmdInv, Signalled
<1>1. CASE IsrEnter
  BY <1>1 DEF IsrEnter, firmware, commander
<1>2. CASE IsrCmd
  BY <1>2 DEF IsrCmd, firmware, commander
<1>3. CASE IsrCount \/ IsrTake \/ IsrAdvance \/ IsrFetch \/ IsrPut \/ IsrPutOffset
  <2>1. UNCHANGED <<deco, snap, commander, evtSts, firmware>> /\ isr' # "cmd"
    BY <1>3 DEF IsrCount, IsrTake, IsrAdvance, IsrFetch, IsrPut, IsrPutOffset,
                After
  <2> QED BY <2>1 DEF firmware, commander
<1>4. CASE IsrAck
  BY <1>4 DEF IsrAck, firmware, commander
<1>5. CASE CmdClear
  <2>1. /\ clean' => mailbox = "none" /\ working = "none" /\ "cmd" \notin deco
                     /\ "cmd" \notin snap
        /\ mailbox' = Aged(mailbox) /\ working' = Aged(working)
        /\ evtSts' = FALSE /\ cmdr' = "post" /\ UNCHANGED <<deco, isr, snap>>
    BY <1>5 DEF CmdClear, Open, ClearedSts
  <2> QED BY <2>1 DEF Aged
<1>6. CASE CmdPost
  BY <1>6 DEF CmdPost
<1>7. CASE CmdDone
  BY <1>7 DEF CmdDone, firmware
<1>8. CASE CmdTimeout
  BY <1>8 DEF CmdTimeout, firmware
<1>9. CASE CmdRead
  BY <1>9 DEF CmdRead, firmware
<1>10. CASE CmdReturn
  BY <1>10 DEF CmdReturn, firmware
<1>11. CASE FwDeliver
  BY <1>11 DEF FwDeliver, firmware, commander
<1>12. CASE FwReclaim
  BY <1>12 DEF FwReclaim, firmware, commander
<1>13. CASE FwAccept
  BY <1>13 DEF FwAccept, commander
<1>14. CASE FwRespond
  BY <1>14 DEF FwRespond, commander
<1>15. CASE UNCHANGED vars
  BY <1>15 DEF vars, firmware, commander
<1> QED BY <1>1, <1>2, <1>3, <1>4, <1>5, <1>6, <1>7, <1>8, <1>9, <1>10, <1>11,
           <1>12, <1>13, <1>14, <1>15
        DEF Next, IsrStep, CmdStep, FwStep

\* crystalhd_link_do_fw_cmd returns the response to its own command, if no
\* earlier command was open when it began: neither the interrupt of another
\* one nor a status left over from a command that timed out is taken for it.
THEOREM CommandGetsResponse == Spec => []OwnResponse
<1>1. Init => CmdInv
  BY CmdInit
<1>2. CmdInv /\ TypeOK' /\ [Next]_vars => CmdInv'
  BY CmdNext
<1>3. CmdInv => OwnResponse
  BY DEF CmdInv, OwnResponse
<1> QED BY <1>1, <1>2, <1>3, FirmwareTypes, PTL DEF Spec

-----------------------------------------------------------------------------
(***************************************************************************)
(* The rings as the sequences of the blocks in them.                       *)
(***************************************************************************)
LEMMA ContentSeq ==
    ASSUME NEW S, NEW q \in [Entries -> S],
           NEW r \in Entries, NEW w \in Entries
    PROVE  /\ Content(q, r, w) \in Seq(S)
           /\ Len(Content(q, r, w)) = Filled(r, w)
           /\ \A i \in 1..Filled(r, w) : Offset(r, i - 1) \in InRing(r, w)
<1>1. MinDepth \in Nat /\ MaxDepth \in Nat /\ r \in Nat /\ w \in Nat
  BY Depths, FirmwareAssumption
<1>2. r >= MinDepth /\ w >= MinDepth /\ r < MaxDepth /\ w < MaxDepth
  BY <1>1 DEF Entries
<1>3. Filled(r, w) \in Nat
  BY RingFilled, Depths
<1>4. \A i \in 1..Filled(r, w) : Offset(r, i - 1) \in InRing(r, w)
  BY <1>1, <1>2, <1>3 DEF Filled, Offset, InRing, Entries, Capacity
<1>5. Content(q, r, w) \in [1..Filled(r, w) -> S]
  BY <1>4 DEF Content, InRing
<1>6. Content(q, r, w) \in Seq(S)
  BY <1>3, <1>5, SeqDef
<1>7. Len(Content(q, r, w)) = Filled(r, w)
  <2>1. DOMAIN Content(q, r, w) = 1..Filled(r, w)
    BY DEF Content
  <2>2. /\ Len(Content(q, r, w)) \in Nat
        /\ DOMAIN Content(q, r, w) = 1..Len(Content(q, r, w))
    BY <1>6, LenProperties
  <2> QED BY <1>3, <2>1, <2>2
<1> QED BY <1>4, <1>6, <1>7

\* What is written outside a ring's offsets does not change its content.
LEMMA ContentSame ==
    ASSUME NEW S, NEW q \in [Entries -> S], NEW z \in [Entries -> S],
           NEW r \in Entries, NEW w \in Entries,
           \A e \in InRing(r, w) : q[e] = z[e]
    PROVE  Content(q, r, w) = Content(z, r, w)
<1>1. \A i \in 1..Filled(r, w) : Offset(r, i - 1) \in InRing(r, w)
  BY ContentSeq
<1> QED BY <1>1 DEF Content

LEMMA ContentGrows ==
    ASSUME NEW S, NEW q \in [Entries -> S],
           NEW r \in Entries, NEW w \in Entries, NextOffset(w) # r
    PROVE  Content(q, r, NextOffset(w)) = Append(Content(q, r, w), q[w])
<1> DEFINE n == Filled(r, w)
           old == Content(q, r, w)
           new == Content(q, r, NextOffset(w))
<1>1. MinDepth \in Nat /\ MaxDepth \in Nat /\ r \in Nat /\ w \in Nat
  BY Depths, FirmwareAssumption
<1>2. r >= MinDepth /\ w >= MinDepth /\ r < MaxDepth /\ w < MaxDepth
  BY <1>1 DEF Entries
<1>3. n \in Nat /\ Filled(r, NextOffset(w)) = n + 1 /\ NextOffset(w) \in Entries
  BY RingFilled, RingGrows, Depths
<1>4. Offset(r, n) = w
  BY <1>1, <1>2 DEF Filled, Offset, Capacity
<1>5. /\ old \in Seq(S) /\ Len(old) = n
      /\ \A i \in 1..n : old[i] = q[Offset(r, i - 1)]
  <2>1. old \in Seq(S) /\ Len(old) = n
    BY ContentSeq
  <2> QED BY <2>1 DEF Content
<1>6. /\ new \in Seq(S) /\ Len(new) = n + 1
      /\ \A i \in 1..(n + 1) : new[i] = q[Offset(r, i - 1)]
  <2>1. new \in Seq(S) /\ Len(new) = Filled(r, NextOffset(w))
    BY <1>3, ContentSeq
  <2> QED BY <1>3, <2>1 DEF Content
<1>7. q[w] \in S
  OBVIOUS
<1> HIDE DEF n, old, new
<1>8. /\ Append(old, q[w]) \in Seq(S) /\ Len(Append(old, q[w])) = n + 1
      /\ \A i \in 1..n : Append(old, q[w])[i] = old[i]
      /\ Append(old, q[w])[n + 1] = q[w]
  BY <1>5, <1>7, AppendProperties
<1>9. \A i \in 1..(n + 1) : new[i] = Append(old, q[w])[i]
  <2> TAKE i \in 1..(n + 1)
  <2>1. CASE i = n + 1
    BY <1>3, <1>4, <1>6, <1>8, <2>1
  <2>2. CASE i # n + 1
    <3>1. i \in 1..n
      BY <1>3, <2>2
    <3> QED BY <1>5, <1>6, <1>8, <3>1
  <2> QED BY <2>1, <2>2
<1>10. new = Append(old, q[w])
  BY <1>6, <1>8, <1>9, SeqEqual
<1> QED BY <1>10 DEF new, old

LEMMA ContentShrinks ==
    ASSUME NEW S, NEW q \in [Entries -> S],
           NEW r \in Entries, NEW w \in Entries, r # w
    PROVE  /\ Content(q, r, w) # << >>
           /\ Head(Content(q, r, w)) = q[r]
           /\ Tail(Content(q, r, w)) = Content(q, NextOffset(r), w)
<1> DEFINE n == Filled(r, w)
           old == Content(q, r, w)
           new == Content(q, NextOffset(r), w)
<1>1. MinDepth \in Nat /\ MaxDepth \in Nat /\ r \in Nat /\ w \in Nat
  BY Depths, FirmwareAssumption
<1>2. r >= MinDepth /\ w >= MinDepth /\ r < MaxDepth /\ w < MaxDepth
  BY <1>1 DEF Entries
<1>3. /\ n \in Nat /\ n # 0 /\ Filled(NextOffset(r), w) = n - 1
      /\ NextOffset(r) \in Entries
  BY RingFilled, RingShrinks, Depths
<1>4. /\ Offset(r, 0) = r
      /\ \A i \in 1..(n - 1) : Offset(NextOffset(r), i - 1) = Offset(r, i)
  BY <1>1, <1>2 DEF Filled, Offset, Capacity, NextOffset
<1>5. /\ old \in Seq(S) /\ Len(old) = n
      /\ \A i \in 1..n : old[i] = q[Offset(r, i - 1)]
  <2>1. old \in Seq(S) /\ Len(old) = n
    BY ContentSeq
  <2> QED BY <2>1 DEF Content
<1>6. /\ new \in Seq(S) /\ Len(new) = n - 1
      /\ \A i \in 1..(n - 1) : new[i] = q[Offset(NextOffset(r), i - 1)]
  <2>1. PICK s \in Entries : s = NextOffset(r)
    BY <1>3
  <2>2. Content(q, s, w) \in Seq(S) /\ Len(Content(q, s, w)) = Filled(s, w)
    BY ContentSeq
  <2> QED BY <1>3, <2>1, <2>2 DEF Content
<1> HIDE DEF n, old, new
<1>7. old # << >>
  BY <1>3, <1>5, EmptySeq
<1>8. Head(old) = q[r]
  <2>1. 1 \in 1..n /\ 1 - 1 = 0
    BY <1>3
  <2>2. old[1] = q[r]
    BY <1>4, <1>5, <2>1
  <2> QED BY <1>5, <1>7, <2>2
<1>9. /\ Tail(old) \in Seq(S) /\ Len(Tail(old)) = n - 1
      /\ \A i \in 1..(n - 1) : Tail(old)[i] = old[i + 1]
  BY <1>5, <1>7, HeadTailProperties
<1>10. \A i \in 1..(n - 1) : Tail(old)[i] = new[i]
  <2> TAKE i \in 1..(n - 1)
  <2>1. i + 1 \in 1..n /\ (i + 1) - 1 = i
    BY <1>3
  <2>2. old[i + 1] = q[Offset(r, i)]
    BY <1>5, <2>1
  <2> QED BY <1>4, <1>6, <1>9, <2>2
<1>11. Tail(old) = new
  BY <1>6, <1>9, <1>10, SeqEqual
<1> QED BY <1>7, <1>8, <1>11 DEF new, old

-----------------------------------------------------------------------------
(***************************************************************************)
(* Each step is a step of the exchange or changes nothing in it.           *)
(***************************************************************************)
LEMMA ExchangeInit == Init => Exchange!Init
<1> SUFFICES ASSUME Init PROVE Exchange!Init
  OBVIOUS
<1>1. \A q : Content(q, MinDepth, MinDepth) = << >>
  <2> TAKE q
  <2>1. Filled(MinDepth, MinDepth) = 0
    BY RingEmpty, Depths
  <2> QED BY <2>1 DEF Content
<1> QED BY <1>1 DEF Init, Exchange!Init, Driver

LEMMA ExchangeDeliver ==
    ASSUME BlockInv, FwDeliver PROVE Exchange!Deliver
<1>1. PICK p \in decoder :
          /\ decoder' = decoder \ {p}
          /\ delQ' = [delQ EXCEPT ![delW] = p]
  BY DEF FwDeliver
<1>2. /\ delR # NextOffset(delW) /\ delW' = NextOffset(delW)
      /\ UNCHANGED <<delR, releases, pib, lost, isr>>
  BY DEF FwDeliver
<1>3. /\ delR \in Entries /\ delW \in Entries
      /\ delQ \in [Entries -> Pib \cup {NoPib}]
      /\ delQ' \in [Entries -> Pib \cup {NoPib}]
  BY <1>1 DEF BlockInv, TypeOK
<1>4. \A e \in InRing(delR, delW) : delQ'[e] = delQ[e]
  BY <1>1, <1>2, <1>3, RingGrows DEF InRing
<1>5. Content(delQ', delR, delW) = Content(delQ, delR, delW)
  BY <1>3, <1>4, ContentSame
<1>6. Content(delQ', delR', delW') = Append(Content(delQ', delR, delW), delQ'[delW])
  BY <1>2, <1>3, ContentGrows
<1>7. Content(delQ, delR, delW)' = Append(Content(delQ, delR, delW), p)
  BY <1>1, <1>3, <1>5, <1>6
<1> QED BY <1>1, <1>2, <1>7 DEF Exchange!Deliver, Driver, releases

LEMMA ExchangeReclaim ==
    ASSUME BlockInv, FwReclaim PROVE Exchange!Reclaim
<1>1. /\ relR # relW /\ decoder' = decoder \cup {relQ[relR]}
      /\ relR' = NextOffset(relR)
      /\ UNCHANGED <<delivery, relQ, relW, pib, lost, isr>>
  BY DEF FwReclaim
<1>2. /\ relR \in Entries /\ relW \in Entries
      /\ relQ \in [Entries -> Pib \cup {NoPib}]
  BY DEF BlockInv, TypeOK
<1>3. /\ Content(relQ, relR, relW) # << >>
      /\ Head(Content(relQ, relR, relW)) = relQ[relR]
      /\ Tail(Content(relQ, relR, relW)) = Content(relQ, NextOffset(relR), relW)
  BY <1>1, <1>2, ContentShrinks
<1> QED BY <1>1, <1>3 DEF Exchange!Reclaim, Driver, delivery

LEMMA ExchangeFetch ==
    ASSUME BlockInv, IsrAdvance PROVE Exchange!Fetch
<1>1. /\ isr = "advance" /\ delR' = NextOffset(delR)
      /\ UNCHANGED <<delQ, delW, releases, decoder, lost, pib>>
      /\ isr' \in {"fetch", "put"}
  BY DEF IsrAdvance
<1>2. /\ delR \in Entries /\ delW \in Entries /\ delR # delW /\ pib = delQ[delR]
      /\ delQ \in [Entries -> Pib \cup {NoPib}]
  BY <1>1 DEF BlockInv, TypeOK, HandKnown
<1>3. /\ Content(delQ, delR, delW) # << >>
      /\ Head(Content(delQ, delR, delW)) = delQ[delR]
      /\ Tail(Content(delQ, delR, delW)) = Content(delQ, NextOffset(delR), delW)
  BY <1>2, ContentShrinks
<1>4. Driver = NoPib /\ Driver' = delQ[delR]
  BY <1>1, <1>2 DEF Driver
<1> QED BY <1>1, <1>3, <1>4 DEF Exchange!Fetch, releases

LEMMA ExchangeLose ==
    ASSUME BlockInv, IsrFetch
    PROVE  Exchange!Lose \/ UNCHANGED Exchange!vars
<1>1. /\ isr = "fetch" /\ UNCHANGED <<delivery, releases, decoder>>
      /\ \/ isr' = "put" /\ UNCHANGED <<pib, lost>>
         \/ isr' = "ack" /\ lost' = lost \cup {pib} /\ pib' = NoPib
  BY DEF IsrFetch
<1>2. pib # NoPib
  BY <1>1, FirmwareAssumption DEF BlockInv, HandKnown, HasBlock
<1> QED BY <1>1, <1>2
        DEF Exchange!Lose, Exchange!vars, Driver, delivery, releases

LEMMA ExchangeRelease ==
    ASSUME BlockInv, IsrPutOffset PROVE Exchange!Release
<1>1. isr = "put_offset" /\ ~ReleaseFull /\ relQ[relW] = pib /\ pib # NoPib
  BY ReleaseRoom, FirmwareAssumption
     DEF IsrPutOffset, HasBlock, BlockInv, HandKnown
<1>2. /\ relW' = NextOffset(relW) /\ pib' = NoPib /\ isr' \in {"ack", "take"}
      /\ UNCHANGED <<delivery, relQ, relR, decoder, lost>>
  BY DEF IsrPutOffset, After
<1>3. /\ relR \in Entries /\ relW \in Entries /\ NextOffset(relW) # relR
      /\ relQ \in [Entries -> Pib \cup {NoPib}]
  BY <1>1 DEF BlockInv, TypeOK, ReleaseFull
<1>4. Content(relQ, relR, NextOffset(relW))
          = Append(Content(relQ, relR, relW), relQ[relW])
  BY <1>3, ContentGrows
<1> QED BY <1>1, <1>2, <1>4 DEF Exchange!Release, Driver, delivery

LEMMA ExchangePut ==
    ASSUME BlockInv, IsrPut PROVE UNCHANGED Exchange!vars
<1>1. isr = "put" /\ ~ReleaseFull
  BY ReleaseRoom DEF IsrPut, HasBlock
<1>2. /\ relQ' = [relQ EXCEPT ![relW] = pib] /\ isr' = "put_offset"
      /\ UNCHANGED <<delivery, relR, relW, decoder, lost, pib>>
  BY <1>1 DEF IsrPut
<1>3. /\ relR \in Entries /\ relW \in Entries /\ NextOffset(relW) # relR
      /\ relQ \in [Entries -> Pib \cup {NoPib}]
      /\ relQ' \in [Entries -> Pib \cup {NoPib}]
  BY <1>1, <1>2 DEF BlockInv, TypeOK, ReleaseFull
<1>4. \A e \in InRing(relR, relW) : relQ'[e] = relQ[e]
  BY <1>2, <1>3, RingGrows DEF InRing
<1>5. Content(relQ', relR, relW) = Content(relQ, relR, relW)
  BY <1>3, <1>4, ContentSame
<1> QED BY <1>1, <1>2, <1>5 DEF Exchange!vars, Driver, delivery

LEMMA ExchangeOther ==
    ASSUME BlockInv,
           \/ IsrEnter \/ IsrCmd \/ IsrAck \/ CmdStep \/ FwAccept \/ FwRespond
           \/ IsrCount \/ IsrTake \/ UNCHANGED vars
    PROVE  UNCHANGED Exchange!vars
<1>1. UNCHANGED <<delivery, releases, decoder, lost>>
  BY DEF IsrEnter, IsrCmd, IsrAck, CmdStep, CmdClear, CmdPost, CmdDone,
         CmdTimeout, CmdRead, CmdReturn, FwAccept, FwRespond, IsrCount,
         IsrTake, vars, blocks
<1>2. CASE IsrTake
  <2>1. isr = "take" /\ pib = NoPib
    BY <1>2 DEF IsrTake, BlockInv, HandKnown
  <2>2. isr' = "advance" \/ (isr' = "put" /\ pib' = NoPib)
    BY <1>2 DEF IsrTake
  <2> QED BY <1>1, <2>1, <2>2 DEF Exchange!vars, Driver, delivery, releases
<1>3. CASE ~IsrTake
  <2>1. pib' = pib /\ (isr' = "advance" <=> isr = "advance")
    BY <1>3 DEF IsrEnter, IsrCmd, IsrAck, CmdStep, CmdClear, CmdPost, CmdDone,
                CmdTimeout, CmdRead, CmdReturn, FwAccept, FwRespond, IsrCount,
                vars, blocks
  <2> QED BY <1>1, <2>1 DEF Exchange!vars, Driver, delivery, releases
<1> QED BY <1>2, <1>3

\* The handler and the decoder on their two rings do what the exchange of
\* blocks promises: blocks reach the driver in the order of their delivery,
\* each once, and each goes back once or is dropped.
THEOREM RingsExchange == Spec => ImplementsExchange
<1>1. Init => Exchange!Init
  BY ExchangeInit
<1>2. BlockInv /\ [Next]_vars => [Exchange!Next]_(Exchange!vars)
  <2> SUFFICES ASSUME BlockInv, [Next]_vars
               PROVE  Exchange!Next \/ UNCHANGED Exchange!vars
    OBVIOUS
  <2> QED
    BY ExchangeDeliver, ExchangeReclaim, ExchangeFetch, ExchangeLose,
       ExchangeRelease, ExchangePut, ExchangeOther
       DEF Next, IsrStep, FwStep, Exchange!Next
<1> QED BY <1>1, <1>2, Blocks, PTL DEF Spec, ImplementsExchange, Exchange!Spec
=============================================================================
