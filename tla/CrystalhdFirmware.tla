-------------------------- MODULE CrystalhdFirmware --------------------------
(***************************************************************************)
(* The crystalhd driver (Link device) and the decoder firmware: the two    *)
(* rings of picture information blocks (PIBs) in device memory, which the  *)
(* interrupt handler serves (crystalhd_link_proc_pib), and the mailbox for *)
(* firmware commands (crystalhd_link_do_fw_cmd), whose responses come      *)
(* through the same interrupt.                                             *)
(*                                                                         *)
(* One thread issues commands, one after another.  A step is one access to *)
(* a ring's offset or to a field both sides use.                           *)
(*                                                                         *)
(* A definition marked Faulty stands before the one it could be mistaken   *)
(* for; the properties are tested against it, and no action uses it.       *)
(***************************************************************************)
EXTENDS Integers, Sequences, FiniteSets

CONSTANTS
    Pib,        \* the decoder's information blocks
    NoPib,      \* address 0
    MinDepth,   \* MIN_PIB_Q_DEPTH: offset of the first entry of a ring
    MaxDepth    \* MAX_PIB_Q_DEPTH: offset after the last entry

Entries == MinDepth..(MaxDepth - 1)
Capacity == MaxDepth - MinDepth

\* The decoder has fewer blocks than a ring has entries.
ASSUME FirmwareAssumption ==
    /\ NoPib \notin Pib /\ MinDepth \in Nat /\ MaxDepth \in Nat
    /\ IsFiniteSet(Pib) /\ Cardinality(Pib) < Capacity

VARIABLES
    delQ, delR, delW,   \* ring at pib_del_Q_addr: entries, read, write offset
    relQ, relR, relW,   \* ring at pib_rel_Q_addr
    decoder, change,    \* blocks the decoder has; format changes to be seen
    deco,               \* Stream2Host_Intr_Sts: "cmd" is bit 31, "pib" bit 1
    isr, snap,          \* interrupt handler: place, the status it read
    left, pib, lost,    \*   blocks left to look at, its block; dropped blocks
    cmdr, got,          \* commanding thread: place, the response it read
    clean,              \*   no earlier command was open when it began
    evtSts,             \* hw->fwcmd_evt_sts
    mailbox, working,   \* firmware: command posted, command worked on
    response            \*   what the last response answers

delivery == <<delQ, delR, delW>>
releases == <<relQ, relR, relW>>
blocks == <<delivery, releases, decoder, change, left, pib, lost>>
commander == <<cmdr, got, clean>>
firmware == <<mailbox, working, response>>
vars == <<blocks, deco, isr, snap, commander, evtSts, firmware>>

Init ==
    /\ delQ = [e \in Entries |-> NoPib] /\ delR = MinDepth /\ delW = MinDepth
    /\ relQ = [e \in Entries |-> NoPib] /\ relR = MinDepth /\ relW = MinDepth
    /\ decoder = Pib /\ change = {} /\ deco = {}
    /\ isr = "idle" /\ snap = {} /\ left = 0 /\ pib = NoPib /\ lost = {}
    /\ cmdr = "idle" /\ got = "none" /\ clean = TRUE /\ evtSts = FALSE
    /\ mailbox = "none" /\ working = "none" /\ response = "none"

\* Offsets run from MinDepth to MaxDepth - 1.
\* Faulty: the offset wraps to 0.
NextFromZero(offset) == (offset + 1) % MaxDepth
NextOffset(offset) == IF offset + 1 = MaxDepth THEN MinDepth ELSE offset + 1

\* crystalhd_link_get_pib_avail_cnt.
\* Faulty: a wrapped ring is counted without MIN_PIB_Q_DEPTH.
AvailOfDepth == IF delW >= delR THEN delW - delR ELSE delW + MaxDepth - delR
Avail ==
    IF delW >= delR THEN delW - delR
    ELSE (delW + MaxDepth) - (delR + MinDepth)

\* crystalhd_link_rel_addr_to_pib_Q: one entry stays unused.
\* Faulty: the write offset itself is compared.
ReleaseEmpty == relR = relW
ReleaseFull == relR = NextOffset(relW)
-----------------------------------------------------------------------------
(***************************************************************************)
(* The interrupt handler.                                                  *)
(***************************************************************************)
IsrEnter ==
    /\ isr = "idle" /\ deco # {}
    /\ snap' = deco
    /\ isr' = IF "cmd" \in deco THEN "cmd" ELSE "pibs"
    /\ UNCHANGED <<blocks, deco, commander, evtSts, firmware>>

\* The commanding thread polls the status, so that the wake-up adds nothing.
IsrCmd ==
    /\ isr = "cmd"
    /\ evtSts' = TRUE
    /\ isr' = IF "pib" \in snap THEN "pibs" ELSE "ack"
    /\ UNCHANGED <<blocks, deco, snap, commander, firmware>>

\* crystalhd_link_proc_pib counts once, at its beginning.
IsrCount ==
    /\ isr = "pibs"
    /\ left' = Avail
    /\ isr' = IF Avail = 0 THEN "ack" ELSE "take"
    /\ UNCHANGED <<delivery, releases, decoder, change, pib, lost, deco, snap,
                   commander, evtSts, firmware>>

\* crystalhd_link_get_addr_from_pib_Q reads the entry, then moves the offset.
\* An empty ring gives address 0, which is used like any other.
IsrTake ==
    /\ isr = "take"
    /\ pib' = IF delR = delW THEN NoPib ELSE delQ[delR]
    /\ isr' = IF delR = delW THEN "put" ELSE "advance"
    /\ UNCHANGED <<delivery, releases, decoder, change, left, lost, deco, snap,
                   commander, evtSts, firmware>>

IsrAdvance ==
    /\ isr = "advance"
    /\ delR' = NextOffset(delR)
    /\ isr' = IF pib \in change THEN "fetch" ELSE "put"
    /\ change' = change \ {pib}
    /\ UNCHANGED <<delQ, delW, releases, decoder, left, pib, lost,
                   deco, snap, commander, evtSts, firmware>>

\* A format change needs a packet of the free queue: without one the loop ends
\* and the block is not given back.
IsrFetch ==
    /\ isr = "fetch"
    /\ \/ isr' = "put" /\ UNCHANGED <<pib, left, lost>>
       \/ isr' = "ack" /\ lost' = lost \cup {pib} /\ pib' = NoPib /\ left' = 0
    /\ UNCHANGED <<delivery, releases, decoder, change, deco, snap, commander,
                   evtSts, firmware>>

After == IF left = 1 THEN "ack" ELSE "take"

\* crystalhd_link_rel_addr_to_pib_Q writes the entry, then the offset; with the
\* ring full it gives up and the block is lost.
IsrPut ==
    /\ isr = "put"
    /\ IF ReleaseFull
       THEN /\ lost' = lost \cup {pib} /\ pib' = NoPib
            /\ left' = left - 1 /\ isr' = After
            /\ UNCHANGED relQ
       ELSE /\ relQ' = [relQ EXCEPT ![relW] = pib]
            /\ isr' = "put_offset"
            /\ UNCHANGED <<lost, pib, left>>
    /\ UNCHANGED <<delivery, relR, relW, decoder, change, deco, snap,
                   commander, evtSts, firmware>>

IsrPutOffset ==
    /\ isr = "put_offset"
    /\ relW' = NextOffset(relW)
    /\ pib' = NoPib /\ left' = left - 1
    /\ isr' = After
    /\ UNCHANGED <<delivery, relQ, relR, decoder, change, lost, deco, snap,
                   commander, evtSts, firmware>>

\* The status read is written back and then 0 is written.  Whether that clears
\* a bit set since is up to the device.
IsrAck ==
    /\ isr = "ack" \/ (isr = "pibs" /\ "pib" \notin snap)
    /\ deco' \in {deco \ snap, {}}
    /\ snap' = {}
    /\ isr' = "idle"
    /\ UNCHANGED <<blocks, commander, evtSts, firmware>>
-----------------------------------------------------------------------------
(***************************************************************************)
(* crystalhd_link_do_fw_cmd.                                               *)
(***************************************************************************)
\* The status is cleared before the command is posted, outside hw->lock.
\* Faulty: it keeps its value.
KeptSts == evtSts
ClearedSts == FALSE

\* Whether a command that timed out can still be answered, or its response be
\* signalled.
Open == mailbox # "none" \/ working # "none" \/ "cmd" \in deco \/ "cmd" \in snap

\* What is under way belongs to an earlier command now.
Aged(command) == IF command = "own" THEN "earlier" ELSE command

CmdClear ==
    /\ cmdr = "idle"
    /\ evtSts' = ClearedSts
    /\ clean' = ~Open
    /\ mailbox' = Aged(mailbox) /\ working' = Aged(working)
    /\ response' = Aged(response)
    /\ cmdr' = "post"
    /\ UNCHANGED <<blocks, deco, isr, snap, got>>

CmdPost ==
    /\ cmdr = "post"
    /\ mailbox' = "own"
    /\ cmdr' = "wait"
    /\ UNCHANGED <<blocks, deco, isr, snap, got, clean, evtSts,
                   working, response>>

CmdDone ==
    /\ cmdr = "wait" /\ evtSts
    /\ cmdr' = "read"
    /\ UNCHANGED <<blocks, deco, isr, snap, got, clean, evtSts,
                   firmware>>

\* 20 seconds passed; signals are ignored.
CmdTimeout ==
    /\ cmdr = "wait" /\ ~evtSts
    /\ cmdr' = "idle"
    /\ UNCHANGED <<blocks, deco, isr, snap, got, clean, evtSts, firmware>>

CmdRead ==
    /\ cmdr = "read"
    /\ got' = response
    /\ cmdr' = "return"
    /\ UNCHANGED <<blocks, deco, isr, snap, clean, evtSts, firmware>>

CmdReturn ==
    /\ cmdr = "return"
    /\ cmdr' = "idle" /\ got' = "none"
    /\ UNCHANGED <<blocks, deco, isr, snap, clean, evtSts, firmware>>
-----------------------------------------------------------------------------
(***************************************************************************)
(* The firmware.                                                           *)
(***************************************************************************)
FwDeliver ==
    /\ delR # NextOffset(delW)
    /\ \E p \in decoder :
          /\ decoder' = decoder \ {p}
          /\ delQ' = [delQ EXCEPT ![delW] = p]
          /\ change' \in {change \cup {p}, change \ {p}}
    /\ delW' = NextOffset(delW)
    /\ deco' = deco \cup {"pib"}
    /\ UNCHANGED <<delR, releases, left, pib, lost, isr, snap, commander,
                   evtSts, firmware>>

FwReclaim ==
    /\ relR # relW
    /\ decoder' = decoder \cup {relQ[relR]}
    /\ relR' = NextOffset(relR)
    /\ UNCHANGED <<delivery, relQ, relW, change, left, pib, lost, deco, isr,
                   snap, commander, evtSts, firmware>>

FwAccept ==
    /\ mailbox # "none" /\ working = "none"
    /\ working' = mailbox /\ mailbox' = "none"
    /\ UNCHANGED <<blocks, deco, isr, snap, commander, evtSts, response>>

FwRespond ==
    /\ working # "none"
    /\ response' = working /\ working' = "none"
    /\ deco' = deco \cup {"cmd"}
    /\ UNCHANGED <<blocks, isr, snap, commander, evtSts, mailbox>>
-----------------------------------------------------------------------------
IsrStep == IsrEnter \/ IsrCmd \/ IsrCount \/ IsrTake \/ IsrAdvance
           \/ IsrFetch \/ IsrPut \/ IsrPutOffset \/ IsrAck
CmdStep == CmdClear \/ CmdPost \/ CmdDone \/ CmdTimeout \/ CmdRead \/ CmdReturn
FwStep == FwDeliver \/ FwReclaim \/ FwAccept \/ FwRespond

Next == IsrStep \/ CmdStep \/ FwStep

Spec == Init /\ [][Next]_vars
-----------------------------------------------------------------------------
(***************************************************************************)
(* Properties.                                                             *)
(***************************************************************************)
Bits == {"cmd", "pib"}
Which == {"none", "earlier", "own"}
TypeOK ==
    /\ delQ \in [Entries -> Pib \cup {NoPib}]
    /\ relQ \in [Entries -> Pib \cup {NoPib}]
    /\ {delR, delW, relR, relW} \subseteq Entries
    /\ decoder \subseteq Pib /\ change \subseteq Pib /\ lost \subseteq Pib
    /\ deco \subseteq Bits /\ snap \subseteq Bits
    /\ isr \in {"idle", "cmd", "pibs", "take", "advance", "fetch", "put",
                "put_offset", "ack"}
    /\ left \in 0..Capacity /\ pib \in Pib \cup {NoPib}
    /\ cmdr \in {"idle", "post", "wait", "read", "return"}
    /\ {got, mailbox, working, response} \subseteq Which
    /\ clean \in BOOLEAN /\ evtSts \in BOOLEAN

\* What a ring holds from its read offset r up to its write offset w.
Filled(r, w) == IF r <= w THEN w - r ELSE w - r + Capacity
Offset(r, i) == IF r + i < MaxDepth THEN r + i ELSE r + i - Capacity
Content(q, r, w) == [i \in 1..Filled(r, w) |-> q[Offset(r, i - 1)]]

\* A block is the driver's once the read offset has moved.
Driver == IF isr = "advance" THEN NoPib ELSE pib

Exchange == INSTANCE PibExchange WITH
    delivered <- Content(delQ, delR, delW),
    driver <- Driver,
    released <- Content(relQ, relR, relW)

\* The handler and the decoder work on the two rings at the same time, through
\* offsets that each of them reads once: blocks are seen in order, none is seen
\* twice or overwritten, and each goes back unless it was dropped.
ImplementsExchange == Exchange!Spec

\* crystalhd_linkfuncs.c:1172, "should never happen": the release ring has room
\* for every block the driver gives back.
ReleaseHasRoom == isr = "put" => ~ReleaseFull

\* A command begun when no older command can be answered any more gets its own
\* response; without that, it may get the response of one that timed out.
OwnResponse == cmdr = "return" /\ clean => got = "own"
=============================================================================
