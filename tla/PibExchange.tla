----------------------------- MODULE PibExchange -----------------------------
(***************************************************************************)
(* What the exchange of picture information blocks between decoder and     *)
(* driver promises: every block is in one place; the driver sees the       *)
(* blocks in the order of their delivery and gives each one back, except   *)
(* for a format change it has no packet for.                               *)
(***************************************************************************)
EXTENDS Sequences

CONSTANTS Pib, NoPib

VARIABLES
    decoder,      \* blocks the decoder may fill
    delivered,    \* blocks on their way to the driver
    driver,       \* the block the driver looks at
    released,     \* blocks on their way back
    lost          \* blocks the driver dropped

vars == <<decoder, delivered, driver, released, lost>>

Init ==
    /\ decoder = Pib /\ delivered = << >> /\ driver = NoPib
    /\ released = << >> /\ lost = {}

Deliver ==
    /\ \E p \in decoder :
          decoder' = decoder \ {p} /\ delivered' = Append(delivered, p)
    /\ UNCHANGED <<driver, released, lost>>

Fetch ==
    /\ driver = NoPib /\ delivered # << >>
    /\ driver' = Head(delivered) /\ delivered' = Tail(delivered)
    /\ UNCHANGED <<decoder, released, lost>>

Release ==
    /\ driver # NoPib
    /\ released' = Append(released, driver) /\ driver' = NoPib
    /\ UNCHANGED <<decoder, delivered, lost>>

Lose ==
    /\ driver # NoPib
    /\ lost' = lost \cup {driver} /\ driver' = NoPib
    /\ UNCHANGED <<decoder, delivered, released>>

Reclaim ==
    /\ released # << >>
    /\ decoder' = decoder \cup {Head(released)} /\ released' = Tail(released)
    /\ UNCHANGED <<delivered, driver, lost>>

Next == Deliver \/ Fetch \/ Release \/ Lose \/ Reclaim

Spec == Init /\ [][Next]_vars
=============================================================================
