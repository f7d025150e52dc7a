---------------------------- MODULE PictureFifo ----------------------------
(***************************************************************************)
(* What the receive path promises while nothing is flushed and the decoder *)
(* repeats no picture: every picture the decoder makes is handed to the    *)
(* application, once, in the order of the decoder.  A picture is its       *)
(* number; the numbers run through 1..PicMod and wrap.                     *)
(***************************************************************************)
EXTENDS Integers, Sequences

CONSTANT PicMod

VARIABLES
    decoded,    \* number of the last picture made, 0 before the first
    waiting,    \* pictures made and not yet chosen by a fetch
    given       \* pictures a fetch is about to return

vars == <<decoded, waiting, given>>

Init == decoded = 0 /\ waiting = << >> /\ given = {}

Decode ==
    /\ decoded' = (decoded % PicMod) + 1
    /\ waiting' = Append(waiting, decoded')
    /\ UNCHANGED given

Choose ==
    /\ waiting # << >>
    /\ given' = given \cup {Head(waiting)}
    /\ waiting' = Tail(waiting)
    /\ UNCHANGED decoded

Give ==
    /\ \E n \in given : given' = given \ {n}
    /\ UNCHANGED <<decoded, waiting>>

Next == Decode \/ Choose \/ Give

Spec == Init /\ [][Next]_vars
=============================================================================
