------------------------------ MODULE ByteFifo ------------------------------
(***************************************************************************)
(* What the transmit buffer of libcrystalhd promises: the bytes pushed by  *)
(* the application reach the device in order, once each, except for those  *)
(* a flush throws away.  Bytes are numbered in the order of the pushes.    *)
(***************************************************************************)
EXTENDS Integers, Sequences

CONSTANTS
    Size,       \* capacity of the buffer
    Numbers     \* byte numbers run through 0..Numbers - 1 and wrap

VARIABLES
    next,       \* number of the next byte to be pushed
    queue,      \* bytes pushed and not yet taken
    out         \* bytes taken for the next transfer to the device

Init == next = 0 /\ queue = << >> /\ out = << >>

Push ==
    \E n \in 1..(Size - Len(queue)) :
        /\ queue' = queue \o [i \in 1..n |-> (next + i - 1) % Numbers]
        /\ next' = (next + n) % Numbers
        /\ UNCHANGED out

Take ==
    \E n \in 1..Len(queue) :
        /\ out' = out \o SubSeq(queue, 1, n)
        /\ queue' = SubSeq(queue, n + 1, Len(queue))
        /\ UNCHANGED next

Transfer == out' = << >> /\ UNCHANGED <<next, queue>>

Flush == queue' = << >> /\ UNCHANGED <<next, out>>

Next == Push \/ Take \/ Transfer \/ Flush

Spec == Init /\ [][Next]_<<next, queue, out>>
=============================================================================
