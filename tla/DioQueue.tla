------------------------------ MODULE DioQueue ------------------------------
(***************************************************************************)
(* The generic DIO queue of the crystalhd driver (crystalhd_misc.c): a     *)
(* doubly linked FIFO whose elements carry a data pointer and a tag.  A    *)
(* queue is a sequence of data items, oldest first.  An item's tag is the  *)
(* function value tag[item]: in every caller the tag given to dioq_add is  *)
(* the one stored in the packet, and it does not change while the packet   *)
(* is queued.  Each operation holds the queue's spin lock from its first   *)
(* to its last access, so it is one step.                                  *)
(***************************************************************************)
EXTENDS Naturals, Sequences, SequencesExt

\* crystalhd_dioq_add: insert at the tail.
\* Faulty: insert at the head.
DioqPush(q, item) == <<item>> \o q
DioqAdd(q, item) == Append(q, item)

\* crystalhd_dioq_fetch: the item at the head and the queue without it.
DioqHead(q) == Head(q)
\* Faulty: the element is not unlinked.
DioqKeep(q) == q
DioqFetch(q) == Tail(q)

\* crystalhd_dioq_find_and_fetch walks from the head and takes the first
\* element that carries the tag.
Tagged(q, tag, t) == {k \in 1..Len(q) : tag[q[k]] = t}
\* Faulty: the newest element is taken.
IsLastTagged(q, tag, t, k) ==
    k \in Tagged(q, tag, t) /\ \A j \in Tagged(q, tag, t) : j <= k
IsFirstTagged(q, tag, t, k) ==
    k \in Tagged(q, tag, t) /\ \A j \in Tagged(q, tag, t) : k <= j

\* The packets in a queue, and that no packet is queued twice.
Items(q) == ToSet(q)
NoRepeats(q) == \A j, k \in 1..Len(q) : q[j] = q[k] => j = k
=============================================================================
