---------------------------- MODULE LibTxBuffer ----------------------------
(***************************************************************************)
(* The circular transmit buffer of libcrystalhd and its two users: the     *)
(* application thread, which pushes (DtsSendData), flushes (DtsFlushInput) *)
(* and closes the device (DtsReleaseInterface), and the transmit thread,   *)
(* which pops what the device has room for and sends it (txThreadProc).    *)
(* After a resume from suspend the transmit thread also flushes, and may   *)
(* push the end of the stream.                                             *)
(*                                                                         *)
(* A pop holds flushLock, a flush waits for it; busySize and freeSize are  *)
(* updated together under pushpopLock.  A push and the transmit thread's   *)
(* choice of a size take no lock: a flush by one thread may meet a push by *)
(* the other, and two pushes may meet.  What happens after a flush in the  *)
(* middle of a push is part of the model; after two pushes at once, whose  *)
(* counts may leave their range, nothing follows.                          *)
(*                                                                         *)
(* A definition marked Faulty stands before the one it could be mistaken   *)
(* for; the properties are tested against it, and no action uses it.       *)
(***************************************************************************)
EXTENDS Integers, Sequences

CONSTANTS
    Size,          \* CIRC_TX_BUF_SIZE
    Numbers        \* the bytes pushed are numbered 0..Numbers - 1 and again

ASSUME LibTxAssumption ==
    Size \in Nat \ {0} /\ Numbers \in Nat \ 0..(2 * Size)

VARIABLES
    buffer, readPointer, writePointer, busySize, freeSize,
    flushLock,           \* "free", or the thread that holds it
    next,                \* number of the next byte to be counted as pushed
    app,                 \* place of the application
    push, want, pushed,  \* a push: place, bytes to copy, bytes copied
    tx,                  \* place of the transmit thread
    toPop, popped,       \*   bytes to pop, bytes copied
    out,                 \*   localBuffer
    exit,                \* Ctx->txThreadExit
    leaked,              \* history: a pop returned with flushLock held
    torn                 \* history: a flush or another push met a push

ring == <<buffer, readPointer, writePointer, busySize, freeSize>>
pushVars == <<push, want, pushed>>
txVars == <<tx, toPop, popped, out>>
vars == <<ring, flushLock, next, app, pushVars, txVars, exit, leaked, torn>>

Cell == 0..(Size - 1)
Least(a, b) == IF a < b THEN a ELSE b

Init ==
    /\ buffer = [c \in Cell |-> 0] /\ readPointer = 0 /\ writePointer = 0
    /\ busySize = 0 /\ freeSize = Size
    /\ flushLock = "free" /\ next = 0
    /\ app = "idle" /\ push = "none" /\ want = 0 /\ pushed = 0
    /\ tx = "top" /\ toPop = 0 /\ popped = 0 /\ out = << >>
    /\ exit = FALSE /\ leaked = FALSE /\ torn = FALSE

\* Bytes copied in one go end at endPointer; the pointer wraps there.
UpToEnd(pointer, n) == Least(n, Size - pointer)
\* Faulty: the pointer runs past the end.
AdvanceOn(pointer, n) == pointer + n
Advance(pointer, n) == (pointer + n) % Size
-----------------------------------------------------------------------------
(***************************************************************************)
(* A push, by the application or by the transmit thread: at most two       *)
(* copies, each counted after it was made.                                 *)
(***************************************************************************)
\* Faulty: one byte more than there is room for.
FitsNearly(n) == n <= freeSize + 1
Fits(n) == n <= freeSize

\* One copy, of what is left of n bytes or up to the end of the buffer.
CopyIn(n) ==
    LET m == UpToEnd(writePointer, n) IN
    /\ buffer' = [c \in Cell |->
          IF c \in writePointer..(writePointer + m - 1)
          THEN (next + c - writePointer) % Numbers ELSE buffer[c]]
    /\ writePointer' = Advance(writePointer, m)
    /\ pushed' = m /\ want' = n - m
    /\ push' = "count"
    /\ UNCHANGED <<readPointer, busySize, freeSize, flushLock, next, toPop,
                   popped, out, exit, leaked, torn>>

\* The first copy, when no push of the other thread is under way.
PushCopy == push = "none" /\ \E n \in 1..Size : Fits(n) /\ CopyIn(n)

PushWrap == push = "wrap" /\ CopyIn(want) /\ UNCHANGED <<app, tx>>

\* The end of a push: the transmit thread may have more to push.
PushCount ==
    /\ push = "count"
    /\ busySize' = busySize + pushed /\ freeSize' = freeSize - pushed
    /\ next' = (next + pushed) % Numbers
    /\ pushed' = 0
    /\ IF want > 0
       THEN push' = "wrap" /\ UNCHANGED <<app, tx>>
       ELSE /\ push' = "none"
            /\ app' = IF app = "push" THEN "idle" ELSE app
            /\ tx' = IF tx = "push" THEN "eos" ELSE tx
    /\ UNCHANGED <<buffer, readPointer, writePointer, flushLock, want, toPop,
                   popped, out, exit, leaked, torn>>

\* One thread pushes while a push of the other is under way.
Collide ==
    /\ \/ app = "send" /\ tx = "push"
       \/ app = "push" /\ tx = "eos"
    /\ Fits(1)
    /\ torn' = TRUE
    /\ app' = "collided" /\ tx' = "collided" /\ push' = "none"
    /\ want' = 0 /\ pushed' = 0 /\ out' = << >>
    /\ UNCHANGED <<ring, flushLock, next, toPop, popped, exit, leaked>>
-----------------------------------------------------------------------------
(***************************************************************************)
(* The application.                                                        *)
(***************************************************************************)
Send ==
    /\ app = "idle"
    /\ app' = "send"
    /\ UNCHANGED <<ring, flushLock, next, pushVars, txVars, exit, leaked,
                   torn>>

\* Without room the caller sleeps, and gives up when the decoder was stopped.
SendAbort ==
    /\ app = "send" /\ ~Fits(Size)
    /\ app' = "idle"
    /\ UNCHANGED <<ring, flushLock, next, pushVars, txVars, exit, leaked,
                   torn>>

AppPush == app = "send" /\ PushCopy /\ app' = "push" /\ UNCHANGED tx

\* txBufFlush.
Reset ==
    /\ flushLock = "free"
    /\ readPointer' = 0 /\ writePointer' = 0
    /\ busySize' = 0 /\ freeSize' = Size
    /\ torn' = (torn \/ push # "none")
    /\ UNCHANGED <<buffer, flushLock>>

FlushInput ==
    /\ app = "idle"
    /\ app' = "flush"
    /\ UNCHANGED <<ring, flushLock, next, pushVars, txVars, exit, leaked,
                   torn>>

FlushDone ==
    /\ app = "flush" /\ Reset
    /\ app' = "idle"
    /\ UNCHANGED <<next, pushVars, txVars, exit, leaked>>

\* The transmit thread is told to exit and joined, then the buffer is freed.
Release ==
    /\ app = "idle"
    /\ exit' = TRUE
    /\ app' = "join"
    /\ UNCHANGED <<ring, flushLock, next, pushVars, txVars, leaked, torn>>

Joined ==
    /\ app = "join" /\ tx = "exited"
    /\ app' = "closed"
    /\ UNCHANGED <<ring, flushLock, next, pushVars, txVars, exit, leaked,
                   torn>>
-----------------------------------------------------------------------------
(***************************************************************************)
(* The transmit thread.                                                    *)
(***************************************************************************)
TxExit ==
    /\ tx = "top" /\ exit
    /\ tx' = "exited"
    /\ UNCHANGED <<ring, flushLock, next, app, pushVars, toPop, popped, out,
                   exit, leaked, torn>>

\* DtsGetDriverStatus: the room of the device (see TxCompare), and whether it
\* was resumed from suspend.  A failure or a suspended device only ends this
\* turn.
TxStatus ==
    /\ tx = "top" /\ ~exit
    /\ tx' \in {"look", "resume"}
    /\ UNCHANGED <<ring, flushLock, next, app, pushVars, toPop, popped, out,
                   exit, leaked, torn>>

\* The decoder is set up again, which may fail, and the buffer is flushed.  The
\* end of the stream is pushed if bEOSCheck is set, which DtsOpenDecoder has
\* cleared before: the application must have sent it again meanwhile.
TxResume ==
    /\ tx = "resume"
    /\ Reset
    /\ tx' \in {"look", "eos"}
    /\ UNCHANGED <<next, app, pushVars, toPop, popped, out, exit, leaked>>

\* DtsSendEOS pushes in several pieces; it waits for room for ever if the
\* decoder is not stopped.
EosPush == tx = "eos" /\ PushCopy /\ tx' = "push" /\ UNCHANGED app

EosEnd ==
    /\ tx = "eos"
    /\ tx' = "look"
    /\ UNCHANGED <<ring, flushLock, next, app, pushVars, toPop, popped, out,
                   exit, leaked, torn>>

\* DtsDeviceClose has closed the decoder, so the wait for room ends.
EosClosed == app = "join" /\ EosEnd

TxResumeFail ==
    /\ tx = "resume"
    /\ tx' = "top"
    /\ UNCHANGED <<ring, flushLock, next, app, pushVars, toPop, popped, out,
                   exit, leaked, torn>>

\* busySize is compared with the room of the device, which is known since
\* DtsGetDriverStatus and may be anything, and then read again.
TxCompare ==
    /\ tx = "look"
    /\ \E room \in 0..Size :
          \/ (busySize = 0 \/ room = 0) /\ tx' = "top" /\ UNCHANGED toPop
          \/ busySize \in 1..(room - 1) /\ tx' = "read" /\ UNCHANGED toPop
          \/ room \in 1..busySize /\ tx' = "pop" /\ toPop' = room
    /\ UNCHANGED <<ring, flushLock, next, app, pushVars, popped, out, exit,
                   leaked, torn>>

TxRead ==
    /\ tx = "read"
    /\ toPop' = busySize
    /\ tx' = "pop"
    /\ UNCHANGED <<ring, flushLock, next, app, pushVars, popped, out, exit,
                   leaked, torn>>

PopLock ==
    /\ tx = "pop" /\ flushLock = "free" /\ toPop <= busySize
    /\ flushLock' = "tx"
    /\ tx' = IF toPop = 0 THEN "unlock" ELSE "copy"
    /\ UNCHANGED <<ring, next, app, pushVars, toPop, popped, out, exit,
                   leaked, torn>>

\* The buffer was flushed since its size was read: BC_STS_INV_ARG is returned
\* without releasing flushLock.
PopInvalid ==
    /\ tx = "pop" /\ flushLock = "free" /\ toPop > busySize
    /\ flushLock' = "tx" /\ leaked' = TRUE
    /\ tx' = "top" /\ toPop' = 0
    /\ UNCHANGED <<ring, next, app, pushVars, popped, out, exit, torn>>

PopCopy ==
    /\ tx = "copy"
    /\ LET n == UpToEnd(readPointer, toPop) IN
          /\ out' = out \o [i \in 1..n |-> buffer[readPointer + i - 1]]
          /\ readPointer' = Advance(readPointer, n)
          /\ popped' = n /\ toPop' = toPop - n
    /\ tx' = "count"
    /\ UNCHANGED <<buffer, writePointer, busySize, freeSize, flushLock, next,
                   app, pushVars, exit, leaked, torn>>

PopCount ==
    /\ tx = "count"
    /\ busySize' = busySize - popped /\ freeSize' = freeSize + popped
    /\ popped' = 0
    /\ tx' = IF toPop > 0 THEN "copy" ELSE "unlock"
    /\ UNCHANGED <<buffer, readPointer, writePointer, flushLock, next, app,
                   pushVars, toPop, out, exit, leaked, torn>>

\* Faulty: the lock stays taken.
PopReturn ==
    /\ tx = "unlock"
    /\ tx' = "send"
    /\ UNCHANGED <<ring, flushLock, next, app, pushVars, toPop, popped, out,
                   exit, leaked, torn>>

PopUnlock ==
    /\ tx = "unlock"
    /\ flushLock' = "free"
    /\ tx' = "send"
    /\ UNCHANGED <<ring, next, app, pushVars, toPop, popped, out, exit,
                   leaked, torn>>

\* DtsTxDmaText; what it fails to send is dropped.
TxSend ==
    /\ tx = "send"
    /\ out' = << >>
    /\ tx' = "top"
    /\ UNCHANGED <<ring, flushLock, next, app, pushVars, toPop, popped, exit,
                   leaked, torn>>
-----------------------------------------------------------------------------
AppStep == AppPush \/ FlushDone \/ Joined
PushStep == PushWrap \/ PushCount
TxStep == TxExit \/ TxStatus \/ TxResume \/ TxResumeFail \/ EosPush
          \/ EosClosed \/ TxCompare \/ TxRead \/ PopLock \/ PopInvalid
          \/ PopCopy \/ PopCount \/ PopUnlock \/ TxSend

Next == Send \/ SendAbort \/ FlushInput \/ Release \/ Collide \/ EosEnd
        \/ AppStep \/ PushStep \/ TxStep

Spec == Init /\ [][Next]_vars

\* Both threads are scheduled again and again, in the middle of a push too;
\* which calls the application makes is left to it.
FairSpec == Spec /\ WF_vars(AppStep) /\ WF_vars(PushStep) /\ WF_vars(TxStep)

\* Besides, a flush gets a lock that is free again and again.
LockSpec == FairSpec /\ SF_vars(FlushDone)
-----------------------------------------------------------------------------
(***************************************************************************)
(* Properties.                                                             *)
(***************************************************************************)
Byte == 0..(Numbers - 1)
TypeOK ==
    /\ buffer \in [Cell -> Byte]
    /\ readPointer \in Cell /\ writePointer \in Cell
    /\ busySize \in 0..Size /\ freeSize = Size - busySize
    /\ flushLock \in {"free", "tx"} /\ next \in Byte
    /\ app \in {"idle", "send", "push", "flush", "join", "closed", "collided"}
    /\ push \in {"none", "count", "wrap"}
    /\ want \in 0..Size /\ pushed \in 0..Size
    /\ tx \in {"top", "exited", "look", "resume", "eos", "push", "read", "pop",
               "copy", "count", "unlock", "send", "collided"}
    /\ toPop \in 0..Size /\ popped \in 0..Size
    /\ out \in Seq(Byte) /\ Len(out) <= Size
    /\ exit \in BOOLEAN /\ leaked \in BOOLEAN /\ torn \in BOOLEAN

\* Bytes that were copied out and are not yet counted are still in the queue.
First == IF popped <= readPointer THEN readPointer - popped
         ELSE readPointer - popped + Size
Around(c) == IF c < Size THEN c ELSE c - Size
Queue == [i \in 1..busySize |-> buffer[Around(First + i - 1)]]
Sent == SubSeq(out, 1, Len(out) - popped)
Fifo == INSTANCE ByteFifo WITH queue <- Queue, out <- Sent

\* txBufPush and txBufPop work at the same time without a common lock, and
\* flushes come in between, the application's and those of a resume: no byte
\* is overwritten before it was sent, skipped, or sent twice, at any wrap of
\* the two pointers, until a flush or a push by one thread meets a push by the
\* other, which the comments at txBufPush and txBufFlush assume it does not.
ImplementsFifo ==
    Fifo!Init /\ [][torn' \/ Fifo!Next]_<<next, Queue, Sent>>

\* The device can be closed at any time, also while a transfer, a flush or a
\* push of a resume is under way, and whatever a flush tore, unless a pop kept
\* flushLock (see FlushReturns).
CloseReturns == []<>(app # "join" \/ leaked)

\* libcrystalhd_if.h:1003: DtsFlushInput "flushes the current channel and
\* causes the decoder to stop accessing input data", so it returns.
FlushReturns == app = "flush" ~> app # "flush"
=============================================================================
