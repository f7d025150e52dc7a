-------------------------- MODULE LibTxBufferProofs --------------------------
(***************************************************************************)
(* The transmit buffer of LibTxBuffer, for any size of the buffer.         *)
(***************************************************************************)
EXTENDS LibTxBuffer, SequenceTheorems, TLAPS

-----------------------------------------------------------------------------
(***************************************************************************)
(* Places of the two threads: how much each has still to copy and to       *)
(* count, against what the counts say.                                     *)
(***************************************************************************)
PushPlaces ==
    /\ push = "wrap" => want >= 1
    /\ push = "count" => pushed >= 1
    /\ push # "count" => pushed = 0
    /\ push # "none" => want + pushed <= freeSize

PopPlaces ==
    /\ tx = "copy" => toPop >= 1
    /\ tx = "count" => popped >= 1
    /\ tx # "count" => popped = 0
    /\ tx \in {"copy", "count"} => toPop + popped <= busySize
    /\ tx \in {"copy", "count", "unlock"} => flushLock = "tx"
    /\ tx \notin {"copy", "count", "unlock", "send"} => out = << >>
    /\ tx \in {"copy", "count"} => Len(out) + toPop <= Size
    /\ popped <= Len(out)

Places == TypeOK /\ PushPlaces /\ PopPlaces

LEMMA Sizes == Size \in Nat \ {0} /\ Numbers \in Nat \ {0}
<1>1. Size \in Nat \ {0} /\ Numbers \in Nat /\ Numbers > 2 * Size
  BY LibTxAssumption
<1> QED BY <1>1

LEMMA ByteNumbers ==
    /\ 0 \in Byte /\ Byte \subseteq Nat
    /\ \A x \in Int : x % Numbers \in Byte
BY Sizes DEF Byte

\* Bytes copied in one go: at least one, and the pointer wraps at most once.
LEMMA CopyInOneGo ==
    ASSUME NEW pointer \in Cell, NEW n \in 1..Size
    PROVE  /\ UpToEnd(pointer, n) \in 1..n
           /\ pointer + UpToEnd(pointer, n) <= Size
           /\ Advance(pointer, UpToEnd(pointer, n)) \in Cell
           /\ Advance(pointer, UpToEnd(pointer, n))
                  = Around(pointer + UpToEnd(pointer, n))
<1> DEFINE m == UpToEnd(pointer, n)
<1>1. Size \in Nat \ {0} /\ pointer \in 0..(Size - 1)
  BY Sizes DEF Cell
<1>2. m \in 1..n /\ pointer + m <= Size /\ pointer + m \in Nat
  BY <1>1 DEF UpToEnd, Least
<1> HIDE DEF m
<1>3. pointer + m < Size => (pointer + m) % Size = pointer + m
  BY <1>1, <1>2
<1>4. Size % Size = 0
  BY <1>1
<1>5. Advance(pointer, m) = Around(pointer + m)
  BY <1>1, <1>2, <1>3, <1>4 DEF Advance, Around
<1>6. Around(pointer + m) \in Cell
  BY <1>1, <1>2 DEF Around, Cell
<1> QED BY <1>2, <1>5, <1>6 DEF m

LEMMA FunctionSeq ==
    ASSUME NEW S, NEW n \in Nat, NEW f \in [1..n -> S]
    PROVE  f \in Seq(S) /\ Len(f) = n
<1>1. f \in Seq(S)
  BY SeqDef
<1>2. Len(f) \in Nat /\ DOMAIN f = 1..Len(f)
  BY <1>1, LenProperties
<1> QED BY <1>1, <1>2

-----------------------------------------------------------------------------
LEMMA PlacesInit ==
    ASSUME Init PROVE Places
<1>1. buffer \in [Cell -> Byte] /\ next \in Byte
  BY ByteNumbers DEF Init
<1>2. readPointer \in Cell /\ writePointer \in Cell /\ busySize \in 0..Size
      /\ freeSize = Size - busySize
  BY Sizes DEF Init, Cell
<1>3. /\ want \in 0..Size /\ pushed \in 0..Size
      /\ toPop \in 0..Size /\ popped \in 0..Size
  BY Sizes DEF Init
<1>4. out = << >> /\ out \in Seq(Byte) /\ Len(out) = 0 /\ Len(out) <= Size
  BY EmptySeq, Sizes DEF Init
<1>5. /\ app = "idle" /\ tx = "top" /\ flushLock = "free" /\ exit = FALSE
      /\ leaked = FALSE /\ torn = FALSE /\ push = "none"
      /\ pushed = 0 /\ popped = 0
  BY DEF Init
<1>6. TypeOK
  BY <1>1, <1>2, <1>3, <1>4, <1>5 DEF TypeOK
<1>7. PushPlaces /\ PopPlaces
  BY <1>4, <1>5 DEF PushPlaces, PopPlaces
<1> QED BY <1>6, <1>7 DEF Places

\* The application begins or ends a call, or is joined; the transmit thread
\* pushes no more.
LEMMA PlacesCalls ==
    ASSUME Places,
           \/ Send \/ SendAbort \/ FlushInput \/ Release \/ Joined \/ EosEnd
    PROVE  Places'
<1>1. UNCHANGED <<ring, flushLock, next, pushVars, toPop, popped, out, leaked,
                  torn>>
  BY DEF Send, SendAbort, FlushInput, Release, Joined, EosEnd, txVars
<1>2. /\ app' \in {app, "idle", "send", "flush", "join", "closed"}
      /\ exit' \in BOOLEAN
      /\ tx' = tx \/ (tx = "eos" /\ tx' = "look")
  BY DEF Send, SendAbort, FlushInput, Release, Joined, EosEnd, txVars, Places,
         TypeOK
<1>3. TypeOK'
  BY <1>1, <1>2 DEF Places, TypeOK, ring, pushVars
<1>4. PushPlaces' /\ PopPlaces'
  BY <1>1, <1>2 DEF Places, PushPlaces, PopPlaces, ring, pushVars
<1> QED BY <1>3, <1>4 DEF Places

\* The first copy of a push and what was left for the next one: there is room.
LEMMA CopiesIn ==
    ASSUME Places, AppPush \/ EosPush \/ PushWrap
    PROVE  /\ \E n \in 1..Size : n <= freeSize /\ CopyIn(n)
           /\ push # "count" /\ pushed = 0
           /\ app' \in {app, "push"}
           /\ tx' = tx \/ (tx = "eos" /\ tx' = "push")
<1>1. push \in {"none", "wrap"} /\ pushed = 0
  BY DEF AppPush, EosPush, PushWrap, PushCopy, Places, PushPlaces
<1>2. \E n \in 1..Size : n <= freeSize /\ CopyIn(n)
  <2>1. CASE AppPush \/ EosPush
    BY <2>1 DEF AppPush, EosPush, PushCopy, Fits
  <2>2. CASE PushWrap
    <3>1. push = "wrap" /\ CopyIn(want)
      BY <2>2 DEF PushWrap
    <3>2. want \in 1..Size /\ want <= freeSize
      BY <1>1, <3>1, Sizes DEF Places, TypeOK, PushPlaces
    <3> QED BY <3>1, <3>2
  <2> QED BY <2>1, <2>2
<1>3. app' \in {app, "push"} /\ (tx' = tx \/ (tx = "eos" /\ tx' = "push"))
  BY DEF AppPush, EosPush, PushWrap
<1> QED BY <1>1, <1>2, <1>3

LEMMA PlacesPushCopy ==
    ASSUME Places, AppPush \/ EosPush \/ PushWrap PROVE Places'
<1>1. PICK n \in 1..Size : n <= freeSize /\ CopyIn(n)
  BY CopiesIn
<1> DEFINE m == UpToEnd(writePointer, n)
<1>2. /\ app' \in {app, "push"}
      /\ tx' = tx \/ (tx = "eos" /\ tx' = "push")
      /\ push' = "count" /\ pushed' = m /\ want' = n - m
      /\ writePointer' = Advance(writePointer, m)
      /\ UNCHANGED <<readPointer, busySize, freeSize, flushLock, next, toPop,
                     popped, out, exit, leaked, torn>>
  BY <1>1, CopiesIn DEF CopyIn
<1>3. buffer' = [c \in Cell |->
                    IF c \in writePointer..(writePointer + m - 1)
                    THEN (next + c - writePointer) % Numbers ELSE buffer[c]]
  BY <1>1 DEF CopyIn
<1>4. writePointer \in Cell /\ freeSize \in 0..Size
  BY Sizes DEF Places, TypeOK
<1>5. m \in 1..n /\ Advance(writePointer, m) \in Cell
  BY <1>4, CopyInOneGo
<1>6. buffer' \in [Cell -> Byte]
  <2>1. \A c \in Cell : (next + c - writePointer) % Numbers \in Byte
    <3>1. next \in Int /\ writePointer \in Int /\ \A c \in Cell : c \in Int
      BY Sizes, ByteNumbers DEF Places, TypeOK, Cell
    <3> QED BY <3>1, ByteNumbers
  <2> HIDE DEF m
  <2> QED BY <1>3, <2>1 DEF Places, TypeOK
<1> HIDE DEF m
<1>7. pushed' \in 1..Size /\ want' \in 0..Size /\ want' + pushed' <= freeSize
  BY <1>1, <1>2, <1>4, <1>5, Sizes
<1>8. TypeOK'
  BY <1>2, <1>5, <1>6, <1>7, Sizes DEF Places, TypeOK
<1>9. PushPlaces' /\ PopPlaces'
  BY <1>2, <1>7 DEF Places, PushPlaces, PopPlaces
<1> QED BY <1>8, <1>9 DEF Places

LEMMA PlacesPushCount ==
    ASSUME Places, PushCount PROVE Places'
<1>1. /\ push = "count"
      /\ busySize' = busySize + pushed /\ freeSize' = freeSize - pushed
      /\ next' = (next + pushed) % Numbers
      /\ pushed' = 0 /\ push' = IF want > 0 THEN "wrap" ELSE "none"
      /\ app' \in {app, "idle"}
      /\ tx' = tx \/ (tx = "push" /\ tx' = "eos")
      /\ UNCHANGED <<buffer, readPointer, writePointer, flushLock, want, toPop,
                     popped, out, exit, leaked, torn>>
  BY DEF PushCount
<1>2. /\ busySize \in 0..Size /\ freeSize = Size - busySize
      /\ pushed \in 1..Size /\ want \in 0..Size /\ want + pushed <= freeSize
      /\ Size \in Nat
  BY <1>1, Sizes DEF Places, TypeOK, PushPlaces
<1>3. next' \in Byte
  <2>1. next + pushed \in Int
    BY <1>2, ByteNumbers DEF Places, TypeOK
  <2> QED BY <1>1, <2>1, ByteNumbers
<1>4. /\ busySize' \in 0..Size /\ freeSize' = Size - busySize'
      /\ busySize' >= busySize /\ want' + pushed' <= freeSize'
      /\ (push' = "wrap" => want' >= 1) /\ push' # "count"
  BY <1>1, <1>2
<1>5. TypeOK'
  BY <1>1, <1>3, <1>4, <1>2 DEF Places, TypeOK
<1>6. PushPlaces'
  BY <1>1, <1>4 DEF PushPlaces
<1>7. PopPlaces'
  BY <1>1, <1>2, <1>4 DEF Places, TypeOK, PopPlaces
<1> QED BY <1>5, <1>6, <1>7 DEF Places

\* A push meets another one: both threads stop.
LEMMA PlacesCollide ==
    ASSUME Places, Collide PROVE Places'
<1>1. /\ tx \in {"push", "eos"} /\ app' = "collided" /\ tx' = "collided"
      /\ push' = "none" /\ want' = 0 /\ pushed' = 0 /\ torn' = TRUE
      /\ out' = << >> /\ out' \in Seq(Byte) /\ Len(out') = 0
      /\ UNCHANGED <<ring, flushLock, next, toPop, popped, exit, leaked>>
  BY EmptySeq DEF Collide
<1>2. TypeOK'
  BY <1>1, Sizes DEF Places, TypeOK, ring
<1>3. PushPlaces' /\ PopPlaces'
  BY <1>1 DEF Places, PushPlaces, PopPlaces
<1> QED BY <1>2, <1>3 DEF Places

\* A flush: no pop is under way; a push may be.
LEMMA PlacesFlush ==
    ASSUME Places, FlushDone \/ TxResume PROVE Places'
<1>1. /\ flushLock = "free" /\ readPointer' = 0 /\ writePointer' = 0
      /\ busySize' = 0 /\ freeSize' = Size
      /\ torn' = (torn \/ push # "none")
      /\ UNCHANGED <<buffer, flushLock, next, push, want, pushed, toPop,
                     popped, out, exit, leaked>>
  BY DEF FlushDone, TxResume, Reset, txVars, pushVars
<1>2. \/ app = "flush" /\ app' = "idle" /\ tx' = tx
      \/ app' = app /\ tx = "resume" /\ tx' \in {"look", "eos"}
  BY DEF FlushDone, TxResume, txVars
<1>3. TypeOK'
  BY <1>1, <1>2, Sizes DEF Places, TypeOK, Cell
<1>4. PushPlaces'
  BY <1>1, Sizes DEF Places, TypeOK, PushPlaces
<1>5. PopPlaces'
  BY <1>1, <1>2 DEF Places, TypeOK, PopPlaces
<1> QED BY <1>3, <1>4, <1>5 DEF Places

\* The transmit thread outside a pop.
LEMMA PlacesOutside ==
    ASSUME Places,
           \/ TxExit \/ TxStatus \/ TxResumeFail \/ TxCompare \/ TxRead
           \/ PopInvalid
    PROVE  Places'
<1>1. /\ UNCHANGED <<ring, next, app, pushVars, popped, out, exit, torn>>
      /\ tx \in {"top", "resume", "look", "read", "pop"}
      /\ tx' \in {"exited", "look", "resume", "top", "read", "pop"}
      /\ flushLock' \in {flushLock, "tx"} /\ leaked' \in BOOLEAN
  BY DEF TxExit, TxStatus, TxResumeFail, TxCompare, TxRead, PopInvalid,
         Places, TypeOK
<1>2. toPop' \in 0..Size
  <2>1. CASE TxCompare
    <3>1. toPop' = toPop \/ \E room \in 0..Size : toPop' = room
      BY <2>1 DEF TxCompare
    <3> QED BY <3>1 DEF Places, TypeOK
  <2>2. CASE TxExit \/ TxStatus \/ TxResumeFail \/ TxRead \/ PopInvalid
    BY <2>2, Sizes DEF TxExit, TxStatus, TxResumeFail, TxRead, PopInvalid,
                       Places, TypeOK
  <2> QED BY <2>1, <2>2
<1>3. TypeOK'
  BY <1>1, <1>2 DEF Places, TypeOK, ring, pushVars
<1>4. PushPlaces' /\ PopPlaces'
  BY <1>1 DEF Places, PushPlaces, PopPlaces, ring, pushVars
<1> QED BY <1>3, <1>4 DEF Places

LEMMA PlacesPopLock ==
    ASSUME Places, PopLock PROVE Places'
<1>1. /\ tx = "pop" /\ toPop <= busySize /\ flushLock' = "tx"
      /\ tx' = IF toPop = 0 THEN "unlock" ELSE "copy"
      /\ UNCHANGED <<ring, next, app, pushVars, toPop, popped, out, exit,
                     leaked, torn>>
  BY DEF PopLock
<1>2. TypeOK'
  BY <1>1 DEF Places, TypeOK, ring, pushVars
<1>3. out = << >> /\ Len(out) = 0 /\ popped = 0 /\ toPop \in 0..Size
  BY <1>1, EmptySeq DEF Places, PopPlaces, TypeOK
<1>4. PushPlaces' /\ PopPlaces'
  BY <1>1, <1>3, Sizes DEF Places, PushPlaces, PopPlaces, TypeOK, ring, pushVars
<1> QED BY <1>2, <1>4 DEF Places

\* What a copy of the pop appends to localBuffer.
Chunk(n) == [i \in 1..n |-> buffer[readPointer + i - 1]]

LEMMA PopCopies ==
    ASSUME Places, PopCopy,
           NEW n, n = UpToEnd(readPointer, toPop)
    PROVE  /\ tx = "copy" /\ tx' = "count" /\ popped = 0
           /\ n \in 1..toPop /\ toPop \in 1..Size
           /\ readPointer + n <= Size
           /\ readPointer' = Around(readPointer + n) /\ readPointer' \in Cell
           /\ popped' = n /\ toPop' = toPop - n
           /\ Chunk(n) \in Seq(Byte) /\ Len(Chunk(n)) = n
           /\ out' = out \o Chunk(n) /\ out' \in Seq(Byte)
           /\ Len(out') = Len(out) + n
           /\ UNCHANGED <<buffer, writePointer, busySize, freeSize, flushLock,
                          next, app, pushVars, exit, leaked, torn>>
<1>1. /\ tx = "copy" /\ tx' = "count" /\ readPointer' = Advance(readPointer, n)
      /\ popped' = n /\ toPop' = toPop - n /\ out' = out \o Chunk(n)
      /\ UNCHANGED <<buffer, writePointer, busySize, freeSize, flushLock,
                     next, app, pushVars, exit, leaked, torn>>
  BY DEF PopCopy, Chunk
<1>2. /\ toPop \in 1..Size /\ readPointer \in Cell /\ popped = 0
      /\ out \in Seq(Byte) /\ buffer \in [Cell -> Byte]
  BY <1>1, Sizes DEF Places, TypeOK, PopPlaces
<1>3. /\ n \in 1..toPop /\ readPointer + n <= Size
      /\ readPointer' \in Cell /\ readPointer' = Around(readPointer + n)
  BY <1>1, <1>2, CopyInOneGo
<1>4. Chunk(n) \in [1..n -> Byte]
  <2>1. \A i \in 1..n : readPointer + i - 1 \in Cell
    BY <1>2, <1>3, Sizes DEF Cell
  <2> QED BY <1>2, <2>1 DEF Chunk
<1>5. n \in Nat
  BY <1>3
<1>6. Chunk(n) \in Seq(Byte) /\ Len(Chunk(n)) = n
  BY <1>4, <1>5, FunctionSeq
<1>7. out \o Chunk(n) \in Seq(Byte) /\ Len(out \o Chunk(n)) = Len(out) + n
  <2> DEFINE c == Chunk(n)
  <2>1. c \in Seq(Byte) /\ Len(c) = n /\ out \in Seq(Byte)
    BY <1>2, <1>6
  <2> HIDE DEF c
  <2>2. out \o c \in Seq(Byte) /\ Len(out \o c) = Len(out) + Len(c)
    BY <2>1, ConcatProperties
  <2> QED BY <2>1, <2>2 DEF c
<1>8. out' \in Seq(Byte) /\ Len(out') = Len(out) + n
  BY <1>1, <1>7, Zenon
<1>9. /\ n \in 1..toPop /\ toPop \in 1..Size /\ readPointer + n <= Size
      /\ readPointer' = Around(readPointer + n) /\ readPointer' \in Cell
  BY <1>2, <1>3
<1> QED BY <1>1, <1>2, <1>6, <1>8, <1>9, Zenon

LEMMA PlacesPopCopy ==
    ASSUME Places, PopCopy PROVE Places'
<1>1. PICK n : n = UpToEnd(readPointer, toPop)
  OBVIOUS
<1>2. /\ tx = "copy" /\ tx' = "count" /\ popped = 0
      /\ n \in 1..toPop /\ toPop \in 1..Size
      /\ readPointer' \in Cell
      /\ popped' = n /\ toPop' = toPop - n
      /\ out' \in Seq(Byte) /\ Len(out') = Len(out) + n
      /\ UNCHANGED <<buffer, writePointer, busySize, freeSize, flushLock,
                     next, app, pushVars, exit, leaked, torn>>
  BY <1>1, PopCopies
<1>3. /\ Len(out) \in Nat /\ Len(out) + toPop <= Size /\ toPop <= busySize
      /\ busySize \in 0..Size
  BY <1>2, LenProperties DEF Places, TypeOK, PopPlaces
<1>4. TypeOK'
  BY <1>2, <1>3, Sizes DEF Places, TypeOK, pushVars
<1>5. PushPlaces' /\ PopPlaces'
  BY <1>2, <1>3, Sizes DEF Places, PushPlaces, PopPlaces, pushVars
<1> QED BY <1>4, <1>5 DEF Places

LEMMA PlacesPopCount ==
    ASSUME Places, PopCount PROVE Places'
<1>1. /\ tx = "count"
      /\ busySize' = busySize - popped /\ freeSize' = freeSize + popped
      /\ popped' = 0 /\ tx' = IF toPop > 0 THEN "copy" ELSE "unlock"
      /\ UNCHANGED <<buffer, readPointer, writePointer, flushLock, next,
                     app, pushVars, toPop, out, exit, leaked, torn>>
  BY DEF PopCount
<1>2. /\ busySize \in 0..Size /\ freeSize = Size - busySize
      /\ popped \in 1..Size /\ toPop \in 0..Size /\ toPop + popped <= busySize
      /\ Size \in Nat /\ Len(out) + toPop <= Size /\ flushLock = "tx"
      /\ Len(out) \in Nat /\ want \in 0..Size /\ pushed \in 0..Size
  BY <1>1, Sizes, LenProperties DEF Places, TypeOK, PopPlaces
<1>3. /\ busySize' \in 0..Size /\ freeSize' = Size - busySize'
      /\ toPop <= busySize' /\ freeSize' >= freeSize
  BY <1>1, <1>2
<1>4. TypeOK'
  BY <1>1, <1>2, <1>3 DEF Places, TypeOK, pushVars
<1>5. PushPlaces'
  BY <1>1, <1>2, <1>3 DEF Places, PushPlaces, pushVars
<1>6. PopPlaces'
  BY <1>1, <1>2, <1>3 DEF PopPlaces
<1> QED BY <1>4, <1>5, <1>6 DEF Places

LEMMA PlacesSend ==
    ASSUME Places, PopUnlock \/ TxSend PROVE Places'
<1>1. /\ UNCHANGED <<ring, next, app, pushVars, toPop, popped, exit,
                     leaked, torn>>
      /\ flushLock' \in {flushLock, "free"}
      /\ \/ tx = "unlock" /\ tx' = "send" /\ out' = out
         \/ tx = "send" /\ tx' = "top" /\ out' = << >> /\ Len(out') = 0
  BY EmptySeq DEF PopUnlock, TxSend
<1>2. out' \in Seq(Byte) /\ Len(out') <= Size
  <2>1. CASE out' = out
    BY <2>1 DEF Places, TypeOK
  <2>2. CASE out' = << >> /\ Len(out') = 0
    BY <2>2, EmptySeq, Sizes
  <2> QED BY <1>1, <2>1, <2>2
<1>3. TypeOK'
  BY <1>1, <1>2 DEF Places, TypeOK, ring, pushVars
<1>4. PushPlaces' /\ PopPlaces'
  BY <1>1 DEF Places, PushPlaces, PopPlaces, ring, pushVars
<1> QED BY <1>3, <1>4 DEF Places

LEMMA PlacesNext ==
    ASSUME Places, [Next]_vars PROVE Places'
<1>1. CASE UNCHANGED vars
  BY <1>1 DEF vars, ring, pushVars, txVars, Places, TypeOK, PushPlaces, PopPlaces
<1>2. CASE Next
  BY <1>2, PlacesCalls, PlacesPushCopy, PlacesPushCount, PlacesFlush,
     PlacesCollide, PlacesOutside, PlacesPopLock, PlacesPopCopy, PlacesPopCount,
     PlacesSend
     DEF Next, AppStep, PushStep, TxStep, EosClosed
<1> QED BY <1>1, <1>2

\* Every reachable state has the declared types: busySize and freeSize stay in
\* 0..Size and add up to it, both pointers stay in the buffer, and localBuffer
\* never holds more than the buffer; also after a flush by one thread in the
\* middle of a push by the other.
THEOREM BufferTypes == Spec => []TypeOK
<1>1. Init => Places
  BY PlacesInit
<1>2. Places /\ [Next]_vars => Places'
  BY PlacesNext
<1>3. Places => TypeOK
  BY DEF Places
<1> QED BY <1>1, <1>2, <1>3, PTL DEF Spec

-----------------------------------------------------------------------------
(***************************************************************************)
(* The cells of the buffer, counted from the first byte of the queue.      *)
(***************************************************************************)
LEMMA CellsAround ==
    ASSUME NEW first \in Cell, NEW i \in 0..Size
    PROVE  Around(first + i) \in Cell
BY Sizes DEF Around, Cell

LEMMA CellsDiffer ==
    ASSUME NEW first \in Cell, NEW i \in 0..(Size - 1), NEW j \in 0..(Size - 1),
           i # j
    PROVE  Around(first + i) # Around(first + j)
BY Sizes DEF Around, Cell

LEMMA CellsAdd ==
    ASSUME NEW first \in Cell, NEW m \in 0..Size, NEW i \in 0..(Size - m)
    PROVE  Around(Around(first + m) + i) = Around(first + (m + i))
BY Sizes DEF Around, Cell

LEMMA FirstCell ==
    ASSUME Places
    PROVE  First \in Cell /\ readPointer = Around(First + popped)
BY Sizes DEF Places, TypeOK, First, Around, Cell

\* What n bytes from the cell first on hold.
Bytes(b, first, n) == [i \in 1..n |-> b[Around(first + i - 1)]]

LEMMA BytesSeq ==
    ASSUME NEW b \in [Cell -> Byte], NEW first \in Cell, NEW n \in 0..Size
    PROVE  /\ Bytes(b, first, n) \in Seq(Byte) /\ Len(Bytes(b, first, n)) = n
           /\ \A i \in 1..n : Bytes(b, first, n)[i] = b[Around(first + (i - 1))]
<1>1. n \in Nat /\ first \in Int
  BY Sizes DEF Cell
<1>2. \A i \in 1..n : first + i - 1 = first + (i - 1)
  BY <1>1
<1>3. \A i \in 1..n : Around(first + (i - 1)) \in Cell
  <2> TAKE i \in 1..n
  <2>1. i - 1 \in 0..Size
    BY Sizes
  <2> QED BY <2>1, CellsAround
<1>4. \A i \in 1..n : Bytes(b, first, n)[i] = b[Around(first + (i - 1))]
  BY <1>2 DEF Bytes
<1>5. Bytes(b, first, n) \in [1..n -> Byte]
  BY <1>2, <1>3 DEF Bytes
<1> QED BY <1>1, <1>4, <1>5, FunctionSeq

LEMMA QueueSeq ==
    ASSUME Places
    PROVE  /\ Queue \in Seq(Byte) /\ Len(Queue) = busySize
           /\ \A i \in 1..busySize : Queue[i] = buffer[Around(First + (i - 1))]
<1>1. First \in Cell /\ busySize \in 0..Size /\ buffer \in [Cell -> Byte]
  BY FirstCell DEF Places, TypeOK
<1>2. Queue = Bytes(buffer, First, busySize)
  BY DEF Queue, Bytes
<1> QED BY <1>1, <1>2, BytesSeq

-----------------------------------------------------------------------------
(***************************************************************************)
(* The invariant of the bytes.                                             *)
(***************************************************************************)
\* The write pointer stands after the queue and the bytes not counted yet.
Pointers == writePointer = Around(First + (busySize + pushed))

\* The bytes copied out and not counted yet are the first ones of the queue.
Copied == \A i \in 1..popped : out[(Len(out) - popped) + i] = Queue[i]

\* The bytes copied in and not counted yet are the next ones.
Written ==
    \A i \in 1..pushed :
        buffer[Around(First + (busySize + (i - 1)))] = (next + i - 1) % Numbers

BytesInv == Places /\ Pointers /\ Copied /\ Written

LEMMA BytesInit ==
    ASSUME Init PROVE BytesInv
<1>1. Places
  BY PlacesInit
<1>2. Pointers /\ Copied /\ Written
  BY Sizes DEF Init, Pointers, Copied, Written, First, Around
<1> QED BY <1>1, <1>2 DEF BytesInv

\* A step that leaves the ring and the bytes under way alone.
LEMMA BytesKept ==
    ASSUME BytesInv, Places', UNCHANGED <<ring, next, pushed, popped>>,
           out' = out \/ popped = 0
    PROVE  BytesInv' /\ Queue' = Queue
<1>1. First' = First /\ Queue' = Queue
  BY DEF First, Queue, ring
<1>2. Pointers'
  BY <1>1 DEF BytesInv, Pointers, ring
<1>3. Copied'
  BY <1>1, Sizes DEF BytesInv, Copied
<1>4. Written'
  BY <1>1 DEF BytesInv, Written, ring
<1> QED BY <1>1, <1>2, <1>3, <1>4 DEF BytesInv

\* A push copies into cells outside the queue.
LEMMA BytesPushCopy ==
    ASSUME BytesInv, AppPush \/ EosPush \/ PushWrap
    PROVE  BytesInv' /\ Queue' = Queue /\ UNCHANGED <<next, out, popped>>
<1>1. Places /\ Places'
  BY PlacesPushCopy DEF BytesInv
<1>2. PICK l \in 1..Size : l <= freeSize /\ CopyIn(l)
  BY <1>1, CopiesIn
<1> DEFINE w == writePointer
           n == UpToEnd(w, l)
<1>3. /\ pushed = 0 /\ pushed' = n
      /\ writePointer' = Advance(w, n)
      /\ UNCHANGED <<readPointer, busySize, freeSize, next, popped, out>>
  BY <1>1, <1>2, CopiesIn DEF CopyIn
<1>4. buffer' = [c \in Cell |-> IF c \in w..(w + n - 1)
                                THEN (next + c - w) % Numbers ELSE buffer[c]]
  BY <1>2 DEF CopyIn
<1>5. busySize \in 0..Size /\ w \in Cell /\ next \in Nat /\ freeSize = Size - busySize
  BY <1>1, ByteNumbers DEF Places, TypeOK
<1>6. /\ n \in 1..Size /\ w + n <= Size /\ writePointer' = Around(w + n)
      /\ busySize + n <= Size
  <2>1. /\ n \in 1..l /\ w + n <= Size /\ Advance(w, n) = Around(w + n)
    BY <1>2, <1>5, CopyInOneGo
  <2> HIDE DEF n
  <2> QED BY <1>2, <1>3, <1>5, <2>1, Sizes
<1> HIDE DEF n
<1>7. First \in Cell /\ First' = First
  BY <1>3, <1>1, <1>5, <1>6, FirstCell, PlacesPushCopy DEF First
<1>8. w = Around(First + busySize)
  BY <1>3, <1>5, <1>7 DEF BytesInv, Pointers
<1>9. \A j \in 0..n : Around(w + j) = Around(First + (busySize + j))
  <2> TAKE j \in 0..n
  <2>1. j \in 0..(Size - busySize)
    BY <1>5, <1>6, Sizes
  <2> QED BY <1>5, <1>7, <1>8, <2>1, CellsAdd
<1>10. \A j \in 0..(n - 1) : Around(w + j) = w + j /\ w + j \in Cell
  BY <1>5, <1>6, Sizes DEF Cell, Around
<1>11. \A i \in 1..busySize :
          buffer'[Around(First + (i - 1))] = buffer[Around(First + (i - 1))]
  <2> TAKE i \in 1..busySize
  <2> DEFINE c == Around(First + (i - 1))
  <2>1. i - 1 \in 0..Size /\ i - 1 \in 0..(Size - 1)
    BY <1>5, Sizes
  <2>2. c \in Cell
    BY <1>7, <2>1, CellsAround
  <2>3. c \notin w..(w + n - 1)
    <3> SUFFICES ASSUME c \in w..(w + n - 1) PROVE FALSE
      OBVIOUS
    <3>1. PICK j \in 0..(n - 1) : c = w + j
      <4> HIDE DEF c
      <4>1. c - w \in 0..(n - 1) /\ c = w + (c - w)
        BY <1>5, <1>6, <2>2, Sizes DEF Cell
      <4> QED BY <4>1
    <3>2. c = Around(First + (busySize + j))
      BY <1>6, <1>9, <1>10, <3>1
    <3>3. busySize + j \in 0..(Size - 1) /\ busySize + j # i - 1
      BY <1>5, <1>6, Sizes
    <3> QED BY <1>7, <2>1, <3>2, <3>3, CellsDiffer
  <2> HIDE DEF c
  <2>4. buffer'[c] = buffer[c]
    BY <1>4, <2>2, <2>3
  <2> QED BY <2>4 DEF c
<1>12. Queue' = Queue
  <2>1. \A i \in 1..busySize : First + i - 1 = First + (i - 1)
    BY <1>5, <1>7, Sizes DEF Cell
  <2> QED BY <1>3, <1>7, <1>11, <2>1 DEF Queue
<1>13. Pointers'
  <2>1. Around(w + n) = Around(First + (busySize + n))
    BY <1>6, <1>9
  <2> QED BY <1>3, <1>6, <1>7, <2>1 DEF Pointers
<1>14. Copied'
  BY <1>3, <1>12 DEF BytesInv, Copied
<1>15. Written'
  <2> SUFFICES ASSUME NEW i \in 1..n
               PROVE  buffer'[Around(First + (busySize + (i - 1)))]
                          = (next + i - 1) % Numbers
    BY <1>3, <1>7 DEF Written
  <2>1. i - 1 \in 0..n /\ i - 1 \in 0..(n - 1)
    BY <1>6
  <2>2. Around(First + (busySize + (i - 1))) = w + (i - 1) /\ w + (i - 1) \in Cell
    BY <1>9, <1>10, <2>1
  <2>3. /\ w + (i - 1) \in w..(w + n - 1)
        /\ next + (w + (i - 1)) - w = next + i - 1
    BY <1>5, <1>6, <2>1, Sizes DEF Cell
  <2> QED BY <1>4, <2>2, <2>3
<1> QED BY <1>1, <1>3, <1>12, <1>13, <1>14, <1>15 DEF BytesInv

\* Counting a push appends its bytes to the queue.
LEMMA BytesPushCount ==
    ASSUME BytesInv, PushCount
    PROVE  BytesInv' /\ Fifo!Push
<1> DEFINE p == pushed
           new == [i \in 1..p |-> (next + i - 1) % Numbers]
<1>1. /\ push = "count" /\ pushed' = 0
      /\ busySize' = busySize + p /\ next' = (next + p) % Numbers
      /\ UNCHANGED <<buffer, readPointer, writePointer, popped, out>>
  BY DEF PushCount, txVars
<1>2. Places /\ Places'
  BY PlacesPushCount DEF BytesInv
<1>3. /\ p \in 1..(Size - busySize) /\ busySize \in 0..Size /\ popped \in 0..busySize
      /\ want \in 0..Size
  BY <1>1, <1>2, Sizes DEF Places, TypeOK, PushPlaces, PopPlaces
<1>4. next \in Nat
  BY <1>2, ByteNumbers DEF Places, TypeOK
<1>5. First' = First /\ First \in Cell
  BY <1>1, <1>2, FirstCell DEF First
<1>6. /\ Queue \in Seq(Byte) /\ Len(Queue) = busySize
      /\ \A i \in 1..busySize : Queue[i] = buffer[Around(First + (i - 1))]
  BY <1>2, QueueSeq
<1>7. /\ Queue' \in Seq(Byte) /\ Len(Queue') = busySize + p
      /\ \A i \in 1..(busySize + p) : Queue'[i] = buffer[Around(First + (i - 1))]
  <2>1. busySize + p \in 0..Size /\ buffer \in [Cell -> Byte]
    BY <1>2, <1>3, Sizes DEF Places, TypeOK
  <2>2. Queue' = Bytes(buffer, First, busySize + p)
    BY <1>1, <1>5 DEF Queue, Bytes
  <2> QED BY <1>5, <2>1, <2>2, BytesSeq
<1>8. new \in Seq(Byte) /\ Len(new) = p
  <2>1. \A i \in 1..p : next + i - 1 \in Int
    BY <1>4
  <2>2. new \in [1..p -> Byte]
    BY <2>1, ByteNumbers
  <2>3. p \in Nat
    BY <1>3
  <2> HIDE DEF new, p
  <2> QED BY <2>2, <2>3, FunctionSeq
<1>9. Queue' = Queue \o new
  <2>1. /\ Queue \o new \in Seq(Byte) /\ Len(Queue \o new) = busySize + p
        /\ \A i \in 1..(busySize + p) : (Queue \o new)[i] =
              IF i <= busySize THEN Queue[i] ELSE new[i - busySize]
    <3> HIDE DEF new
    <3> QED BY <1>6, <1>8, ConcatProperties
  <2>2. \A i \in 1..(busySize + p) : Queue'[i] = (Queue \o new)[i]
    <3> TAKE i \in 1..(busySize + p)
    <3>1. CASE i <= busySize
      <4>1. i \in 1..busySize
        BY <1>3, <3>1
      <4> QED BY <1>6, <1>7, <2>1, <3>1, <4>1
    <3>2. CASE ~(i <= busySize)
      <4>1. PICK j \in 1..p : i = busySize + j
        <5>1. i - busySize \in 1..p /\ i = busySize + (i - busySize)
          BY <1>3, <3>2
        <5> QED BY <5>1
      <4>2. i - busySize = j /\ i - 1 = busySize + (j - 1)
        BY <1>3, <4>1
      <4>3. Queue'[i] = buffer[Around(First + (busySize + (j - 1)))]
        BY <1>7, <4>2
      <4>4. Queue'[i] = (next + j - 1) % Numbers
        BY <4>3 DEF BytesInv, Written
      <4>5. (Queue \o new)[i] = new[j]
        BY <2>1, <3>2, <4>2
      <4> QED BY <4>4, <4>5
    <3> QED BY <3>1, <3>2
  <2> HIDE DEF new
  <2> QED BY <1>7, <2>1, <2>2, SeqEqual
<1>10. Pointers'
  <2>1. busySize + p = busySize' + pushed'
    BY <1>1, <1>3
  <2> QED BY <1>1, <1>5, <2>1 DEF BytesInv, Pointers
<1>11. Copied'
  <2>1. \A i \in 1..popped : i \in 1..busySize /\ i \in 1..(busySize + p)
    BY <1>3
  <2>2. \A i \in 1..popped : Queue'[i] = Queue[i]
    BY <1>6, <1>7, <2>1
  <2> QED BY <1>1, <2>2 DEF BytesInv, Copied
<1>12. Written'
  BY <1>1 DEF Written
<1>13. Fifo!Push
  <2>1. p \in 1..(Size - Len(Queue))
    BY <1>3, <1>6
  <2> QED BY <1>1, <1>9, <2>1 DEF Fifo!Push, Sent
<1> QED BY <1>2, <1>10, <1>11, <1>12, <1>13 DEF BytesInv

\* A flush outside a push empties the queue.
LEMMA BytesFlush ==
    ASSUME BytesInv, FlushDone \/ TxResume, ~torn'
    PROVE  BytesInv' /\ Fifo!Flush
<1>1. /\ flushLock = "free" /\ readPointer' = 0 /\ writePointer' = 0
      /\ busySize' = 0 /\ UNCHANGED <<pushed, popped, next, out>>
  BY DEF FlushDone, TxResume, Reset, txVars, pushVars
<1>2. push = "none"
  BY DEF FlushDone, TxResume, Reset
<1>3. Places /\ Places'
  BY PlacesFlush DEF BytesInv
<1>4. pushed = 0 /\ popped = 0
  BY <1>1, <1>2, <1>3 DEF Places, PushPlaces, PopPlaces
<1>5. First' = 0
  BY <1>1, <1>4 DEF First
<1>6. Pointers' /\ Copied' /\ Written'
  BY <1>1, <1>4, <1>5, Sizes DEF Pointers, Copied, Written, Around
<1>7. Queue' = << >>
  BY <1>1 DEF Queue
<1>8. Sent' = Sent
  BY <1>1 DEF Sent
<1> QED BY <1>1, <1>3, <1>6, <1>7, <1>8 DEF BytesInv, Fifo!Flush

-----------------------------------------------------------------------------
(***************************************************************************)
(* Pops.                                                                   *)
(***************************************************************************)
\* Without bytes that are not counted yet localBuffer has what was taken.
LEMMA SentAll ==
    ASSUME Places, popped = 0 PROVE Sent = out
<1>1. out \in Seq(Byte) /\ Len(out) \in Nat
  BY LenProperties DEF Places, TypeOK
<1>2. Len(out) - popped = Len(out)
  BY <1>1
<1> QED BY <1>1, <1>2, SubSeqFull DEF Sent

LEMMA BytesPopCopy ==
    ASSUME BytesInv, PopCopy
    PROVE  BytesInv' /\ Queue' = Queue /\ Sent' = Sent
<1>1. Places /\ Places'
  BY PlacesPopCopy DEF BytesInv
<1>2. PICK n : n = UpToEnd(readPointer, toPop)
  OBVIOUS
<1>3. /\ popped = 0 /\ n \in 1..toPop /\ toPop \in 1..Size
      /\ readPointer + n <= Size /\ readPointer' = Around(readPointer + n)
      /\ popped' = n /\ out' = out \o Chunk(n)
      /\ Chunk(n) \in Seq(Byte) /\ Len(Chunk(n)) = n
      /\ Len(out') = Len(out) + n /\ out' \in Seq(Byte)
      /\ UNCHANGED <<buffer, writePointer, busySize, next, pushed>>
  BY <1>1, <1>2, PopCopies DEF pushVars
<1>4. /\ out \in Seq(Byte) /\ Len(out) \in Nat /\ readPointer \in Cell
      /\ n \in 1..busySize /\ busySize \in 0..Size
  <2>1. toPop <= busySize /\ busySize \in 0..Size
    BY <1>3, PopCopies, <1>1 DEF Places, PopPlaces, TypeOK, PopCopy
  <2>2. n \in 1..busySize
    BY <1>3, <2>1, Sizes
  <2> QED BY <1>1, <2>1, <2>2, LenProperties DEF Places, TypeOK
<1>5. First = readPointer /\ First' = readPointer
  BY <1>3, <1>4, Sizes DEF First, Around, Cell
<1>6. Queue' = Queue
  BY <1>3, <1>5 DEF Queue
<1>7. /\ \A i \in 1..Len(out) : out'[i] = out[i]
      /\ \A i \in 1..n : out'[Len(out) + i] = Chunk(n)[i]
  <2>1. \A i \in 1..(Len(out) + Len(Chunk(n))) : out'[i] =
            IF i <= Len(out) THEN out[i] ELSE Chunk(n)[i - Len(out)]
    BY <1>3, <1>4, ConcatProperties
  <2>2. \A i \in 1..Len(out) : i \in 1..(Len(out) + n) /\ i <= Len(out)
    BY <1>3, <1>4
  <2>3. \A i \in 1..n : /\ Len(out) + i \in 1..(Len(out) + n)
                        /\ ~(Len(out) + i <= Len(out))
                        /\ (Len(out) + i) - Len(out) = i
    BY <1>3, <1>4
  <2> QED BY <1>3, <2>1, <2>2, <2>3
<1>8. Sent' = out
  <2>1. Len(out') - popped' = Len(out)
    BY <1>3, <1>4
  <2>2. /\ \A i \in 1..Len(out) : out'[i] \in Byte
        /\ Len(out) - 1 + 1 = Len(out)
    BY <1>4, <1>7, ElementOfSeq
  <2>3. /\ SubSeq(out', 1, Len(out)) \in Seq(Byte)
        /\ Len(SubSeq(out', 1, Len(out))) = Len(out)
        /\ \A i \in 1..Len(out) : SubSeq(out', 1, Len(out))[i] = out'[i]
    BY <1>3, <1>4, <2>2, SubSeqProperties
  <2>4. SubSeq(out', 1, Len(out)) = out
    BY <1>4, <1>7, <2>3, SeqEqual
  <2> QED BY <2>1, <2>4 DEF Sent
<1>9. Sent = out
  BY <1>1, <1>3, SentAll
<1>10. Pointers' /\ Written'
  BY <1>3, <1>5 DEF BytesInv, Pointers, Written
<1>11. Copied'
  <2> SUFFICES ASSUME NEW i \in 1..n
               PROVE  out'[(Len(out') - n) + i] = Queue[i]
    BY <1>3, <1>6 DEF Copied
  <2>1. Len(out') - n = Len(out) /\ i \in 1..busySize
    BY <1>3, <1>4
  <2>2. Queue[i] = buffer[readPointer + i - 1]
    <3>1. Queue[i] = buffer[Around(readPointer + (i - 1))]
      BY <1>1, <1>5, <2>1, QueueSeq
    <3>2. Around(readPointer + (i - 1)) = readPointer + i - 1
      BY <1>3, <1>4, Sizes DEF Around, Cell
    <3> QED BY <3>1, <3>2
  <2> QED BY <1>7, <2>1, <2>2 DEF Chunk
<1> QED BY <1>1, <1>6, <1>8, <1>9, <1>10, <1>11 DEF BytesInv

\* Counting a pop takes its bytes from the front of the queue.
LEMMA BytesPopCount ==
    ASSUME BytesInv, PopCount
    PROVE  BytesInv' /\ Fifo!Take
<1> DEFINE p == popped
<1>1. /\ tx = "count" /\ popped' = 0 /\ busySize' = busySize - p
      /\ UNCHANGED <<buffer, readPointer, writePointer, next, pushed, out>>
  BY DEF PopCount, pushVars
<1>2. Places /\ Places'
  BY PlacesPopCount DEF BytesInv
<1>3. /\ p \in 1..busySize /\ busySize \in 0..Size /\ Len(out) \in Nat
      /\ p <= Len(out) /\ out \in Seq(Byte) /\ pushed \in 0..(Size - busySize)
  <2>1. /\ out \in Seq(Byte) /\ Len(out) \in Nat
    BY <1>2, LenProperties DEF Places, TypeOK
  <2>2. /\ p \in 1..busySize /\ busySize \in 0..Size /\ p <= Len(out)
    BY <1>1, <1>2, Sizes DEF Places, TypeOK, PopPlaces
  <2>3. pushed \in 0..(Size - busySize)
    BY <1>2, <2>2, Sizes DEF Places, TypeOK, PushPlaces
  <2> QED BY <2>1, <2>2, <2>3
<1>4. First \in Cell /\ readPointer = Around(First + p) /\ First' = readPointer
  <2>1. First \in Cell /\ readPointer = Around(First + p)
    BY <1>2, FirstCell
  <2>2. readPointer \in Nat
    BY <1>2, Sizes DEF Places, TypeOK, Cell
  <2>3. First' = readPointer
    BY <1>1, <2>2 DEF First
  <2> QED BY <2>1, <2>3
<1>5. \A i \in 0..(Size - p) : Around(First' + i) = Around(First + (p + i))
  <2>1. p \in 0..Size
    BY <1>3, Sizes
  <2> HIDE DEF p
  <2> QED BY <1>4, <2>1, CellsAdd
<1>6. /\ Queue \in Seq(Byte) /\ Len(Queue) = busySize
      /\ \A i \in 1..busySize : Queue[i] = buffer[Around(First + (i - 1))]
  BY <1>2, QueueSeq
<1>7. /\ Queue' \in Seq(Byte) /\ Len(Queue') = busySize - p
      /\ \A i \in 1..(busySize - p) :
            Queue'[i] = buffer[Around(First' + (i - 1))]
  <2>1. First' \in Cell /\ busySize - p \in 0..Size /\ buffer \in [Cell -> Byte]
    <3>1. readPointer \in Cell /\ buffer \in [Cell -> Byte]
      BY <1>2 DEF Places, TypeOK
    <3>2. busySize - p \in 0..Size
      <4> HIDE DEF p
      <4> QED BY <1>3, Sizes
    <3> QED BY <1>4, <3>1, <3>2
  <2>2. Queue' = Bytes(buffer, First', busySize - p)
    BY <1>1 DEF Queue, Bytes
  <2> QED BY <2>1, <2>2, BytesSeq
<1>8. \A i \in 1..(busySize - p) : Queue'[i] = Queue[p + i]
  <2> TAKE i \in 1..(busySize - p)
  <2>1. /\ i - 1 \in 0..(Size - p) /\ p + i \in 1..busySize
        /\ p + (i - 1) = (p + i) - 1
    BY <1>3, Sizes
  <2>2. Around(First' + (i - 1)) = Around(First + ((p + i) - 1))
    BY <1>5, <2>1
  <2> QED BY <1>6, <1>7, <2>1, <2>2
<1>9. Queue' = SubSeq(Queue, p + 1, Len(Queue))
  <2> DEFINE rest == SubSeq(Queue, p + 1, busySize)
  <2>1. /\ p + 1 \in Int /\ busySize \in Int /\ p + 1 <= busySize + 1
        /\ (busySize - (p + 1)) + 1 = busySize - p
        /\ \A i \in (p + 1)..busySize : i \in 1..busySize
        /\ \A i \in 1..(busySize - p) : ((p + 1) + i) - 1 = p + i
    BY <1>3, Sizes
  <2>2. \A i \in (p + 1)..busySize : Queue[i] \in Byte
    BY <1>6, <2>1, ElementOfSeq
  <2>3. /\ rest \in Seq(Byte)
        /\ Len(rest) = IF p + 1 <= busySize THEN (busySize - (p + 1)) + 1 ELSE 0
        /\ \A i \in 1..((busySize - (p + 1)) + 1) :
              rest[i] = Queue[((p + 1) + i) - 1]
    BY <2>1, <2>2, SubSeqProperties
  <2> HIDE DEF rest
  <2>4. Len(rest) = busySize - p
    BY <1>3, <2>3, Sizes
  <2>5. \A i \in 1..(busySize - p) : rest[i] = Queue[p + i]
    BY <2>1, <2>3
  <2>6. Queue' = rest
    BY <1>7, <1>8, <2>3, <2>4, <2>5, SeqEqual
  <2> QED BY <1>6, <2>6 DEF rest
<1>10. Sent' = Sent \o SubSeq(Queue, 1, p)
  <2> DEFINE k == Len(out) - p
             last == SubSeq(out, k + 1, Len(out))
  <2>1. /\ k \in 0..Len(out) /\ k + 1 \in Int /\ k + 1 <= Len(out)
        /\ (Len(out) - (k + 1)) + 1 = p
        /\ \A i \in (k + 1)..Len(out) : i \in 1..Len(out)
        /\ \A i \in 1..p : ((k + 1) + i) - 1 = k + i
        /\ \A i \in 1..p : i \in 1..busySize
        /\ (p - 1) + 1 = p /\ 1 <= p /\ p \in Int
        /\ \A i \in 1..p : (1 + i) - 1 = i
    BY <1>3
  <2>2. SubSeq(out, 1, k) \o last = SubSeq(out, 1, Len(out))
    <3>1. /\ 1 \in 1..(Len(out) + 1) /\ k \in (1 - 1)..Len(out)
          /\ Len(out) \in k..Len(out)
      BY <1>3, <2>1
    <3> HIDE DEF k
    <3> QED BY <1>3, <3>1, ConcatAdjacentSubSeq
  <2>3. SubSeq(out, 1, Len(out)) = out
    BY <1>3, SubSeqFull
  <2>4. /\ last \in Seq(Byte) /\ Len(last) = p
        /\ \A i \in 1..p : last[i] = out[k + i]
    <3>1. \A i \in (k + 1)..Len(out) : out[i] \in Byte
      BY <1>3, <2>1, ElementOfSeq
    <3> HIDE DEF k
    <3>2. /\ last \in Seq(Byte)
          /\ Len(last) =
                IF k + 1 <= Len(out) THEN (Len(out) - (k + 1)) + 1 ELSE 0
          /\ \A i \in 1..((Len(out) - (k + 1)) + 1) :
                last[i] = out[((k + 1) + i) - 1]
      BY <1>3, <2>1, <3>1, SubSeqProperties
    <3> QED BY <2>1, <3>2
  <2>5. /\ SubSeq(Queue, 1, p) \in Seq(Byte) /\ Len(SubSeq(Queue, 1, p)) = p
        /\ \A i \in 1..p : SubSeq(Queue, 1, p)[i] = Queue[i]
    <3>1. \A i \in 1..p : Queue[i] \in Byte
      BY <1>6, <2>1, ElementOfSeq
    <3> QED BY <2>1, <3>1, SubSeqProperties
  <2>6. \A i \in 1..p : last[i] = SubSeq(Queue, 1, p)[i]
    BY <2>4, <2>5 DEF BytesInv, Copied
  <2>7. last = SubSeq(Queue, 1, p)
    <3> HIDE DEF last
    <3> QED BY <2>4, <2>5, <2>6, SeqEqual
  <2>8. Sent' = out
    BY <1>1, <1>2, SentAll, <2>3, <1>3 DEF Sent
  <2> QED BY <2>2, <2>3, <2>7, <2>8 DEF Sent
<1>11. Pointers' /\ Written'
  <2>1. /\ busySize' + pushed' \in 0..(Size - p)
        /\ p + (busySize' + pushed') = busySize + pushed
        /\ \A i \in 1..pushed : /\ busySize' + (i - 1) \in 0..(Size - p)
                                /\ p + (busySize' + (i - 1)) = busySize + (i - 1)
    BY <1>1, <1>3, Sizes
  <2>2. Pointers'
    BY <1>1, <1>5, <2>1 DEF BytesInv, Pointers
  <2>3. Written'
    BY <1>1, <1>5, <2>1 DEF BytesInv, Written
  <2> QED BY <2>2, <2>3
<1>12. Copied'
  BY <1>1 DEF Copied
<1>13. p \in 1..Len(Queue)
  BY <1>3, <1>6
<1> QED BY <1>1, <1>2, <1>9, <1>10, <1>11, <1>12, <1>13
        DEF BytesInv, Fifo!Take, Sent

\* localBuffer was transferred or is left alone.
LEMMA BytesOther ==
    ASSUME BytesInv,
           \/ Send \/ SendAbort \/ FlushInput \/ Release \/ Joined \/ EosEnd
           \/ TxExit \/ TxStatus \/ TxResumeFail \/ TxCompare \/ TxRead
           \/ PopInvalid \/ PopLock \/ PopUnlock \/ TxSend \/ UNCHANGED vars
    PROVE  /\ BytesInv' /\ next' = next /\ Queue' = Queue
           /\ Sent' = Sent \/ Sent' = << >>
<1>1. /\ UNCHANGED <<ring, next, pushed, popped>>
      /\ out' = out \/ (tx = "send" /\ out' = << >>)
  BY DEF Send, SendAbort, FlushInput, Release, Joined, EosEnd, TxExit, TxStatus,
         TxResumeFail, TxCompare, TxRead, PopInvalid, PopLock, PopUnlock,
         TxSend, vars, txVars, pushVars
<1>2. Places /\ Places'
  BY PlacesNext DEF BytesInv, Next, AppStep, TxStep
<1>3. out' = out \/ (popped = 0 /\ popped' = 0 /\ out' = << >>)
  BY <1>1, <1>2 DEF Places, PopPlaces
<1>4. BytesInv' /\ Queue' = Queue
  BY <1>1, <1>2, <1>3, BytesKept
<1>5. Sent' = Sent \/ Sent' = << >>
  <2>1. CASE out' = out
    BY <1>1, <2>1 DEF Sent
  <2>2. CASE popped' = 0 /\ out' = << >>
    <3>1. Len(out') = 0
      BY <2>2, EmptySeq
    <3>2. Len(out') - popped' = 0
      BY <2>2, <3>1
    <3>3. SubSeq(out', 1, 0) = << >>
      BY SubSeqEmpty
    <3> QED BY <3>2, <3>3 DEF Sent
  <2> QED BY <1>3, <2>1, <2>2
<1> QED BY <1>1, <1>4, <1>5

LEMMA BytesNext ==
    ASSUME BytesInv, [Next]_vars, ~torn'
    PROVE  BytesInv' /\ (Fifo!Next \/ UNCHANGED <<next, Queue, Sent>>)
<1>1. CASE AppPush \/ EosPush \/ PushWrap
  BY <1>1, BytesPushCopy DEF Sent
<1>2. CASE PushCount
  BY <1>2, BytesPushCount DEF Fifo!Next
<1>3. CASE FlushDone \/ TxResume
  BY <1>3, BytesFlush DEF Fifo!Next
<1>4. CASE PopCopy
  BY <1>4, BytesPopCopy DEF PopCopy
<1>5. CASE PopCount
  BY <1>5, BytesPopCount DEF Fifo!Next
<1>6. CASE \/ Send \/ SendAbort \/ FlushInput \/ Release \/ Joined \/ EosEnd
           \/ TxExit \/ TxStatus \/ TxResumeFail \/ TxCompare \/ TxRead
           \/ PopInvalid \/ PopLock \/ PopUnlock \/ TxSend \/ UNCHANGED vars
  BY <1>6, BytesOther DEF Fifo!Next, Fifo!Transfer
<1>7. CASE Collide
  BY <1>7 DEF Collide
<1> QED BY <1>1, <1>2, <1>3, <1>4, <1>5, <1>6, <1>7
        DEF Next, AppStep, PushStep, TxStep, EosClosed

\* What was torn stays torn.
LEMMA TornKept ==
    ASSUME [Next]_vars, torn PROVE torn'
BY DEF vars, Next, AppStep, PushStep, TxStep, Send, SendAbort, AppPush,
       PushCopy, CopyIn, PushWrap, PushCount, Collide, FlushInput, FlushDone,
       Reset, Release, Joined, TxExit, TxStatus, TxResume, EosPush, EosEnd,
       EosClosed, TxResumeFail, TxCompare, TxRead, PopLock, PopInvalid, PopCopy,
       PopCount, PopUnlock, TxSend

\* The buffer is a queue of bytes, for any size of it, until a flush or a push
\* by one thread meets a push by the other: no byte is overwritten before it was
\* sent, skipped or sent twice, though txBufPush and txBufPop share no lock, and
\* whatever flushes, the application's or those of a resume, come in between.
THEOREM BufferIsFifo == Spec => ImplementsFifo
<1> DEFINE Inv == torn \/ BytesInv
<1>1. Init => Inv /\ Fifo!Init
  <2> SUFFICES ASSUME Init PROVE BytesInv /\ Fifo!Init
    OBVIOUS
  <2>1. BytesInv
    BY BytesInit
  <2>2. Queue = << >>
    BY DEF Init, Queue
  <2>3. Sent = out /\ out = << >>
    BY <2>1, SentAll DEF Init, BytesInv
  <2> QED BY <2>1, <2>2, <2>3 DEF Init, Fifo!Init
<1>2. Inv /\ [Next]_vars =>
          Inv' /\ [torn' \/ Fifo!Next]_(<<next, Queue, Sent>>)
  BY BytesNext, TornKept
<1> QED BY <1>1, <1>2, PTL DEF Spec, ImplementsFifo
=============================================================================
