--------------------------- MODULE DioQueueProofs ---------------------------
(***************************************************************************)
(* What the operations of a DIO queue do to the set of queued packets.     *)
(***************************************************************************)
EXTENDS DioQueue, SequenceTheorems, TLAPS

\* The packets of a queue, by position.
LEMMA ItemAt ==
    ASSUME NEW S, NEW q \in Seq(S), NEW x
    PROVE  x \in Items(q) <=> \E i \in 1..Len(q) : q[i] = x
  BY LenProperties DEF Items, ToSet

\* What is in a queue of packets is a packet.
LEMMA ItemTypes ==
    ASSUME NEW S, NEW q \in Seq(S)
    PROVE  Items(q) \subseteq S
<1> SUFFICES ASSUME NEW x \in Items(q) PROVE x \in S
  OBVIOUS
<1>1. PICK i \in 1..Len(q) : q[i] = x
  BY ItemAt
<1> QED BY <1>1, ElementOfSeq

\* Adding a packet that is not queued: the queue holds it as well, once.
LEMMA AddItem ==
    ASSUME NEW S, NEW q \in Seq(S), NEW x \in S
    PROVE  /\ DioqAdd(q, x) \in Seq(S)
           /\ Items(DioqAdd(q, x)) = Items(q) \cup {x}
           /\ NoRepeats(q) /\ x \notin Items(q) => NoRepeats(DioqAdd(q, x))
  BY AppendProperties DEF Items, ToSet, NoRepeats, DioqAdd

\* Removing any one packet leaves the others, in a queue without repetitions.
LEMMA RemoveItem ==
    ASSUME NEW S, NEW q \in Seq(S), NEW k \in 1..Len(q)
    PROVE  /\ q[k] \in S /\ q[k] \in Items(q)
           /\ RemoveAt(q, k) \in Seq(S)
           /\ NoRepeats(q) => /\ Items(RemoveAt(q, k)) = Items(q) \ {q[k]}
                              /\ NoRepeats(RemoveAt(q, k))
<1> DEFINE n == Len(q)
           a == SubSeq(q, 1, k - 1)
           b == SubSeq(q, k + 1, n)
           r == RemoveAt(q, k)
<1>1. n \in Nat /\ \A i \in 1..n : q[i] \in S
  BY ElementOfSeq, LenProperties
<1>2. /\ a \in Seq(S) /\ Len(a) = k - 1
      /\ \A i \in 1..(k - 1) : a[i] = q[i]
  <2>1. \A i \in 1..(k - 1) : q[i] \in S
    BY <1>1
  <2>2. /\ a \in Seq(S)
        /\ Len(a) = IF 1 <= k - 1 THEN (k - 1) - 1 + 1 ELSE 0
        /\ \A i \in 1..((k - 1) - 1 + 1) : a[i] = q[1 + i - 1]
    <3> HIDE DEF n
    <3> QED BY <2>1, <1>1, SubSeqProperties, SMT
  <2> HIDE DEF a
  <2> QED BY <2>2, <1>1
<1>3. /\ b \in Seq(S) /\ Len(b) = n - k
      /\ \A i \in 1..(n - k) : b[i] = q[k + i]
  <2>1. \A i \in (k + 1)..n : q[i] \in S
    BY <1>1
  <2>2. /\ b \in Seq(S)
        /\ Len(b) = IF k + 1 <= n THEN n - (k + 1) + 1 ELSE 0
        /\ \A i \in 1..(n - (k + 1) + 1) : b[i] = q[(k + 1) + i - 1]
    <3> HIDE DEF n
    <3> QED BY <2>1, <1>1, SubSeqProperties, SMT
  <2> HIDE DEF b
  <2> QED BY <2>2, <1>1
<1>4. /\ r \in Seq(S) /\ Len(r) = n - 1
      /\ \A i \in 1..(n - 1) : r[i] = IF i < k THEN q[i] ELSE q[i + 1]
  <2>1. r = a \o b
    BY DEF RemoveAt
  <2> HIDE DEF a, b, n
  <2>2. /\ r \in Seq(S) /\ Len(r) = Len(a) + Len(b)
        /\ \A i \in 1..(Len(a) + Len(b)) :
              r[i] = IF i <= Len(a) THEN a[i] ELSE b[i - Len(a)]
    BY <1>2, <1>3, <2>1, ConcatProperties
  <2> HIDE DEF r
  <2> QED BY <2>2, <1>1, <1>2, <1>3
<1> HIDE DEF a, b, r
<1>5. ASSUME NoRepeats(q)
      PROVE  Items(r) = Items(q) \ {q[k]} /\ NoRepeats(r)
  <2>1. \A i \in 1..n, j \in 1..n : q[i] = q[j] => i = j
    BY <1>5 DEF NoRepeats
  <2>2. \A i \in 1..(n - 1) : r[i] \in Items(q) /\ r[i] # q[k]
    <3> SUFFICES ASSUME NEW i \in 1..(n - 1)
                 PROVE  r[i] \in Items(q) /\ r[i] # q[k]
      OBVIOUS
    <3>1. PICK j \in 1..n : j # k /\ r[i] = q[j]
      <4>1. CASE i < k
        BY <1>1, <1>4, <4>1
      <4>2. CASE ~(i < k)
        BY <1>1, <1>4, <4>2
      <4> QED BY <4>1, <4>2
    <3> QED BY <2>1, <3>1, ItemAt
  <2>3. \A i \in 1..n : i # k => \E j \in 1..(n - 1) : r[j] = q[i]
    <3> SUFFICES ASSUME NEW i \in 1..n, i # k
                 PROVE  \E j \in 1..(n - 1) : r[j] = q[i]
      OBVIOUS
    <3>1. CASE i < k
      BY <1>1, <1>4, <3>1
    <3>2. CASE i > k
      <4>1. i - 1 \in 1..(n - 1) /\ ~(i - 1 < k) /\ (i - 1) + 1 = i
        BY <1>1, <3>2
      <4> QED BY <4>1, <1>4
    <3> QED BY <3>1, <3>2
  <2>4. Items(r) = Items(q) \ {q[k]}
    <3>1. ASSUME NEW x \in Items(r) PROVE x \in Items(q) \ {q[k]}
      <4>1. PICK i \in 1..(n - 1) : r[i] = x
        BY <1>4, ItemAt
      <4> QED BY <4>1, <2>2
    <3>2. ASSUME NEW x \in Items(q), x # q[k] PROVE x \in Items(r)
      <4>1. PICK i \in 1..n : q[i] = x
        BY ItemAt
      <4>2. PICK j \in 1..(n - 1) : r[j] = x
        BY <4>1, <3>2, <2>3
      <4> QED BY <4>2, <1>4, ItemAt
    <3> QED BY <3>1, <3>2
  <2>5. NoRepeats(r)
    BY <1>1, <1>4, <2>1 DEF NoRepeats
  <2> QED BY <2>4, <2>5
<1>6. q[k] \in S /\ q[k] \in Items(q)
  BY <1>1, ItemAt
<1> QED BY <1>4, <1>5, <1>6 DEF r

\* Fetching takes the head and leaves the rest.
LEMMA FetchItem ==
    ASSUME NEW S, NEW q \in Seq(S), q # << >>
    PROVE  /\ DioqHead(q) \in S /\ DioqHead(q) \in Items(q)
           /\ DioqFetch(q) \in Seq(S)
           /\ NoRepeats(q) => /\ Items(DioqFetch(q)) = Items(q) \ {DioqHead(q)}
                              /\ NoRepeats(DioqFetch(q))
<1> DEFINE n == Len(q)
           r == Tail(q)
<1>1. /\ n \in Nat /\ 1 \in 1..n /\ \A i \in 1..n : q[i] \in S
      /\ DioqHead(q) = q[1] /\ DioqFetch(q) = r
  BY ElementOfSeq, LenProperties, EmptySeq DEF DioqHead, DioqFetch
<1>2. /\ r \in Seq(S) /\ Len(r) = n - 1
      /\ \A i \in 1..(n - 1) : r[i] = q[i + 1]
  BY HeadTailProperties
<1> HIDE DEF r
<1>3. ASSUME NoRepeats(q)
      PROVE  Items(r) = Items(q) \ {q[1]} /\ NoRepeats(r)
  <2>1. \A i \in 1..n, j \in 1..n : q[i] = q[j] => i = j
    BY <1>3 DEF NoRepeats
  <2>2. \A i \in 1..(n - 1) : r[i] \in Items(q) /\ r[i] # q[1]
    BY <1>1, <1>2, <2>1 DEF Items, ToSet
  <2>3. \A i \in 1..n : i # 1 => \E j \in 1..(n - 1) : r[j] = q[i]
    <3> SUFFICES ASSUME NEW i \in 1..n, i # 1
                 PROVE  \E j \in 1..(n - 1) : r[j] = q[i]
      OBVIOUS
    <3>1. i - 1 \in 1..(n - 1) /\ (i - 1) + 1 = i
      BY <1>1
    <3> QED BY <3>1, <1>2
  <2>4. Items(r) = Items(q) \ {q[1]}
    <3>1. ASSUME NEW x \in Items(r) PROVE x \in Items(q) \ {q[1]}
      <4>1. PICK i \in 1..(n - 1) : r[i] = x
        BY <1>2, ItemAt
      <4> QED BY <4>1, <2>2
    <3>2. ASSUME NEW x \in Items(q), x # q[1] PROVE x \in Items(r)
      <4>1. PICK i \in 1..n : q[i] = x
        BY ItemAt
      <4>2. PICK j \in 1..(n - 1) : r[j] = x
        BY <4>1, <3>2, <2>3
      <4> QED BY <4>2, <1>2, ItemAt
    <3> QED BY <3>1, <3>2
  <2>5. NoRepeats(r)
    BY <1>1, <1>2, <2>1 DEF NoRepeats
  <2> QED BY <2>4, <2>5
<1>4. q[1] \in S /\ q[1] \in Items(q)
  BY <1>1, ItemAt
<1> QED BY <1>1, <1>2, <1>3, <1>4
=============================================================================
