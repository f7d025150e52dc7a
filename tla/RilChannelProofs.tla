--------------------------- MODULE RilChannelProofs ---------------------------
(***************************************************************************)
(* The AT channel and the held messages of RilChannel, for any number of   *)
(* messages, requests, failures and openings of the channel.               *)
(***************************************************************************)
EXTENDS RilChannel, FiniteSetTheorems, SequenceTheorems, TLAPS

-----------------------------------------------------------------------------
(***************************************************************************)
(* How often an element is in a sequence.                                  *)
(***************************************************************************)
At(q, x) == {i \in DOMAIN q : q[i] = x}

LEMMA CountNat ==
    ASSUME NEW S, NEW q \in Seq(S), NEW x
    PROVE  /\ IsFiniteSet(At(q, x)) /\ Count(q, x) = Cardinality(At(q, x))
           /\ Count(q, x) \in Nat
<1>1. Len(q) \in Nat /\ DOMAIN q = 1..Len(q)
  BY LenProperties
<1>2. IsFiniteSet(1..Len(q))
  BY <1>1, FS_Interval
<1>3. At(q, x) \subseteq 1..Len(q)
  BY <1>1 DEF At
<1>4. IsFiniteSet(At(q, x))
  BY <1>2, <1>3, FS_Subset
<1>5. Count(q, x) = Cardinality(At(q, x))
  BY DEF Count, At
<1> QED BY <1>4, <1>5, FS_CardinalityType

LEMMA CountEmpty ==
    ASSUME NEW x PROVE Count(<< >>, x) = 0
<1>1. {i \in DOMAIN << >> : << >>[i] = x} = {}
  OBVIOUS
<1> QED BY <1>1, FS_EmptySet DEF Count

LEMMA CountOne ==
    ASSUME NEW c, NEW x PROVE Count(<<c>>, x) = IF c = x THEN 1 ELSE 0
<1>1. {i \in DOMAIN <<c>> : <<c>>[i] = x} = IF c = x THEN {1} ELSE {}
  OBVIOUS
<1> QED BY <1>1, FS_EmptySet, FS_Singleton DEF Count

LEMMA CountAppend ==
    ASSUME NEW S, NEW q \in Seq(S), NEW e \in S, NEW x
    PROVE  Count(Append(q, e), x) = Count(q, x) + (IF e = x THEN 1 ELSE 0)
<1> DEFINE n == Len(q)
           z == Append(q, e)
<1>1. n \in Nat /\ DOMAIN q = 1..n
  BY LenProperties
<1>2. /\ z \in Seq(S) /\ Len(z) = n + 1 /\ z[n + 1] = e
      /\ \A i \in 1..n : z[i] = q[i]
  BY AppendProperties
<1> HIDE DEF z, n
<1>3. DOMAIN z = 1..(n + 1)
  BY <1>2, LenProperties
<1>4. At(z, x) = IF e = x THEN At(q, x) \cup {n + 1} ELSE At(q, x)
  BY <1>1, <1>2, <1>3 DEF At
<1>5. n + 1 \notin At(q, x)
  BY <1>1 DEF At
<1>6. Cardinality(At(q, x) \cup {n + 1}) = Cardinality(At(q, x)) + 1
  BY <1>5, CountNat, FS_AddElement
<1>7. Count(z, x) = Cardinality(At(z, x)) /\ Count(q, x) = Cardinality(At(q, x))
      /\ Count(q, x) \in Nat
  BY <1>2, CountNat
<1> QED BY <1>4, <1>6, <1>7 DEF z

LEMMA CountTail ==
    ASSUME NEW S, NEW q \in Seq(S), q # << >>, NEW x
    PROVE  Count(q, x) = (IF Head(q) = x THEN 1 ELSE 0) + Count(Tail(q), x)
<1> DEFINE n == Len(q)
           z == Tail(q)
           rest == At(q, x) \ {1}
           f == [i \in At(z, x) |-> i + 1]
<1>1. n \in Nat /\ n >= 1 /\ DOMAIN q = 1..n /\ Head(q) = q[1]
  BY LenProperties, EmptySeq
<1>2. /\ z \in Seq(S) /\ Len(z) = n - 1
      /\ \A i \in 1..(n - 1) : z[i] = q[i + 1]
  BY HeadTailProperties
<1> HIDE DEF z, n
<1>3. DOMAIN z = 1..(n - 1)
  BY <1>2, LenProperties
<1>4. f \in Bijection(At(z, x), rest)
  <2>1. \A i \in At(z, x) : i + 1 \in rest /\ i \in Nat
    BY <1>1, <1>2, <1>3 DEF At
  <2>2. \A j \in rest : j - 1 \in At(z, x) /\ (j - 1) + 1 = j
    BY <1>1, <1>2, <1>3 DEF At
  <2>3. f \in [At(z, x) -> rest]
    BY <2>1
  <2>4. \A i, j \in At(z, x) : f[i] = f[j] => i = j
    BY <2>1
  <2>5. \A j \in rest : \E i \in At(z, x) : f[i] = j
    <3> TAKE j \in rest
    <3>1. j - 1 \in At(z, x) /\ f[j - 1] = j
      BY <2>2
    <3> QED BY <3>1
  <2> HIDE DEF f, rest
  <2> QED BY <2>3, <2>4, <2>5
          DEF Bijection, Injection, Surjection, IsInjective
<1>5. Count(z, x) = Cardinality(At(z, x)) /\ IsFiniteSet(At(z, x))
  BY <1>2, CountNat
<1>6. IsFiniteSet(At(q, x)) /\ Count(q, x) = Cardinality(At(q, x))
      /\ Count(q, x) \in Nat
  BY CountNat
<1>7. Cardinality(rest) = Count(z, x)
  <2> HIDE DEF f, rest
  <2>1. ExistsBijection(At(z, x), rest)
    BY <1>4 DEF ExistsBijection
  <2> QED BY <1>5, <2>1, FS_Bijection
<1>8. CASE Head(q) = x
  <2>1. 1 \in At(q, x)
    BY <1>1, <1>8 DEF At
  <2>2. Cardinality(rest) = Cardinality(At(q, x)) - 1
    BY <1>6, <2>1, FS_RemoveElement
  <2> QED BY <1>6, <1>7, <1>8, <2>2 DEF z
<1>9. CASE Head(q) # x
  <2>1. rest = At(q, x)
    BY <1>1, <1>9 DEF At
  <2>2. Count(z, x) \in Nat
    BY <1>2, CountNat
  <2>3. Count(q, x) = Count(z, x)
    <3> HIDE DEF rest
    <3> QED BY <1>6, <1>7, <2>1
  <2> QED BY <1>9, <2>2, <2>3 DEF z
<1> QED BY <1>8, <1>9

-----------------------------------------------------------------------------
(***************************************************************************)
(* The commands of the queue runner.                                       *)
(***************************************************************************)
\* What the queue runner has taken, at each of its places.
WorkKnown ==
    /\ runner \in {"open", "shake", "shaken", "pause", "loop", "close"}
          => work = << >>
    /\ runner \in {"send", "sent", "timeout", "answered", "failed"}
          => \E c \in Commands : work = <<c>>
    /\ runner = "poll" => work = << >> \/ \E q \in Requests : work = <<q>>
    /\ runner = "process" => \E q \in Requests : work = <<q>>
    /\ runner = "acked" => work = <<"ack">>

RunnerInv == TypeOK /\ WorkKnown

LEMMA RunnerInit ==
    ASSUME Init PROVE RunnerInv
<1>1. /\ fd = "none" /\ kicks = 0 /\ response = None /\ runner = "open"
      /\ work = << >> /\ queue = << >> /\ held = << >> /\ owes = << >>
      /\ unreported = Sms
      /\ readerClosed = FALSE /\ closed = TRUE /\ outstanding = FALSE
      /\ hungUp = FALSE /\ abandoned = FALSE
      /\ uncompleted = 0 /\ toAck = 0 /\ failures = 0 /\ opens = 0
      /\ radio = "unavailable" /\ refused = FALSE
  BY DEF Init
<1>2. plains \in Nat /\ tries \in 0..Tries
  BY RilAssumption DEF Init
<1>3. /\ work \in Seq(Commands) /\ queue \in Seq(Requests) /\ held \in Seq(Sms)
      /\ owes \in Seq(Commands)
  BY <1>1, EmptySeq
<1>4. /\ reader \in [Reader -> ReaderPlaces]
      /\ line \in [Reader -> Lines \cup {None}]
  BY DEF Init, ReaderPlaces
<1>5. TypeOK
  <2>1. /\ readerClosed \in BOOLEAN /\ closed \in BOOLEAN
        /\ outstanding \in BOOLEAN /\ hungUp \in BOOLEAN
        /\ abandoned \in BOOLEAN /\ refused \in BOOLEAN
    BY <1>1
  <2>2. /\ fd \in {"open", "none"} /\ kicks \in Nat
        /\ response \in Commands \cup {None, "pending"}
        /\ runner \in {"open", "shake", "shaken", "pause", "send", "sent",
                       "timeout", "answered", "failed", "loop", "poll",
                       "process", "acked", "close"}
        /\ plains \in Nat /\ uncompleted \in Int /\ toAck \in Nat
        /\ failures \in Nat /\ opens \in Nat /\ unreported \subseteq Sms
        /\ radio \in RadioStates
    BY <1>1, <1>2 DEF RadioStates
  <2> QED BY <1>2, <1>3, <1>4, <2>1, <2>2 DEF TypeOK
<1>6. WorkKnown
  BY <1>1 DEF WorkKnown
<1> QED BY <1>5, <1>6 DEF RunnerInv

\* The current command is one of the commands.
LEMMA CommandAtHand ==
    ASSUME RunnerInv,
           runner \in {"shake", "shaken", "send", "sent", "timeout", "answered",
                       "failed"}
    PROVE  /\ Command \in Commands
           /\ runner \in {"send", "sent", "timeout", "answered", "failed"}
                 => Head(work) \in Commands /\ work = <<Head(work)>>
<1>1. CASE runner \in {"shake", "shaken"}
  BY <1>1 DEF Command, Commands
<1>2. CASE runner \in {"send", "sent", "timeout", "answered", "failed"}
  <2>1. PICK c \in Commands : work = <<c>>
    BY <1>2 DEF RunnerInv, WorkKnown
  <2>2. Head(work) = c
    BY <2>1
  <2> QED BY <1>2, <2>1, <2>2 DEF Command
<1> QED BY <1>1, <1>2

\* What is left when the tty is closed is the end of what was owed.
LEMMA ClosedOwes ==
    ASSUME TypeOK, CloseTty
    PROVE  /\ owes' \in Seq(Commands) /\ (owes = << >> => owes' = << >>)
           /\ \A c \in Commands : owes = <<c>> => owes' \in {<< >>, <<c>>}
           /\ fd' = "none" /\ hungUp' = FALSE
           /\ Stale(reader) \in [Reader -> ReaderPlaces]
<1>1. owes \in Seq(Commands) /\ Len(owes) \in Nat
  BY LenProperties DEF TypeOK
<1>2. PICK n \in 0..Len(owes) : owes' = SubSeq(owes, n + 1, Len(owes))
  BY DEF CloseTty
<1>3. \A i \in (n + 1)..Len(owes) : owes[i] \in Commands
  <2>1. \A i \in (n + 1)..Len(owes) : i \in 1..Len(owes)
    BY <1>1
  <2> QED BY <1>1, <2>1, ElementOfSeq
<1>4. n + 1 \in Int /\ Len(owes) \in Int
  BY <1>1
<1>5. owes' \in Seq(Commands)
  BY <1>2, <1>3, <1>4, SubSeqProperties
<1>6. ASSUME owes = << >> PROVE owes' = << >>
  <2>1. Len(owes) = 0
    BY <1>6, EmptySeq
  <2>2. Len(owes) < n + 1
    BY <2>1
  <2> QED BY <1>2, <1>4, <2>2, SubSeqEmpty
<1>7. Stale(reader) \in [Reader -> ReaderPlaces]
  BY DEF TypeOK, Stale, ReaderPlaces
<1>8. ASSUME NEW c \in Commands, owes = <<c>> PROVE owes' \in {<< >>, <<c>>}
  <2>1. Len(owes) = 1
    BY <1>8
  <2>2. CASE n = 0
    <3>1. owes' = SubSeq(owes, 1, Len(owes))
      BY <1>2, <2>2
    <3>2. SubSeq(owes, 1, Len(owes)) = owes
      BY <1>1, SubSeqFull
    <3> QED BY <1>8, <3>1, <3>2
  <2>3. CASE n = 1
    <3>1. Len(owes) < n + 1
      BY <2>1, <2>3
    <3> QED BY <1>2, <1>4, <3>1, SubSeqEmpty
  <2> QED BY <2>1, <2>2, <2>3
<1> QED BY <1>5, <1>6, <1>7, <1>8 DEF CloseTty

LEMMA RunnerOpen ==
    ASSUME RunnerInv, NEW r \in Reader, Open(r) PROVE RunnerInv'
<1>1. opens' \in Nat
  BY RilAssumption DEF Open, Reader
<1>2. reader' \in [Reader -> ReaderPlaces] /\ tries' \in 0..Tries
  BY RilAssumption DEF Open, RunnerInv, TypeOK, ReaderPlaces
<1> QED BY <1>1, <1>2
        DEF Open, RunnerInv, TypeOK, WorkKnown, requests, messages, modem

LEMMA RunnerSends ==
    ASSUME RunnerInv, HandshakeSend \/ Send PROVE RunnerInv'
<1>1. owes' \in Seq(Commands)
  <2>1. PICK c \in Commands : owes' = Append(owes, c)
    BY CommandAtHand DEF HandshakeSend, Send, Write, Commands
  <2> QED BY <2>1, AppendProperties DEF RunnerInv, TypeOK
<1>2. CASE HandshakeSend
  <2>1. tries' \in 0..Tries
    BY <1>2, RilAssumption DEF HandshakeSend, RunnerInv, TypeOK
  <2> QED BY <1>1, <1>2, <2>1
          DEF HandshakeSend, RunnerInv, TypeOK, WorkKnown, Write, readers,
              requests, messages, ghosts
<1>3. CASE Send
  BY <1>1, <1>3 DEF Send, RunnerInv, TypeOK, WorkKnown, Write, readers,
                    requests, messages, ghosts
<1> QED BY <1>2, <1>3

\* A wait ends, with an answer or without one.
LEMMA RunnerWaits ==
    ASSUME RunnerInv,
           \/ HandshakeDone \/ HandshakeTimeout \/ HandshakeClosed
           \/ TakeAnswer \/ ChannelClosed \/ Timeout
    PROVE  RunnerInv'
<1>1. /\ UNCHANGED <<fd, readerClosed, kicks, readers, work, tries, radio,
                     requests, messages, modem, opens>>
      /\ response' = None
  BY DEF HandshakeDone, HandshakeTimeout, HandshakeClosed, TakeAnswer,
         ChannelClosed, Timeout, GiveUp, ghosts
<1>2. \/ runner = "shaken" /\ runner' \in {"pause", "shake"}
      \/ runner = "sent" /\ runner' \in {"answered", "failed", "timeout"}
  BY DEF HandshakeDone, HandshakeTimeout, HandshakeClosed, TakeAnswer,
         ChannelClosed, Timeout
<1>3. failures' \in Nat
  BY DEF HandshakeDone, HandshakeTimeout, HandshakeClosed, TakeAnswer,
         ChannelClosed, Timeout, NoAnswer, Fail, ghosts, RunnerInv, TypeOK
<1>4. abandoned' \in BOOLEAN
  BY DEF HandshakeDone, HandshakeTimeout, HandshakeClosed, TakeAnswer,
         ChannelClosed, Timeout, GiveUp, ghosts, RunnerInv, TypeOK
<1>5. TypeOK'
  BY <1>1, <1>2, <1>3, <1>4 DEF RunnerInv, TypeOK, readers, requests, messages,
                                modem
<1>6. WorkKnown'
  BY <1>1, <1>2 DEF RunnerInv, WorkKnown
<1> QED BY <1>5, <1>6 DEF RunnerInv

\* The steps of the queue runner between commands.
LEMMA RunnerGoesOn ==
    ASSUME RunnerInv,
           \/ HandshakeUnsent \/ HandshakeOver \/ PauseEnds \/ SendFails
           \/ TimeoutSignal \/ ResetClosed \/ InitializeEnds
    PROVE  RunnerInv'
<1>1. /\ UNCHANGED <<atc, readers, queue, plains, uncompleted, messages, modem,
                     ghosts>>
      /\ closed' \in BOOLEAN /\ radio' \in RadioStates
  BY DEF HandshakeUnsent, HandshakeOver, PauseEnds, SendFails, TimeoutSignal,
         ResetClosed, InitializeEnds, SetRadio, RadioStates, requests,
         RunnerInv, TypeOK
<1>2. tries' \in 0..Tries
  BY RilAssumption
     DEF HandshakeUnsent, HandshakeOver, PauseEnds, SendFails, TimeoutSignal,
         ResetClosed, InitializeEnds, RunnerInv, TypeOK
<1>3. /\ runner' \in {"shake", "send", "failed", "loop"}
      /\ WorkKnown'
  BY DEF HandshakeUnsent, HandshakeOver, PauseEnds, SendFails, TimeoutSignal,
         ResetClosed, InitializeEnds, RunnerInv, WorkKnown, Commands
<1>4. work' \in Seq(Commands)
  <2>1. "common" \in Commands /\ "channel" \in Commands
    BY DEF Commands
  <2>2. <<"common">> \in Seq(Commands) /\ <<"channel">> \in Seq(Commands)
    BY <2>1
  <2>3. work' \in {work, <<"common">>, <<"channel">>, << >>}
    BY DEF HandshakeUnsent, HandshakeOver, PauseEnds, SendFails, TimeoutSignal,
           ResetClosed, InitializeEnds
  <2> QED BY <2>2, <2>3, EmptySeq DEF RunnerInv, TypeOK
<1>5. TypeOK'
  BY <1>1, <1>2, <1>3, <1>4
     DEF RunnerInv, TypeOK, atc, readers, messages, modem, ghosts
<1> QED BY <1>3, <1>5 DEF RunnerInv

LEMMA RunnerTake ==
    ASSUME RunnerInv, Take PROVE RunnerInv'
<1>1. /\ UNCHANGED <<atc, readers, tries, radio, closed, plains, uncompleted,
                     messages, modem, ghosts>>
      /\ runner' \in {"process", "poll"} /\ work = << >>
  BY DEF Take, RunnerInv, WorkKnown
<1>2. /\ queue' \in Seq(Requests) /\ work' \in Seq(Commands)
      /\ \/ runner' = "poll" /\ work' = << >>
         \/ \E q \in Requests : work' = <<q>>
  <2>1. CASE queue = << >>
    BY <1>1, <2>1 DEF Take, RunnerInv, TypeOK
  <2>2. CASE queue # << >>
    <3>1. Head(queue) \in Requests /\ Tail(queue) \in Seq(Requests)
      BY <2>2, HeadTailProperties DEF RunnerInv, TypeOK
    <3>2. queue' = Tail(queue) /\ work' = <<Head(queue)>>
      BY <2>2 DEF Take
    <3>3. Head(queue) \in Commands
      BY <3>1 DEF Commands
    <3> QED BY <3>1, <3>2, <3>3
  <2> QED BY <2>1, <2>2
<1>3. TypeOK'
  BY <1>1, <1>2 DEF RunnerInv, TypeOK, atc, readers, messages, modem, ghosts
<1>4. WorkKnown'
  BY <1>1, <1>2 DEF WorkKnown
<1> QED BY <1>3, <1>4 DEF RunnerInv

\* The request, or none, that is taken before a poll and processed after it.
LEMMA RequestTaken ==
    ASSUME RunnerInv, runner \in {"poll", "process"}
    PROVE  \/ runner = "poll" /\ work = << >>
           \/ Head(work) \in Requests /\ work = <<Head(work)>>
<1>1. CASE \E q \in Requests : work = <<q>>
  <2>1. PICK q \in Requests : work = <<q>>
    BY <1>1
  <2> QED BY <2>1
<1>2. CASE runner = "poll" /\ work = << >>
  BY <1>2
<1> QED BY <1>1, <1>2 DEF RunnerInv, WorkKnown

LEMMA RunnerProcesses ==
    ASSUME RunnerInv, PollEnds \/ Pass \/ Refuse PROVE RunnerInv'
<1>1. \/ runner = "poll" /\ work = << >>
      \/ Head(work) \in Requests /\ work = <<Head(work)>>
  BY RequestTaken DEF PollEnds, Pass, Refuse
<1>2. CASE PollEnds
  <2>1. /\ UNCHANGED <<atc, readers, work, tries, requests, messages, modem,
                       ghosts>>
        /\ radio' \in RadioStates /\ runner' \in {"loop", "process"}
        /\ runner' = IF work = << >> THEN "loop" ELSE "process"
    BY <1>2 DEF PollEnds, RadioStates, RunnerInv, TypeOK
  <2>2. WorkKnown'
    BY <1>1, <2>1 DEF WorkKnown
  <2>3. TypeOK'
    BY <2>1
       DEF RunnerInv, TypeOK, atc, readers, requests, messages, modem, ghosts
  <2> QED BY <2>2, <2>3 DEF RunnerInv
<1>3. CASE Pass
  <2>1. /\ UNCHANGED <<atc, readers, work, tries, radio, requests, messages,
                       modem, ghosts>>
        /\ runner = "process" /\ runner' = "send"
    BY <1>3 DEF Pass
  <2>2. WorkKnown'
    BY <1>1, <2>1 DEF WorkKnown, Commands
  <2>3. TypeOK'
    BY <2>1
       DEF RunnerInv, TypeOK, atc, readers, requests, messages, modem, ghosts
  <2> QED BY <2>2, <2>3 DEF RunnerInv
<1>4. CASE Refuse
  <2>1. /\ UNCHANGED <<atc, readers, tries, radio, closed, queue, plains,
                       outstanding, held, toAck, modem, ghosts>>
        /\ work' = << >> /\ runner' = "loop" /\ uncompleted' \in Int
    BY <1>4 DEF Refuse, RunnerInv, TypeOK
  <2>2. refused' \in BOOLEAN
    BY <1>4, Zenon DEF Refuse, RunnerInv, TypeOK
  <2>3. work' \in Seq(Commands)
    BY <2>1, EmptySeq
  <2>4. TypeOK'
    BY <2>1, <2>2, <2>3 DEF RunnerInv, TypeOK, atc, readers, modem, ghosts
  <2>5. WorkKnown'
    BY <2>1 DEF WorkKnown
  <2> QED BY <2>4, <2>5 DEF RunnerInv
<1> QED BY <1>2, <1>3, <1>4

LEMMA RunnerCompletes ==
    ASSUME RunnerInv, Complete \/ NextMessage PROVE RunnerInv'
<1>1. CASE Complete
  <2>1. /\ UNCHANGED <<atc, readers, tries, closed, queue, plains, messages,
                       modem, ghosts>>
        /\ uncompleted' \in Int /\ radio' \in RadioStates
        /\ \/ /\ Head(work) = "ack" /\ runner' = "acked" /\ work' = work
           \/ work' = << >> /\ runner' = "loop"
    BY <1>1 DEF Complete, SetRadio, RadioStates, RunnerInv, TypeOK
  <2>2. work = <<Head(work)>>
    BY <1>1, CommandAtHand DEF Complete, Ended
  <2>3. WorkKnown'
    BY <2>1, <2>2 DEF WorkKnown
  <2>4. work' \in Seq(Commands) /\ runner' \in {"acked", "loop"}
    BY <2>1, EmptySeq DEF RunnerInv, TypeOK
  <2> QED BY <2>1, <2>3, <2>4
          DEF RunnerInv, TypeOK, atc, readers, messages, modem, ghosts
<1>2. CASE NextMessage
  <2>1. /\ UNCHANGED <<atc, readers, tries, radio, requests, refused, modem,
                       ghosts>>
        /\ work' = << >> /\ runner' = "loop"
    BY <1>2 DEF NextMessage
  <2>2. held' \in Seq(Sms)
    BY <1>2, HeadTailProperties DEF NextMessage, RunnerInv, TypeOK
  <2>3. toAck' \in Nat /\ outstanding' \in BOOLEAN
    <3>1. toAck' = toAck \/ toAck' = toAck + 1
      BY <1>2, Zenon DEF NextMessage
    <3>2. outstanding' \in BOOLEAN
      BY <1>2, Zenon DEF NextMessage, RunnerInv, TypeOK
    <3> QED BY <3>1, <3>2 DEF RunnerInv, TypeOK
  <2>4. work' \in Seq(Commands)
    BY <2>1, EmptySeq
  <2> QED BY <2>1, <2>2, <2>3, <2>4
          DEF RunnerInv, TypeOK, WorkKnown, atc, readers, requests, modem, ghosts
<1> QED BY <1>1, <1>2

LEMMA RunnerLeaves ==
    ASSUME RunnerInv, LeaveLoop \/ LeftLoop PROVE RunnerInv'
<1>1. CASE LeaveLoop
  BY <1>1, ClosedOwes
     DEF LeaveLoop, RunnerInv, TypeOK, WorkKnown, requests, messages, ghosts
<1>2. CASE LeftLoop
  BY <1>2 DEF LeftLoop, MarkClosed, RunnerInv, TypeOK, WorkKnown, readers,
              requests, messages, modem, ghosts
<1> QED BY <1>1, <1>2

LEMMA RunnerReaders ==
    ASSUME RunnerInv, NEW r \in Reader, ReaderStep(r) \/ ReadSms(r)
    PROVE  RunnerInv'
<1>1. UNCHANGED loop
  BY DEF ReaderStep, Check, Kicked, ReadAnswer, ReadEof, FinalResponse, NewSms,
         IgnoreSms, TestClosed, SetClosed, ReaderRadio, ReaderSignal,
         ReaderClose, ReaderKick, ReadSms
<1>2. WorkKnown'
  BY <1>1 DEF RunnerInv, WorkKnown, loop
<1>3. ASSUME \/ Check(r) \/ Kicked(r) \/ ReadEof(r) \/ TestClosed(r)
             \/ SetClosed(r) \/ ReaderRadio(r) \/ ReaderSignal(r)
             \/ ReaderKick(r)
      PROVE  TypeOK'
  <2>1. /\ UNCHANGED <<fd, response, line, queue, plains, uncompleted, messages,
                       modem, ghosts>>
        /\ (kicks' \in {kicks, kicks + 1}) \/ (kicks > 0 /\ kicks' = kicks - 1)
    BY <1>3 DEF Check, Kicked, ReadEof, TestClosed, SetClosed, ReaderRadio,
                ReaderSignal, ReaderKick, MarkClosed, atc, requests
  <2>2. \E place \in ReaderPlaces : reader' = [reader EXCEPT ![r] = place]
    BY <1>3 DEF Check, Kicked, ReadEof, TestClosed, SetClosed, ReaderRadio,
                ReaderSignal, ReaderKick, ReaderPlaces
  <2>3. reader' \in [Reader -> ReaderPlaces]
    BY <2>2 DEF RunnerInv, TypeOK
  <2>4. readerClosed' \in BOOLEAN /\ closed' \in BOOLEAN
    BY <1>3, Zenon DEF Check, Kicked, ReadEof, TestClosed, SetClosed, ReaderRadio,
                ReaderSignal, ReaderKick, MarkClosed, atc, requests, RunnerInv,
                TypeOK
  <2>5. kicks' \in Nat
    BY <2>1 DEF RunnerInv, TypeOK
  <2>6. radio' \in RadioStates
    BY <1>3 DEF Check, Kicked, ReadEof, TestClosed, SetClosed, ReaderRadio,
                ReaderSignal, ReaderKick, RadioStates, RunnerInv, TypeOK
  <2> QED BY <1>1, <2>1, <2>3, <2>4, <2>5, <2>6
          DEF RunnerInv, TypeOK, loop, messages, modem, ghosts
<1>4. ASSUME ReaderClose(r) PROVE TypeOK'
  <2>1. /\ CloseTty
        /\ UNCHANGED <<readerClosed, response, kicks, line, loop, radio,
                       requests, messages, unreported, ghosts>>
    BY <1>4 DEF ReaderClose
  <2>2. owes' \in Seq(Commands) /\ fd' = "none" /\ hungUp' = FALSE
    BY <1>1, <2>1, ClosedOwes DEF RunnerInv
  <2>3. reader' \in [Reader -> ReaderPlaces]
    BY <1>1, <1>4, <2>1, ClosedOwes DEF ReaderClose, RunnerInv, ReaderPlaces
  <2>4. UNCHANGED <<readerClosed, response, kicks, line, runner, work, tries,
                    radio, closed, queue, plains, uncompleted, outstanding,
                    held, toAck, refused, unreported, failures, opens,
                    abandoned>>
    BY <2>1 DEF loop, requests, messages, ghosts
  <2> QED BY <1>1, <2>2, <2>3, <2>4 DEF RunnerInv, TypeOK
<1>5. ASSUME ReadAnswer(r) PROVE TypeOK'
  <2>1. Head(owes) \in Commands /\ Tail(owes) \in Seq(Commands)
    BY <1>5, HeadTailProperties DEF ReadAnswer, RunnerInv, TypeOK
  <2> QED BY <1>1, <1>5, <2>1
          DEF ReadAnswer, Reads, RunnerInv, TypeOK, ReaderPlaces, loop, atc, requests,
              messages, ghosts, Lines
<1>6. ASSUME ReadSms(r) PROVE TypeOK'
  <2>1. PICK s \in Sms : Reads(r, s) /\ unreported' = unreported \ {s}
    BY <1>6 DEF ReadSms, RunnerInv, TypeOK
  <2> QED BY <1>1, <1>6, <2>1
          DEF ReadSms, Reads, RunnerInv, TypeOK, ReaderPlaces, loop, atc, requests, messages,
              ghosts, Lines
<1>7. ASSUME FinalResponse(r) PROVE TypeOK'
  BY <1>1, <1>7 DEF FinalResponse, LineDone, RunnerInv, TypeOK, ReaderPlaces, loop, requests,
                    messages, modem, ghosts
<1>8. ASSUME NewSms(r) PROVE TypeOK'
  <2>1. held' \in Seq(Sms)
    <3>1. held' = held \/ \E s \in Sms : held' = Append(held, s)
      BY <1>8 DEF NewSms
    <3>2. CASE \E s \in Sms : held' = Append(held, s)
      <4>1. PICK s \in Sms : held' = Append(held, s)
        BY <3>2
      <4> QED BY <4>1, AppendProperties DEF RunnerInv, TypeOK
    <3> QED BY <3>1, <3>2 DEF RunnerInv, TypeOK
  <2>2. toAck' \in Nat /\ outstanding' \in BOOLEAN
    <3>1. toAck' = toAck \/ toAck' = toAck + 1
      BY <1>8, Zenon DEF NewSms
    <3>2. outstanding' \in BOOLEAN
      BY <1>8, Zenon DEF NewSms, RunnerInv, TypeOK
    <3> QED BY <3>1, <3>2 DEF RunnerInv, TypeOK
  <2> QED BY <1>1, <1>8, <2>1, <2>2
          DEF NewSms, LineDone, RunnerInv, TypeOK, ReaderPlaces, loop, atc, requests, modem,
              ghosts
<1>9. ASSUME IgnoreSms(r) PROVE TypeOK'
  BY <1>1, <1>9 DEF IgnoreSms, LineDone, RunnerInv, TypeOK, ReaderPlaces, loop,
                    atc, requests, messages, modem, ghosts
<1> QED BY <1>2, <1>3, <1>4, <1>5, <1>6, <1>7, <1>8, <1>9
        DEF ReaderStep, RunnerInv

LEMMA RunnerOthers ==
    ASSUME RunnerInv, PlainRequest \/ Acknowledge \/ HangUp PROVE RunnerInv'
<1>1. CASE PlainRequest \/ Acknowledge
  <2>1. /\ UNCHANGED <<atc, readers, loop, radio, closed, outstanding, held,
                       refused, modem, ghosts>>
        /\ uncompleted' \in Int /\ plains' \in Nat /\ toAck' \in Nat
    <3>1. uncompleted \in Int /\ plains \in Nat /\ toAck \in Nat
      BY DEF RunnerInv, TypeOK
    <3>2. CASE PlainRequest
      BY <3>1, <3>2 DEF PlainRequest, Ask
    <3>3. CASE Acknowledge
      BY <3>1, <3>3 DEF Acknowledge, Ask
    <3> QED BY <1>1, <3>2, <3>3
  <2>2. queue' \in Seq(Requests)
    <3>1. PICK c \in Requests : queue' = Append(queue, c)
      BY <1>1 DEF PlainRequest, Acknowledge, Ask, Requests
    <3> QED BY <3>1, AppendProperties DEF RunnerInv, TypeOK
  <2> QED BY <2>1, <2>2 DEF RunnerInv, TypeOK, WorkKnown, atc, readers, loop,
                            modem, ghosts
<1>2. CASE HangUp
  BY <1>2, EmptySeq DEF HangUp, Fail, RunnerInv, TypeOK, WorkKnown, atc, readers,
              loop, requests, messages
<1> QED BY <1>1, <1>2

LEMMA RunnerNext ==
    ASSUME RunnerInv, [Next]_vars PROVE RunnerInv'
<1>1. CASE UNCHANGED vars
  BY <1>1 DEF vars, RunnerInv, TypeOK, WorkKnown, atc, readers, loop, requests,
              messages, modem, ghosts
<1>2. CASE Next
  BY <1>2, RunnerOpen, RunnerSends, RunnerWaits, RunnerGoesOn, RunnerTake,
     RunnerProcesses, RunnerCompletes, RunnerLeaves, RunnerReaders, RunnerOthers
     DEF Next, Runner, Handshake, SendCommand
<1> QED BY <1>1, <1>2

LEMMA RunnerHolds == Spec => []RunnerInv
<1>1. Init => RunnerInv
  BY RunnerInit
<1>2. RunnerInv /\ [Next]_vars => RunnerInv'
  BY RunnerNext
<1> QED BY <1>1, <1>2, PTL DEF Spec

\* Every reachable state has the declared types.
THEOREM ChannelTypes == Spec => []TypeOK
<1>1. RunnerInv => TypeOK
  BY DEF RunnerInv
<1> QED BY <1>1, RunnerHolds, PTL

-----------------------------------------------------------------------------
(***************************************************************************)
(* Answers.                                                                *)
(***************************************************************************)
\* No reader, or only one, has read an answer and not processed it.
NoneRead == \A r \in Reader : line[r] \notin Commands
OneRead ==
    \A r \in Reader : line[r] \in Commands =>
        /\ line[r] = Command
        /\ \A q \in Reader : line[q] \in Commands => q = r

\* What is on its way, at each value of the response.
WayKnown ==
    /\ response # "pending" => owes = << >> /\ NoneRead
    /\ response = "pending" => \/ owes = <<Command>> /\ NoneRead
                               \/ owes = << >> /\ OneRead
    /\ Answered => response = Command

\* As long as no command was given up before its answer came, the modem owes
\* the answer to the current command only, or a reader has just read it.
AnswerInv ==
    /\ response # None <=> runner \in {"shaken", "sent"}
    /\ ~abandoned => WayKnown

LEMMA AnswerInit ==
    ASSUME Init PROVE AnswerInv
BY DEF Init, AnswerInv, WayKnown, NoneRead, OneRead, Answered, None, Commands,
       Requests

LEMMA AnswerSend ==
    ASSUME RunnerInv, AnswerInv, HandshakeSend \/ Send PROVE AnswerInv'
<1>1. /\ response = None /\ response' = "pending"
      /\ runner' \in {"shaken", "sent"} /\ UNCHANGED <<line, abandoned>>
  BY DEF HandshakeSend, Send, Write, AnswerInv, readers, ghosts
<1>2. PICK c \in Commands : owes' = Append(owes, c) /\ Command' = c
  <2>1. CASE HandshakeSend
    BY <2>1 DEF HandshakeSend, Write, Command, Commands
  <2>2. CASE Send
    BY <2>2, CommandAtHand DEF Send, Write, Command
  <2> QED BY <2>1, <2>2
<1>3. ASSUME ~abandoned PROVE owes' = <<Command'>> /\ NoneRead'
  <2>1. owes = << >> /\ NoneRead
    BY <1>1, <1>3 DEF AnswerInv, WayKnown, None
  <2> QED BY <1>1, <1>2, <2>1 DEF NoneRead
<1> QED BY <1>1, <1>3 DEF AnswerInv, WayKnown, Answered, None

LEMMA AnswerWaits ==
    ASSUME AnswerInv,
           \/ HandshakeDone \/ HandshakeTimeout \/ HandshakeClosed
           \/ TakeAnswer \/ ChannelClosed \/ Timeout
    PROVE  AnswerInv'
<1>1. /\ UNCHANGED <<owes, line>> /\ response' = None
      /\ runner' \notin {"shaken", "sent"}
  BY DEF HandshakeDone, HandshakeTimeout, HandshakeClosed, TakeAnswer,
         ChannelClosed, Timeout, GiveUp, readers, modem
<1>2. ASSUME ~abandoned' PROVE owes = << >> /\ NoneRead
  <2>1. CASE HandshakeDone \/ TakeAnswer
    BY <1>2, <2>1 DEF HandshakeDone, TakeAnswer, Answered, ghosts, AnswerInv,
                      WayKnown
  <2>2. CASE \/ HandshakeTimeout \/ HandshakeClosed \/ ChannelClosed \/ Timeout
    BY <1>2, <2>2 DEF HandshakeTimeout, HandshakeClosed, ChannelClosed, Timeout,
                      GiveUp, Underway, NoneRead
  <2> QED BY <2>1, <2>2
<1> QED BY <1>1, <1>2 DEF AnswerInv, WayKnown, NoneRead, Answered, None

\* Steps without a pending command.
LEMMA AnswerIdle ==
    ASSUME RunnerInv, AnswerInv,
           \/ \E r \in Reader : Open(r)
           \/ HandshakeUnsent \/ HandshakeOver \/ PauseEnds \/ SendFails
           \/ TimeoutSignal \/ ResetClosed \/ InitializeEnds \/ Take
           \/ PollEnds \/ Pass \/ Refuse \/ Complete \/ NextMessage \/ LeaveLoop \/ LeftLoop
    PROVE  AnswerInv'
<1>1. /\ response' = None /\ UNCHANGED <<line, abandoned>>
      /\ response = None /\ runner' \notin {"shaken", "sent"}
  BY DEF Open, HandshakeUnsent, HandshakeOver, PauseEnds, SendFails,
         TimeoutSignal, ResetClosed, InitializeEnds, Take, PollEnds, Pass,
         Refuse, Ended, Complete,
         NextMessage, LeaveLoop, LeftLoop, atc, readers, ghosts, AnswerInv
<1>2. owes = << >> => owes' = << >>
  BY ClosedOwes
     DEF Open, HandshakeUnsent, HandshakeOver, PauseEnds, SendFails,
         TimeoutSignal, ResetClosed, InitializeEnds, Take, PollEnds, Pass,
         Refuse, Ended, Complete,
         NextMessage, LeaveLoop, LeftLoop, modem, RunnerInv
<1> QED BY <1>1, <1>2 DEF AnswerInv, WayKnown, NoneRead, Answered, None

\* Steps that answer nothing and may lose what the modem owes.
LEMMA AnswerLost ==
    ASSUME AnswerInv, UNCHANGED <<response, line, abandoned, runner, work>>,
           \/ owes' = owes \/ owes' = << >>
    PROVE  AnswerInv'
<1>1. Command' = Command
  BY DEF Command
<1>2. NoneRead' = NoneRead /\ OneRead' = OneRead
  BY <1>1 DEF NoneRead, OneRead
<1>3. NoneRead => OneRead
  BY DEF NoneRead, OneRead
<1> QED BY <1>1, <1>2, <1>3 DEF AnswerInv, WayKnown, Answered

LEMMA AnswerReaders ==
    ASSUME RunnerInv, AnswerInv, NEW r \in Reader, ReaderStep(r) \/ ReadSms(r)
    PROVE  AnswerInv'
<1>1. UNCHANGED <<loop, abandoned>>
  BY DEF ReaderStep, Check, Kicked, ReadAnswer, ReadEof, FinalResponse, NewSms,
         IgnoreSms, TestClosed, SetClosed, ReaderRadio, ReaderSignal,
         ReaderClose, ReaderKick, ReadSms, ghosts
<1>2. Command' = Command /\ UNCHANGED <<runner, work>>
  BY <1>1 DEF Command, loop
<1>3. CASE Check(r) \/ Kicked(r) \/ ReadEof(r) \/ TestClosed(r) \/ SetClosed(r)
           \/ ReaderRadio(r) \/ ReaderSignal(r) \/ ReaderKick(r)
  <2>1. UNCHANGED <<response, line, owes>>
    BY <1>3 DEF Check, Kicked, ReadEof, TestClosed, SetClosed, ReaderRadio,
                ReaderSignal, ReaderKick, atc, modem
  <2> QED BY <1>1, <1>2, <2>1, AnswerLost
<1>4. CASE ReaderClose(r)
  <2>1. UNCHANGED <<response, line>> /\ CloseTty
    BY <1>4 DEF ReaderClose
  <2>2. CASE abandoned
    BY <1>1, <1>2, <2>1, <2>2 DEF AnswerInv
  <2>3. CASE ~abandoned
    <3>1. Command \in Commands \/ response # "pending"
      BY CommandAtHand DEF AnswerInv, None
    <3>2. owes' = owes \/ owes' = << >>
      BY <2>1, <2>3, <3>1, ClosedOwes DEF AnswerInv, WayKnown, RunnerInv
    <3> QED BY <1>1, <1>2, <2>1, <3>2, AnswerLost
  <2> QED BY <2>2, <2>3
<1>5. CASE ReadAnswer(r)
  <2>1. /\ owes # << >> /\ owes' = Tail(owes) /\ response' = response
        /\ line' = [line EXCEPT ![r] = Head(owes)]
    BY <1>5 DEF ReadAnswer, Reads, atc
  <2>2. ASSUME ~abandoned PROVE WayKnown'
    <3>1. response = "pending" /\ owes = <<Command>> /\ NoneRead
      BY <2>1, <2>2 DEF AnswerInv, WayKnown
    <3>2. owes' = << >> /\ Head(owes) = Command
      BY <2>1, <3>1
    <3>3. OneRead'
      BY <1>2, <2>1, <3>1, <3>2 DEF NoneRead, OneRead, RunnerInv, TypeOK
    <3> QED BY <2>1, <3>1, <3>2, <3>3 DEF WayKnown, Answered
  <2> QED BY <1>1, <1>2, <2>1, <2>2 DEF AnswerInv
<1>6. CASE ReadSms(r) \/ NewSms(r) \/ IgnoreSms(r)
  <2>1. /\ UNCHANGED <<owes, response>>
        /\ \E l : l \notin Commands /\ line' = [line EXCEPT ![r] = l]
    <3>1. CASE ReadSms(r)
      <4>1. PICK s \in Sms : Reads(r, s)
        BY <3>1 DEF ReadSms, RunnerInv, TypeOK
      <4>2. s \notin Commands
        BY RilAssumption
      <4> QED BY <3>1, <4>1, <4>2 DEF ReadSms, Reads, atc
    <3>2. CASE NewSms(r) \/ IgnoreSms(r)
      <4>1. None \notin Commands
        BY DEF None, Commands, Requests
      <4> QED BY <3>2, <4>1 DEF NewSms, IgnoreSms, LineDone, atc, modem
    <3> QED BY <1>6, <3>1, <3>2
  <2>2. \A q \in Reader : line'[q] \in Commands => line[q] \in Commands
                                                   /\ line'[q] = line[q]
    BY <2>1 DEF RunnerInv, TypeOK
  <2>3. (NoneRead => NoneRead') /\ (OneRead => OneRead')
    BY <1>2, <2>2 DEF NoneRead, OneRead
  <2> QED BY <1>1, <1>2, <2>1, <2>3 DEF AnswerInv, WayKnown, Answered
<1>7. CASE FinalResponse(r)
  <2>1. /\ line[r] \in Commands /\ owes' = owes
        /\ response' = IF response = None THEN None ELSE line[r]
        /\ line' = [line EXCEPT ![r] = None]
    BY <1>7 DEF FinalResponse, LineDone, modem
  <2>2. None \notin Commands /\ "pending" \notin Commands
    BY DEF None, Commands, Requests
  <2>3. response' # None <=> response # None
    BY <2>1, <2>2
  <2>4. ASSUME ~abandoned PROVE WayKnown'
    <3>1. response = "pending" /\ owes = << >> /\ OneRead
      BY <2>1, <2>4 DEF AnswerInv, WayKnown, NoneRead
    <3>2. response' = Command /\ Command \in Commands
      BY <2>1, <3>1 DEF OneRead, None
    <3>3. NoneRead'
      BY <2>1, <2>2, <3>1 DEF NoneRead, OneRead, RunnerInv, TypeOK
    <3> QED BY <1>2, <2>1, <2>2, <3>1, <3>2, <3>3 DEF WayKnown, Answered
  <2> QED BY <1>1, <1>2, <2>3, <2>4 DEF AnswerInv
<1> QED BY <1>3, <1>4, <1>5, <1>6, <1>7 DEF ReaderStep

LEMMA AnswerNext ==
    ASSUME RunnerInv, AnswerInv, [Next]_vars PROVE AnswerInv'
<1>1. CASE PlainRequest \/ Acknowledge \/ HangUp \/ UNCHANGED vars
  <2>1. /\ UNCHANGED <<response, line, abandoned, runner, work>>
        /\ owes' = owes \/ owes' = << >>
    BY <1>1 DEF PlainRequest, Acknowledge, Ask, HangUp, vars, atc, readers, loop,
                modem, ghosts
  <2> QED BY <2>1, AnswerLost
<1>2. CASE Runner \/ \E r \in Reader : ReaderStep(r) \/ ReadSms(r)
  BY <1>2, AnswerSend, AnswerWaits, AnswerIdle, AnswerReaders
     DEF Runner, Handshake, SendCommand
<1> QED BY <1>1, <1>2 DEF Next

\* Until a command is given up whose answer may still come, every command is
\* completed by its own answer, for any number of failures and of channels
\* opened one after the other; and response is only set while the queue runner
\* waits.
THEOREM CommandsAnswered == Spec => []OwnResponse
<1>1. Init => AnswerInv
  BY AnswerInit
<1>2. RunnerInv /\ AnswerInv /\ [Next]_vars => AnswerInv'
  BY AnswerNext
<1>3. AnswerInv => OwnResponse
  BY DEF AnswerInv, WayKnown, OwnResponse
<1> QED BY <1>1, <1>2, <1>3, RunnerHolds, PTL DEF Spec

-----------------------------------------------------------------------------
(***************************************************************************)
(* Messages and their acknowledgements.  OneUnacknowledged is inductive    *)
(* where RunnerInv holds.                                                  *)
(***************************************************************************)
LEMMA AckInit ==
    ASSUME Init PROVE OneUnacknowledged
BY CountEmpty DEF Init, OneUnacknowledged

\* How many acknowledgements there are at each place.
LEMMA AckCounts ==
    ASSUME RunnerInv
    PROVE  /\ Count(queue, "ack") \in Nat /\ Count(work, "ack") \in Nat
           /\ toAck \in Nat
BY CountNat DEF RunnerInv, TypeOK

LEMMA AckUnchanged ==
    ASSUME OneUnacknowledged,
           Count(queue', "ack") = Count(queue, "ack"),
           Count(work', "ack") = Count(work, "ack"),
           UNCHANGED messages
    PROVE  OneUnacknowledged'
BY DEF OneUnacknowledged, messages

\* The queue runner replaces a command that is no acknowledgement.
LEMMA AckOtherWork ==
    ASSUME RunnerInv, OneUnacknowledged, UNCHANGED <<queue, messages>>,
           Count(work, "ack") = 0,
           work' \in {<< >>, <<"common">>, <<"channel">>}
    PROVE  OneUnacknowledged'
<1>1. Count(work', "ack") = 0
  BY CountEmpty, CountOne
<1> QED BY <1>1, AckUnchanged

LEMMA AckSendsOn ==
    ASSUME RunnerInv, OneUnacknowledged,
           \/ HandshakeOver \/ PauseEnds \/ ResetClosed \/ InitializeEnds
    PROVE  OneUnacknowledged'
<1>1. Count(work, "ack") = 0
  <2>1. CASE HandshakeOver \/ PauseEnds
    BY <2>1, CountEmpty DEF HandshakeOver, PauseEnds, RunnerInv, WorkKnown
  <2>2. CASE ResetClosed \/ InitializeEnds
    <3>1. work = <<Head(work)>> /\ Head(work) # "ack"
      BY <2>2, CommandAtHand DEF ResetClosed, InitializeEnds, Ended
    <3> QED BY <3>1, CountOne
  <2> QED BY <2>1, <2>2
<1>2. /\ work' \in {<< >>, <<"common">>, <<"channel">>}
      /\ UNCHANGED <<queue, messages>>
  BY DEF HandshakeOver, PauseEnds, ResetClosed, InitializeEnds, requests
<1> QED BY <1>1, <1>2, AckOtherWork

\* A request is taken to be processed, if there is one.
LEMMA AckTake ==
    ASSUME RunnerInv, OneUnacknowledged, Take PROVE OneUnacknowledged'
<1>1. queue \in Seq(Requests) /\ work = << >> /\ UNCHANGED messages
  BY DEF Take, RunnerInv, TypeOK, WorkKnown
<1>2. CASE queue = << >>
  <2>1. UNCHANGED <<queue, work>>
    BY <1>2 DEF Take
  <2> QED BY <1>1, <2>1, AckUnchanged
<1>3. CASE queue # << >>
  <2>1. queue' = Tail(queue) /\ work' = <<Head(queue)>>
    BY <1>3 DEF Take
  <2>2. Count(work, "ack") = 0
    BY <1>1, CountEmpty
  <2>3. Count(work', "ack") = IF Head(queue) = "ack" THEN 1 ELSE 0
    BY <2>1, CountOne
  <2>4. Count(queue, "ack") = Count(work', "ack") + Count(queue', "ack")
    BY <1>1, <1>3, <2>1, <2>3, CountTail
  <2>5. Count(queue', "ack") \in Nat /\ toAck \in Nat
    <3>1. Tail(queue) \in Seq(Requests)
      BY <1>1, <1>3, HeadTailProperties
    <3>2. Count(Tail(queue), "ack") \in Nat
      BY <3>1, CountNat
    <3> QED BY <2>1, <3>2, AckCounts
  <2> QED BY <1>1, <2>2, <2>3, <2>4, <2>5 DEF OneUnacknowledged, messages
<1> QED BY <1>2, <1>3

\* An acknowledgement that is refused was the one that was to come.
LEMMA AckRefuse ==
    ASSUME RunnerInv, OneUnacknowledged, Refuse PROVE OneUnacknowledged'
<1>1. /\ work = <<Head(work)>> /\ work' = << >> /\ queue' = queue
      /\ UNCHANGED <<outstanding, held, toAck>>
      /\ outstanding \in BOOLEAN /\ refused \in BOOLEAN
  BY RequestTaken DEF Refuse, RunnerInv, TypeOK
<1>2. Count(work', "ack") = 0
  BY <1>1, CountEmpty
<1>3. CASE Head(work) = "ack"
  <2>1. Count(work, "ack") = 1
    BY <1>1, <1>3, CountOne
  <2>2. /\ outstanding = TRUE
        /\ toAck + Count(queue, "ack") + Count(work, "ack") = 1
    BY <2>1, AckCounts DEF OneUnacknowledged
  <2>3. refused' = TRUE
    BY <1>3 DEF Refuse
  <2> QED BY <1>1, <1>2, <2>1, <2>2, <2>3, AckCounts DEF OneUnacknowledged
<1>4. CASE Head(work) # "ack"
  <2>1. Count(work, "ack") = 0
    BY <1>1, <1>4, CountOne
  <2>2. refused' = refused
    BY <1>1, <1>4, Zenon DEF Refuse
  <2> QED BY <1>1, <1>2, <2>1, <2>2 DEF OneUnacknowledged
<1> QED BY <1>3, <1>4

LEMMA AckComplete ==
    ASSUME RunnerInv, OneUnacknowledged, Complete PROVE OneUnacknowledged'
<1>1. /\ UNCHANGED <<queue, messages>> /\ work = <<Head(work)>>
      /\ \/ work' = work
         \/ Head(work) # "ack" /\ work' = << >>
  BY CommandAtHand DEF Complete, Ended
<1>2. CASE work' = work
  BY <1>1, <1>2, AckUnchanged
<1>3. CASE Head(work) # "ack" /\ work' = << >>
  <2>1. Count(work, "ack") = 0
    BY <1>1, <1>3, CountOne
  <2> QED BY <1>1, <1>3, <2>1, AckOtherWork
<1> QED BY <1>1, <1>2, <1>3

\* The acknowledgement is the one that was to come, and there is no other.
LEMMA AckNextMessage ==
    ASSUME RunnerInv, OneUnacknowledged, NextMessage PROVE OneUnacknowledged'
<1>1. /\ work = <<"ack">> /\ work' = << >> /\ queue' = queue
      /\ outstanding \in BOOLEAN /\ refused \in BOOLEAN /\ refused' = refused
  BY DEF NextMessage, RunnerInv, TypeOK, WorkKnown, requests
<1>2. Count(work, "ack") = 1 /\ Count(work', "ack") = 0
  BY <1>1, CountOne, CountEmpty
<1>3. /\ outstanding = TRUE /\ refused = FALSE
      /\ toAck = 0 /\ Count(queue, "ack") = 0
  BY <1>1, <1>2, AckCounts DEF OneUnacknowledged
<1>4. CASE held = << >>
  <2>1. outstanding' = FALSE /\ held' = << >> /\ toAck' = 0
    BY <1>3, <1>4 DEF NextMessage
  <2> QED BY <1>1, <1>2, <1>3, <2>1 DEF OneUnacknowledged
<1>5. CASE held # << >>
  <2>1. outstanding' = TRUE /\ toAck' = 1
    BY <1>3, <1>5 DEF NextMessage
  <2> QED BY <1>1, <1>2, <1>3, <2>1 DEF OneUnacknowledged
<1> QED BY <1>4, <1>5

LEMMA AckNewSms ==
    ASSUME RunnerInv, OneUnacknowledged, NEW r \in Reader, NewSms(r)
    PROVE  OneUnacknowledged'
<1>1. /\ queue' = queue /\ work' = work /\ refused' = refused
      /\ outstanding \in BOOLEAN /\ refused \in BOOLEAN
  BY DEF NewSms, requests, loop, RunnerInv, TypeOK
<1>2. CASE outstanding = TRUE
  BY <1>1, <1>2 DEF NewSms, OneUnacknowledged
<1>3. CASE outstanding = FALSE
  <2>1. /\ toAck = 0 /\ Count(queue, "ack") = 0 /\ Count(work, "ack") = 0
        /\ refused = FALSE
    BY <1>1, <1>3, AckCounts DEF OneUnacknowledged
  <2>2. outstanding' = TRUE /\ toAck' = toAck + 1
    BY <1>3 DEF NewSms
  <2> QED BY <1>1, <2>1, <2>2 DEF OneUnacknowledged
<1> QED BY <1>1, <1>2, <1>3

LEMMA AckAsk ==
    ASSUME RunnerInv, OneUnacknowledged, PlainRequest \/ Acknowledge
    PROVE  OneUnacknowledged'
<1>1. /\ queue \in Seq(Requests) /\ work' = work
      /\ UNCHANGED <<outstanding, held, refused>>
  BY DEF PlainRequest, Acknowledge, Ask, loop, RunnerInv, TypeOK
<1>2. "plain" \in Requests /\ "ack" \in Requests
  BY DEF Requests
<1>3. CASE PlainRequest
  <2>1. queue' = Append(queue, "plain") /\ toAck' = toAck
    BY <1>3 DEF PlainRequest, Ask
  <2>2. Count(queue', "ack") = Count(queue, "ack") + 0
    BY <1>1, <1>2, <2>1, CountAppend
  <2> QED BY <1>1, <2>1, <2>2, AckCounts DEF OneUnacknowledged
<1>4. CASE Acknowledge
  <2>1. queue' = Append(queue, "ack") /\ toAck' = toAck - 1
    BY <1>4 DEF Acknowledge, Ask
  <2>2. Count(queue', "ack") = Count(queue, "ack") + 1
    BY <1>1, <1>2, <2>1, CountAppend
  <2> QED BY <1>1, <2>1, <2>2, AckCounts DEF OneUnacknowledged
<1> QED BY <1>3, <1>4

LEMMA AckNext ==
    ASSUME RunnerInv, OneUnacknowledged, [Next]_vars PROVE OneUnacknowledged'
<1>1. CASE \/ \E r \in Reader : Open(r)
           \/ HandshakeSend \/ HandshakeUnsent \/ HandshakeDone
           \/ HandshakeTimeout \/ HandshakeClosed \/ SendCommand
           \/ PollEnds \/ Pass \/ LeaveLoop \/ LeftLoop
  <2>1. UNCHANGED <<queue, work, messages>>
    BY <1>1
       DEF Open, HandshakeSend, HandshakeUnsent, HandshakeDone,
           HandshakeTimeout, HandshakeClosed, SendCommand, Send, SendFails,
           TakeAnswer, ChannelClosed, Timeout, TimeoutSignal, PollEnds, Pass,
           LeaveLoop, LeftLoop, requests
  <2> QED BY <2>1, AckUnchanged
<1>2. CASE \E r \in Reader : ReaderStep(r) \/ ReadSms(r)
  <2>1. PICK r \in Reader : ReaderStep(r) \/ ReadSms(r)
    BY <1>2
  <2>2. CASE NewSms(r)
    BY <2>2, AckNewSms
  <2>3. CASE ~NewSms(r)
    <3>1. UNCHANGED <<queue, work, messages>>
      BY <2>1, <2>3
         DEF ReaderStep, Check, Kicked, ReadAnswer, ReadEof, FinalResponse,
             IgnoreSms, TestClosed, SetClosed, ReaderRadio, ReaderSignal,
             ReaderClose, ReaderKick, ReadSms, loop, requests
    <3> QED BY <3>1, AckUnchanged
  <2> QED BY <2>2, <2>3
<1>3. CASE HangUp \/ UNCHANGED vars
  <2>1. UNCHANGED <<queue, work, messages>>
    BY <1>3 DEF HangUp, vars, loop, requests
  <2> QED BY <2>1, AckUnchanged
<1>4. CASE \/ HandshakeOver \/ PauseEnds \/ ResetClosed \/ InitializeEnds
           \/ Take \/ Refuse \/ Complete \/ NextMessage
           \/ PlainRequest \/ Acknowledge
  BY <1>4, AckSendsOn, AckTake, AckRefuse, AckComplete, AckNextMessage, AckAsk
<1> QED BY <1>1, <1>2, <1>3, <1>4 DEF Next, Runner, Handshake

\* At most one message waits for its acknowledgement, whatever fails meanwhile.
\* Until an acknowledgement is refused for the radio state, exactly one is to
\* come while s_outstanding_acknowledge is set; from then on none is, and the
\* flag stays set: nothing is reported any more, but never a second message
\* over one that is not acknowledged.
THEOREM OneMessageAtATime == Spec => []OneUnacknowledged
<1>1. Init => OneUnacknowledged
  BY AckInit
<1>2. RunnerInv /\ OneUnacknowledged /\ [Next]_vars => OneUnacknowledged'
  BY AckNext
<1> QED BY <1>1, <1>2, RunnerHolds, PTL DEF Spec
=============================================================================
