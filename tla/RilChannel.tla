----------------------------- MODULE RilChannel -----------------------------
(***************************************************************************)
(* The radio interface layer: the AT channel (atchannel.c) with its reader *)
(* threads, the queue runner that opens the channel, initializes it, runs  *)
(* the requests and opens it again after a failure, and the short messages *)
(* held back until the framework acknowledged the previous one.            *)
(*                                                                         *)
(* A step is one critical section, or one access outside of any: a command *)
(* is sent (commandmutex from the lock to the wait) or its answer taken    *)
(* (from the wake-up to the unlock).  Each of the two lists of commands    *)
(* that initialize the modem stands as one command, and so does a request. *)
(* Of the events (eventList) only pollSIMState is here, which makes the    *)
(* radio ready; its own command is left out.  A line is read in the step   *)
(* in which the modem sends it: a line that waits in the tty is one that   *)
(* the modem has still to send.                                            *)
(*                                                                         *)
(* Requests are acknowledgements of messages, with an argument of 0 or 1   *)
(* (requestSMSAcknowledge refuses others), and plain ones, which stand for *)
(* any that processRequest completes: it completes all but 525.            *)
(*                                                                         *)
(* A definition marked Faulty stands before the one it could be mistaken   *)
(* for; the properties are tested against it, and no action uses it.       *)
(***************************************************************************)
EXTENDS Integers, Sequences, FiniteSets

CONSTANTS
    Sms,            \* short messages, status reports and broadcasts to come
    MaxPlain,       \* bound: requests other than acknowledgements
    MaxFailures,    \* bound: hang-ups and late answers
    MaxOpens,       \* bound: how often the channel is opened
    Tries           \* HANDSHAKE_RETRY_COUNT

Reader == 1..MaxOpens   \* a reader thread is started at each opening
Requests == {"plain", "ack"}
Commands == Requests \cup {"handshake", "common", "channel"}
Lines == Commands \cup Sms
None == "none"

\* "off" stands for OFF, SIM_NOT_READY and SIM_LOCKED_OR_ABSENT.
RadioStates == {"unavailable", "off", "ready"}

\* The reader tells messages from answers (isFinalResponse, isSMSUnsolicited).
ASSUME RilAssumption ==
    /\ MaxPlain \in Nat /\ MaxFailures \in Nat
    /\ MaxOpens \in Nat
    /\ Tries \in Nat \ {0}
    /\ Sms \cap Commands = {}

VARIABLES
    fd,             \* ac->fd: "open" or "none"
    readerClosed,   \* ac->readerClosed
    response,       \* ac->response: None, "pending" or what it answers
    kicks,          \* bytes in the pipe readerCmdFds
    reader,         \* where each reader thread is
    line,           \*   the line it has read
    runner,         \* where the queue runner is
    work,           \*   commands it has taken, the current one first
    tries,          \*   handshakes left
    radio,          \* sState
    closed,         \* q->closed
    queue,          \* q->requestList
    plains,         \* requests other than acknowledgements to come
    uncompleted,    \* how many requests were made and are not completed
    outstanding,    \* s_outstanding_acknowledge
    held,           \* s_held_pdus
    toAck,          \* messages the framework has still to acknowledge
    owes,           \* modem: commands to answer
    hungUp,         \*   the tty was hung up
    unreported,     \*   messages to come
    failures,       \* hang-ups and late answers so far
    opens,          \* how often the channel was opened
    abandoned,      \* a command was given up whose answer may still come
    refused         \* an acknowledgement was completed without being sent

atc == <<fd, readerClosed, response, kicks>>
readers == <<reader, line>>
loop == <<runner, work, tries>>
requests == <<closed, queue, plains, uncompleted>>
messages == <<outstanding, held, toAck, refused>>
modem == <<owes, hungUp, unreported>>
ghosts == <<failures, opens, abandoned>>
vars == <<atc, readers, loop, radio, requests, messages, modem, ghosts>>

Init ==
    /\ fd = "none" /\ readerClosed = FALSE /\ response = None /\ kicks = 0
    /\ reader = [r \in Reader |-> "gone"] /\ line = [r \in Reader |-> None]
    /\ runner = "open" /\ work = <<>> /\ tries = 0
    /\ radio = "unavailable" /\ closed = TRUE /\ queue = <<>>
    /\ plains = MaxPlain /\ uncompleted = 0
    /\ outstanding = FALSE /\ held = <<>> /\ toAck = 0
    /\ owes = <<>> /\ hungUp = FALSE /\ unreported = Sms
    /\ failures = 0 /\ opens = 0 /\ abandoned = FALSE
    /\ refused = FALSE

\* at_handshake sleeps with commandmutex held.
Unlocked == runner # "pause"

\* The command at hand.
Command == IF runner \in {"shake", "shaken"} THEN "handshake" ELSE Head(work)

\* An answer may be on its way: the modem owes it, or it was read and not
\* processed.
Underway == owes # <<>> \/ \E r \in Reader : line[r] \in Commands
---------------------------------------------------------------------------
\* Closing the channel (at_close), by the queue runner or a reader.

\* The tty is closed, and the answers that wait in it are lost; a reader that
\* polls it is not woken by this.
CloseTty ==
    /\ fd' = "none" /\ hungUp' = FALSE
    /\ \E n \in 0..Len(owes) : owes' = SubSeq(owes, n + 1, Len(owes))
Stale(rd) == [r \in Reader |-> IF rd[r] = "poll" THEN "stale" ELSE rd[r]]

\* The second half, with the kick that wakes a reader up.
MarkClosed == readerClosed' = TRUE /\ kicks' = kicks + 1
---------------------------------------------------------------------------
\* Sending commands (at_send_command_full_nolock).

\* writeline refuses a closed channel and fails on a tty that was hung up.
Writable == fd = "open" /\ ~readerClosed /\ ~hungUp

Write(c) == response' = "pending" /\ owes' = Append(owes, c)

Answered == response \notin {None, "pending"}

\* The command ends without its answer.
GiveUp == response' = None /\ abandoned' = (abandoned \/ Underway)

\* One of the failures the bound allows; a wait that nothing would end but a
\* timeout is not counted.
Fail == failures < MaxFailures /\ failures' = failures + 1
NoAnswer ==
    IF Underway \/ Answered \/ readerClosed THEN Fail ELSE UNCHANGED failures
---------------------------------------------------------------------------
\* The queue runner (queueRunner).

\* The tty is opened and a reader thread started (at_open).
Open(r) ==
    /\ runner = "open" /\ r = opens + 1 /\ opens' = r
    /\ fd' = "open" /\ readerClosed' = FALSE /\ response' = None
    /\ reader' = [reader EXCEPT ![r] = "check"]
    /\ runner' = "shake" /\ tries' = Tries
    /\ UNCHANGED <<kicks, line, work, radio, requests, messages, modem, failures,
                   abandoned>>

\* at_handshake: its failure, a positive error, is not seen by
\* initializeCommon, which goes on.
HandshakeSend ==
    /\ runner = "shake" /\ tries > 0 /\ Writable
    /\ Write("handshake")
    /\ runner' = "shaken" /\ tries' = tries - 1
    /\ UNCHANGED <<fd, readerClosed, kicks, readers, work, radio, requests,
                   messages, hungUp, unreported, ghosts>>
\* Faulty: the handshakes that could not be sent are not limited.
HandshakeUnlimited ==
    /\ runner = "shake" /\ ~Writable
    /\ tries' = tries - 1
    /\ UNCHANGED <<atc, readers, runner, work, radio, requests, messages, modem,
                   ghosts>>
HandshakeUnsent ==
    /\ runner = "shake" /\ tries > 0 /\ ~Writable
    /\ tries' = tries - 1
    /\ UNCHANGED <<atc, readers, runner, work, radio, requests, messages, modem,
                   ghosts>>
HandshakeOver ==
    /\ runner = "shake" /\ tries = 0
    /\ runner' = "send" /\ work' = <<"common">>
    /\ UNCHANGED <<atc, readers, tries, radio, requests, messages, modem, ghosts>>
HandshakeDone ==
    /\ runner = "shaken" /\ Answered /\ ~readerClosed
    /\ response' = None /\ runner' = "pause"
    /\ UNCHANGED <<fd, readerClosed, kicks, readers, work, tries, radio, requests,
                   messages, modem, ghosts>>
HandshakeTimeout ==
    /\ runner = "shaken" /\ NoAnswer /\ GiveUp /\ runner' = "shake"
    /\ UNCHANGED <<fd, readerClosed, kicks, readers, work, tries, radio, requests,
                   messages, modem, opens>>
HandshakeClosed ==
    /\ runner = "shaken" /\ readerClosed
    /\ GiveUp /\ runner' = "shake"
    /\ UNCHANGED <<fd, readerClosed, kicks, readers, work, tries, radio, requests,
                   messages, modem, failures, opens>>
PauseEnds ==
    /\ runner = "pause"
    /\ runner' = "send" /\ work' = <<"common">>
    /\ UNCHANGED <<atc, readers, tries, radio, requests, messages, modem, ghosts>>
Handshake ==
    \/ HandshakeSend
    \/ HandshakeUnsent
    \/ HandshakeOver
    \/ HandshakeDone
    \/ HandshakeTimeout
    \/ HandshakeClosed
    \/ PauseEnds

\* at_send_command and its relatives, from the queue runner.
Send ==
    /\ runner = "send" /\ Writable
    /\ Write(Head(work))
    /\ runner' = "sent"
    /\ UNCHANGED <<fd, readerClosed, kicks, readers, work, tries, radio, requests,
                   messages, hungUp, unreported, ghosts>>
\* Faulty: a request that cannot be sent is dropped.
SendFailsDropped ==
    /\ runner = "send" /\ ~Writable
    /\ runner' = IF Head(work) \in Requests THEN "loop" ELSE "failed"
    /\ UNCHANGED <<atc, readers, work, tries, radio, requests, messages, modem,
                   ghosts>>
SendFails ==
    /\ runner = "send" /\ ~Writable
    /\ runner' = "failed"
    /\ UNCHANGED <<atc, readers, work, tries, radio, requests, messages, modem,
                   ghosts>>
TakeAnswer ==
    /\ runner = "sent" /\ Answered /\ ~readerClosed
    /\ response' = None /\ runner' = "answered"
    /\ UNCHANGED <<fd, readerClosed, kicks, readers, work, tries, radio,
                   requests, messages, modem, ghosts>>
ChannelClosed ==
    /\ runner = "sent" /\ readerClosed
    /\ GiveUp /\ runner' = "failed"
    /\ UNCHANGED <<fd, readerClosed, kicks, readers, work, tries, radio,
                   requests, messages, modem, failures, opens>>
\* The wait may time out although an answer or a close just came.
Timeout ==
    /\ runner = "sent" /\ NoAnswer
    /\ GiveUp /\ runner' = "timeout"
    /\ UNCHANGED <<fd, readerClosed, kicks, readers, work, tries, radio,
                   requests, messages, modem, opens>>
\* onATTimeout, after the unlock: the radio state and signalCloseQueues.
TimeoutSignal ==
    /\ runner = "timeout"
    /\ radio' = "unavailable" /\ closed' = TRUE /\ runner' = "failed"
    /\ UNCHANGED <<atc, readers, work, tries, queue, plains, uncompleted,
                   messages, modem, ghosts>>
SendCommand ==
    \/ Send
    \/ SendFails
    \/ TakeAnswer
    \/ ChannelClosed
    \/ Timeout
    \/ TimeoutSignal

Ended == runner \in {"answered", "failed"}

\* What a command that was answered sets the radio state to: the answer may
\* be an error, or say what changes nothing.
SetRadio(states) ==
    radio' \in (IF runner = "answered" THEN states ELSE {}) \cup {radio}

\* The first commands were sent: q->closed is reset, whoever set it, and
\* initializeChannel sends more.
ResetClosed ==
    /\ Ended /\ Head(work) = "common"
    /\ closed' = FALSE /\ radio' = "off"
    /\ runner' = "send" /\ work' = <<"channel">>
    /\ UNCHANGED <<atc, readers, tries, queue, plains, uncompleted,
                   messages, modem, ghosts>>
InitializeEnds ==
    /\ Ended /\ Head(work) = "channel"
    /\ SetRadio({"off"})
    /\ runner' = "loop" /\ work' = <<>>
    /\ UNCHANGED <<atc, readers, tries, requests, messages, modem, ghosts>>

\* An iteration takes the poll of the SIM, which is of use only while the
\* SIM is not ready, and a request, if there is one.
Take ==
    /\ runner = "loop" /\ ~closed
    /\ \/ queue # <<>> /\ runner' = "process"
       \/ radio = "off" /\ runner' = "poll"
    /\ IF queue = <<>>
       THEN UNCHANGED <<work, queue>>
       ELSE work' = <<Head(queue)>> /\ queue' = Tail(queue)
    /\ UNCHANGED <<atc, readers, tries, radio, closed, plains, uncompleted,
                   messages, modem, ghosts>>

\* pollSIMState sets what it found, whatever the radio state is by now.
PollEnds ==
    /\ runner = "poll"
    /\ radio' \in {radio, "off", "ready"}
    /\ runner' = IF work = <<>> THEN "loop" ELSE "process"
    /\ UNCHANGED <<atc, readers, work, tries, requests, messages, modem, ghosts>>

\* processRequest tests the radio state: acknowledgements need a SIM that is
\* ready, of the other requests some need no radio and some no command.
MayPass ==
    \/ radio = "ready"
    \/ radio = "off" /\ Head(work) = "plain"
Pass ==
    /\ runner = "process" /\ MayPass
    /\ runner' = "send"
    /\ UNCHANGED <<atc, readers, work, tries, radio, requests, messages, modem,
                   ghosts>>
Refuse ==
    /\ runner = "process" /\ (Head(work) = "ack" => ~MayPass)
    /\ uncompleted' = uncompleted - 1
    /\ refused' = (refused \/ Head(work) = "ack")
    /\ work' = <<>> /\ runner' = "loop"
    /\ UNCHANGED <<atc, readers, tries, radio, closed, queue, plains,
                   outstanding, held, toAck, modem, ghosts>>

\* RIL_onRequestComplete; after an acknowledgement the next message follows.
\* requestRadioPower may have changed the radio state.
Complete ==
    /\ Ended /\ Head(work) \in Requests
    /\ uncompleted' = uncompleted - 1
    /\ IF Head(work) = "ack"
       THEN runner' = "acked" /\ UNCHANGED <<work, radio>>
       ELSE /\ work' = <<>> /\ runner' = "loop"
            /\ SetRadio({"unavailable", "off"})
    /\ UNCHANGED <<atc, readers, tries, closed, queue, plains,
                   messages, modem, ghosts>>

\* The end of requestSMSAcknowledge, under s_held_pdus_mutex.
\* Faulty: held messages wait for the next one to come.
NextMessageWaits ==
    /\ runner = "acked"
    /\ outstanding' = FALSE /\ work' = <<>> /\ runner' = "loop"
    /\ UNCHANGED <<atc, readers, tries, radio, requests, held, toAck, refused,
                   modem, ghosts>>
NextMessage ==
    /\ runner = "acked"
    /\ IF held = <<>>
       THEN outstanding' = FALSE /\ UNCHANGED <<held, toAck>>
       ELSE /\ held' = Tail(held) /\ toAck' = toAck + 1
            /\ UNCHANGED outstanding
    /\ work' = <<>> /\ runner' = "loop"
    /\ UNCHANGED <<atc, readers, tries, radio, requests, refused, modem,
                   ghosts>>

\* The queue was closed: the channel is closed and opened again.
LeaveLoop ==
    /\ runner = "loop" /\ closed
    /\ CloseTty /\ reader' = Stale(reader) /\ runner' = "close"
    /\ UNCHANGED <<readerClosed, response, kicks, line, work, tries,
                   radio, requests, messages, unreported, ghosts>>
LeftLoop ==
    /\ runner = "close"
    /\ MarkClosed /\ runner' = "open"
    /\ UNCHANGED <<fd, response, readers, work, tries, radio, requests, messages,
                   modem, ghosts>>

Runner ==
    \/ \E r \in Reader : Open(r)
    \/ Handshake
    \/ SendCommand
    \/ ResetClosed
    \/ InitializeEnds
    \/ Take
    \/ PollEnds
    \/ Pass
    \/ Refuse
    \/ Complete
    \/ NextMessage
    \/ LeaveLoop
    \/ LeftLoop
---------------------------------------------------------------------------
\* Reader threads (readerLoop and readline).

Check(r) ==
    /\ reader[r] = "check"
    /\ reader' = [reader EXCEPT ![r] = IF fd = "none" THEN "eof" ELSE "poll"]
    /\ UNCHANGED <<atc, line, loop, radio, requests, messages, modem, ghosts>>

\* A kick, whichever reader drains it.
Kicked(r) ==
    /\ reader[r] \in {"poll", "stale"} /\ kicks > 0
    /\ kicks' = kicks - 1
    /\ reader' = [reader EXCEPT ![r] = "check"]
    /\ UNCHANGED <<fd, readerClosed, response, line, loop, radio, requests,
                   messages, modem, ghosts>>
Reads(r, l) ==
    /\ reader[r] = "poll" /\ kicks = 0 /\ fd = "open" /\ ~hungUp
    /\ line' = [line EXCEPT ![r] = l]
    /\ reader' = [reader EXCEPT ![r] = "line"]
ReadAnswer(r) ==
    /\ owes # <<>> /\ Reads(r, Head(owes))
    /\ owes' = Tail(owes)
    /\ UNCHANGED <<atc, loop, radio, requests, messages, hungUp, unreported, ghosts>>
\* Nothing tells the messages apart: one order stands for all.
ReadSms(r) ==
    /\ unreported # {}
    /\ LET s == CHOOSE s \in unreported : TRUE
       IN  Reads(r, s) /\ unreported' = unreported \ {s}
    /\ UNCHANGED <<atc, loop, radio, requests, messages, owes, hungUp, ghosts>>
ReadEof(r) ==
    /\ reader[r] = "poll" /\ kicks = 0 /\ hungUp
    /\ reader' = [reader EXCEPT ![r] = "eof"]
    /\ UNCHANGED <<atc, line, loop, radio, requests, messages, modem, ghosts>>

LineDone(r) ==
    /\ reader' = [reader EXCEPT ![r] = "check"]
    /\ line' = [line EXCEPT ![r] = None]

\* processLine of a final response, under commandmutex: it answers the
\* pending command, whatever command that is.
\* Faulty: without a pending command the line is kept as an answer.
FinalAnyTime(r) ==
    /\ reader[r] = "line" /\ line[r] \in Commands /\ Unlocked
    /\ response' = line[r]
    /\ LineDone(r)
    /\ UNCHANGED <<fd, readerClosed, kicks, loop, radio, requests, messages, modem,
                   ghosts>>
FinalResponse(r) ==
    /\ reader[r] = "line" /\ line[r] \in Commands /\ Unlocked
    /\ response' = IF response = None THEN None ELSE line[r]
    /\ LineDone(r)
    /\ UNCHANGED <<fd, readerClosed, kicks, loop, radio, requests, messages, modem,
                   ghosts>>

\* onUnsolicited: while the radio is unavailable a message is ignored, else
\* onNewSms, onNewStatusReport or onNewBroadcastSms reports it, or holds it
\* while another one is not acknowledged.
\* Faulty: a message is held only behind other held ones.
NewSmsBehindHeld(r) ==
    /\ reader[r] = "line" /\ line[r] \in Sms /\ radio # "unavailable"
    /\ IF held # <<>>
       THEN held' = Append(held, line[r]) /\ UNCHANGED <<outstanding, toAck>>
       ELSE outstanding' = TRUE /\ toAck' = toAck + 1 /\ UNCHANGED held
    /\ LineDone(r)
    /\ UNCHANGED <<atc, loop, radio, requests, refused, modem, ghosts>>
NewSms(r) ==
    /\ reader[r] = "line" /\ line[r] \in Sms /\ radio # "unavailable"
    /\ IF outstanding
       THEN held' = Append(held, line[r]) /\ UNCHANGED <<outstanding, toAck>>
       ELSE outstanding' = TRUE /\ toAck' = toAck + 1 /\ UNCHANGED held
    /\ LineDone(r)
    /\ UNCHANGED <<atc, loop, radio, requests, refused, modem, ghosts>>
IgnoreSms(r) ==
    /\ reader[r] = "line" /\ line[r] \in Sms /\ radio = "unavailable"
    /\ LineDone(r)
    /\ UNCHANGED <<atc, loop, radio, requests, messages, modem, ghosts>>

\* onReaderClosed: readerClosed is tested outside the lock.
TestClosed(r) ==
    /\ reader[r] = "eof"
    /\ reader' =
        [reader EXCEPT ![r] = IF readerClosed THEN "gone" ELSE "closing"]
    /\ UNCHANGED <<atc, line, loop, radio, requests, messages, modem, ghosts>>
SetClosed(r) ==
    /\ reader[r] = "closing" /\ Unlocked
    /\ readerClosed' = TRUE
    /\ reader' = [reader EXCEPT ![r] = "radio"]
    /\ UNCHANGED <<fd, response, kicks, line, loop, radio, requests, messages,
                   modem, ghosts>>

\* onATReaderClosed: the radio state, signalCloseQueues, then at_close of
\* whatever channel is open by then.
ReaderRadio(r) ==
    /\ reader[r] = "radio"
    /\ radio' = "unavailable" /\ reader' = [reader EXCEPT ![r] = "signal"]
    /\ UNCHANGED <<atc, line, loop, requests, messages, modem, ghosts>>
ReaderSignal(r) ==
    /\ reader[r] = "signal"
    /\ closed' = TRUE /\ reader' = [reader EXCEPT ![r] = "close"]
    /\ UNCHANGED <<atc, line, loop, radio, queue, plains, uncompleted, messages,
                   modem, ghosts>>
ReaderClose(r) ==
    /\ reader[r] = "close"
    /\ CloseTty /\ reader' = [Stale(reader) EXCEPT ![r] = "kick"]
    /\ UNCHANGED <<readerClosed, response, kicks, line, loop, radio, requests,
                   messages, unreported, ghosts>>
ReaderKick(r) ==
    /\ reader[r] = "kick" /\ Unlocked
    /\ MarkClosed /\ reader' = [reader EXCEPT ![r] = "gone"]
    /\ UNCHANGED <<fd, response, line, loop, radio, requests, messages, modem,
                   ghosts>>

ReaderStep(r) ==
    \/ Check(r)
    \/ Kicked(r)
    \/ ReadAnswer(r)
    \/ ReadEof(r)
    \/ FinalResponse(r)
    \/ NewSms(r)
    \/ IgnoreSms(r)
    \/ TestClosed(r)
    \/ SetClosed(r)
    \/ ReaderRadio(r)
    \/ ReaderSignal(r)
    \/ ReaderClose(r)
    \/ ReaderKick(r)
---------------------------------------------------------------------------
\* The framework (RIL_onRequest) and the modem.

Ask(q) ==
    /\ queue' = Append(queue, q) /\ uncompleted' = uncompleted + 1
    /\ UNCHANGED <<atc, readers, loop, radio, closed, outstanding, held,
                   refused, modem, ghosts>>
PlainRequest ==
    /\ plains > 0 /\ plains' = plains - 1
    /\ Ask("plain") /\ UNCHANGED toAck
Acknowledge ==
    /\ toAck > 0 /\ toAck' = toAck - 1
    /\ Ask("ack") /\ UNCHANGED plains

\* The modem is unplugged or reset; a new one answers nothing old.
HangUp ==
    /\ fd = "open" /\ ~hungUp /\ Fail
    /\ hungUp' = TRUE /\ owes' = <<>>
    /\ UNCHANGED <<atc, readers, loop, radio, requests, messages, unreported, opens,
                   abandoned>>

Next ==
    \/ Runner
    \/ \E r \in Reader : ReaderStep(r) \/ ReadSms(r)
    \/ PlainRequest
    \/ Acknowledge
    \/ HangUp

Spec == Init /\ [][Next]_vars

\* Threads go on, the modem answers while it is connected (ReadAnswer) and
\* the framework acknowledges the messages it gets.
FairSpec ==
    /\ Spec
    /\ WF_vars(Runner) /\ WF_vars(Acknowledge)
    /\ \A r \in Reader : WF_vars(ReaderStep(r))
---------------------------------------------------------------------------
\* Variables have their types.
ReaderPlaces ==
    {"gone", "check", "poll", "stale", "line", "eof", "closing", "radio",
     "signal", "close", "kick"}
TypeOK ==
    /\ fd \in {"open", "none"} /\ kicks \in Nat
    /\ response \in Commands \cup {None, "pending"}
    /\ reader \in [Reader -> ReaderPlaces]
    /\ line \in [Reader -> Lines \cup {None}]
    /\ runner \in {"open", "shake", "shaken", "pause", "send", "sent",
                   "timeout", "answered", "failed", "loop", "poll",
                   "process", "acked", "close"}
    /\ work \in Seq(Commands) /\ tries \in 0..Tries
    /\ readerClosed \in BOOLEAN /\ closed \in BOOLEAN
    /\ outstanding \in BOOLEAN /\ hungUp \in BOOLEAN /\ abandoned \in BOOLEAN
    /\ radio \in RadioStates /\ refused \in BOOLEAN
    /\ queue \in Seq(Requests) /\ held \in Seq(Sms)
    /\ plains \in Nat /\ uncompleted \in Int /\ toAck \in Nat
    /\ failures \in Nat /\ opens \in Nat
    /\ owes \in Seq(Commands)
    /\ unreported \subseteq Sms

\* A command is pending only while the queue runner waits for its answer,
\* and as long as no command was given up whose answer may still come (after
\* a timeout, or with the channel), a command is completed by its own answer
\* and by nothing else that the modem or an earlier channel says.
OwnResponse ==
    /\ response # None => runner \in {"shaken", "sent"}
    /\ Answered /\ ~abandoned => response = Command

Count(q, x) == Cardinality({i \in DOMAIN q : q[i] = x})

\* "No RIL_UNSOL_RESPONSE_NEW_SMS ... should be sent until a
\* RIL_REQUEST_SMS_ACKNOWLEDGE has been received for previous new SMS"
\* (onNewSms): exactly one acknowledgement is to come while
\* s_outstanding_acknowledge is set, wherever it is on its way, none
\* otherwise, and messages are held only behind it.  Once an acknowledgement
\* was refused for the radio state the flag stays set with none to come: no
\* message is reported again.
OneUnacknowledged ==
    /\ toAck + Count(queue, "ack") + Count(work, "ack")
         = (IF outstanding /\ ~refused THEN 1 ELSE 0)
    /\ (held # <<>> \/ refused) => outstanding

\* The runner is to open the channel once more than the bound allows: readers
\* left from earlier channels may close the new one again and again.
AtBound == runner = "open" /\ opens = MaxOpens

\* Every request is completed in the end, whatever happens to the channel: by
\* an answer, or with the error of a refusal, a closed channel or a timeout.
\* (Requests are finite in number and completed in order, so that none is
\* left out.)
RequestsCompleted == []<>(uncompleted = 0 \/ AtBound)

\* Messages that are held are reported in the end, over any failure of the
\* channel, unless an acknowledgement is refused for the radio state.
HeldReported == []<>(held = <<>> \/ refused \/ AtBound)

\* readline "assumes it has exclusive read access to the FD": no two reader
\* threads wait for the same tty.
ExclusiveReader == Cardinality({r \in Reader : reader[r] = "poll"}) <= 1
=============================================================================
