----------------------- MODULE CrystalhdSessionProofs -----------------------
(***************************************************************************)
(* The sessions of CrystalhdSession for any number of files and of slots:  *)
(* one playback session unless two files set their mode at the same time,  *)
(* no leaked slot, and no link state without the hardware context.         *)
(***************************************************************************)
EXTENDS CrystalhdSession, FiniteSetTheorems, WellFoundedInduction, TLAPS

\* A non-empty set of naturals has a least element, which is its Min.
LEMMA MinNat ==
    ASSUME NEW T \in SUBSET Nat, T # {}
    PROVE  Min(T) \in T
<1> DEFINE less == OpToRel(<, Nat)
<1>1. \A x, y \in Nat : <<y, x>> \in less <=> y < x
  BY DEF OpToRel
<1>2. PICK x \in T : \A y \in T : ~ (<<y, x>> \in less)
  <2>1. IsWellFoundedOn(less, Nat)
    BY NatLessThanWellFounded
  <2> QED BY <2>1, WFMin
<1> HIDE DEF less
<1>3. \A y \in T : x =< y
  <2> SUFFICES ASSUME NEW y \in T PROVE x =< y
    OBVIOUS
  <2>1. x \in Nat /\ y \in Nat
    OBVIOUS
  <2>2. ~ (y < x)
    BY <1>1, <1>2, <2>1
  <2> QED BY <2>1, <2>2
<1> QED BY <1>3 DEF Min

-----------------------------------------------------------------------------
(***************************************************************************)
(* Types.                                                                  *)
(***************************************************************************)
\* The slot an open takes is a slot.
LEMMA FreeSlot ==
    ASSUME TypeOK, inUse # Uid
    PROVE  Min(Uid \ inUse) \in Uid \ inUse
<1>1. Uid \ inUse \in SUBSET Nat
  BY SessionAssumption DEF Uid
<1>2. Uid \ inUse # {}
  BY DEF TypeOK
<1> QED BY <1>1, <1>2, MinNat

\* The four kinds of step: a slot is taken, a slot is given back, the mode or
\* the state changes, the power changes.
LEMMA TypeOpen ==
    ASSUME TypeOK, NEW f \in File, Open(f) PROVE TypeOK'
<1> DEFINE u == Min(Uid \ inUse)
<1>1. u \in Uid
  BY FreeSlot DEF Open
<1>2. /\ file' = [file EXCEPT ![f] = u] /\ inUse' = inUse \cup {u}
      /\ mode' = [mode EXCEPT ![u] = "inv"]
  BY DEF Open
<1> HIDE DEF u
<1>3. users' \in 0..MaxOpens
  BY SessionAssumption DEF Open, TypeOK
<1>4. hw' \in BOOLEAN /\ running' \in BOOLEAN
  BY DEF Open, TypeOK
<1>5. \A g \in File : busy'[g] # "inv" => file'[g] # Closed
  BY <1>1, <1>2, SessionAssumption DEF Open, TypeOK, notify, Uid, Free
<1> QED BY <1>1, <1>2, <1>3, <1>4, <1>5
        DEF Open, TypeOK, Modes, power, notify

LEMMA TypeGiveBack ==
    ASSUME TypeOK, NEW u \in Uid, GiveBack(u)
    PROVE  /\ inUse' \subseteq Uid /\ mode' \in [Uid -> Modes]
           /\ users' \in 0..MaxOpens
           /\ state' \subseteq Bits
           /\ pwr' \in {"running", "suspend", "resume"}
           /\ {hw', rings', running'} \subseteq BOOLEAN
<1>1. users' \in 0..MaxOpens
  BY SessionAssumption DEF TypeOK, GiveBack, FewerUsers
<1>2. CASE EndsSession(mode[u], inUse \ {u})
  BY <1>1, <1>2 DEF TypeOK, GiveBack, Teardown, Modes
<1>3. CASE ~EndsSession(mode[u], inUse \ {u})
  BY <1>1, <1>3 DEF TypeOK, GiveBack, link, hardware, Modes
<1> QED BY <1>2, <1>3

LEMMA TypeClose ==
    ASSUME TypeOK, NEW f \in File, Close(f) PROVE TypeOK'
<1>1. file[f] \in Uid
  BY DEF TypeOK, Close
<1>2. CASE file[f] \notin inUse
  BY <1>2 DEF Close, TypeOK, link, hardware, power, notify, Free
<1>3. CASE file[f] \in inUse /\ mode[file[f]] = "playback" /\ ~hw
  BY <1>3 DEF Close, Oops, TypeOK, slots, link, hardware, power, notify
<1>4. CASE file[f] \in inUse /\ ~(mode[file[f]] = "playback" /\ ~hw)
  <2>1. GiveBack(file[f]) /\ file' = [file EXCEPT ![f] = Closed]
    BY <1>4 DEF Close
  <2>2. /\ file' \in [File -> Uid \cup {Closed}]
        /\ \A g \in File : busy'[g] # "inv" => file'[g] # Closed
    BY <1>4, <2>1 DEF Close, TypeOK, notify, Free
  <2> QED BY <1>1, <1>4, <2>1, <2>2, TypeGiveBack
          DEF Close, TypeOK, power, notify
<1> QED BY <1>2, <1>3, <1>4

LEMMA TypeIoctl ==
    ASSUME TypeOK, NEW f \in File,
           \/ Release(f)
           \/ \E m \in Modes \ {"inv"} : NotifySearch(f, m)
           \/ NotifySet(f)
           \/ DownloadFw(f)
           \/ StartCapture(f)
           \/ FetchFmtChange(f)
           \/ FlushCapture(f)
           \/ \E p \in BOOLEAN : PauseChannel(f, p)
           \/ GetStats(f)
    PROVE  TypeOK'
<1>1. CASE Release(f)
  <2>1. file[f] \in Uid
    BY <1>1 DEF TypeOK, Release, Served
  <2> QED BY <1>1, <2>1, TypeGiveBack DEF Release, TypeOK, power, notify
<1>2. ASSUME NEW m \in Modes \ {"inv"}, NotifySearch(f, m) PROVE TypeOK'
  <2>1. file[f] # Closed
    BY <1>2 DEF NotifySearch, Served
  <2>2. busy' \in [File -> Modes] /\ overlapped' \in BOOLEAN
    BY <1>2 DEF NotifySearch, TypeOK
  <2>3. \A g \in File : busy'[g] # "inv" => file'[g] # Closed
    BY <1>2, <2>1 DEF NotifySearch, TypeOK, slots
  <2> QED BY <1>2, <2>2, <2>3
          DEF NotifySearch, TypeOK, slots, link, hardware, power
<1>3. CASE NotifySet(f)
  <2>1. mode' \in [Uid -> Modes] /\ busy' \in [File -> Modes]
    BY <1>3 DEF NotifySet, TypeOK, Modes
  <2>2. \A g \in File : busy'[g] # "inv" => file'[g] # Closed
    BY <1>3 DEF NotifySet, TypeOK
  <2> QED BY <1>3, <2>1, <2>2 DEF NotifySet, TypeOK, link, power
<1>4. CASE DownloadFw(f)
  <2>1. state' \subseteq Bits
    BY <1>4 DEF DownloadFw, Oops, TypeOK, link, Bits, Ready
  <2> QED BY <1>4, <2>1 DEF DownloadFw, Oops, TypeOK, slots, hardware, power,
                            link, notify
<1>5. CASE StartCapture(f)
  BY <1>5 DEF StartCapture, Oops, TypeOK, slots, link, hardware, power, Bits,
              Ready, notify
<1>6. CASE FetchFmtChange(f)
  BY <1>6 DEF FetchFmtChange, TypeOK, slots, hardware, power, notify, Bits,
              Ready
<1>7. CASE FlushCapture(f)
  BY <1>7 DEF FlushCapture, TypeOK, slots, hardware, power, notify
<1>8. ASSUME NEW p \in BOOLEAN, PauseChannel(f, p) PROVE TypeOK'
  BY <1>8 DEF PauseChannel, TypeOK, slots, hardware, power, notify, Bits
<1>9. CASE GetStats(f)
  BY <1>9 DEF GetStats, Oops, TypeOK, slots, link, hardware, power, notify
<1> QED BY <1>1, <1>2, <1>3, <1>4, <1>5, <1>6, <1>7, <1>8, <1>9

LEMMA TypePower ==
    ASSUME TypeOK, Suspend \/ Resume PROVE TypeOK'
<1>1. \A s \in {"suspend", "resume"} :
          Marked(s) \in {"running", "suspend", "resume"}
  BY DEF Marked, TypeOK
<1>2. CASE Suspend
  BY <1>1, <1>2 DEF Suspend, TypeOK, slots, link, hardware, notify, Bits
<1>3. CASE Resume
  BY <1>1, <1>3 DEF Resume, ResumeNoHw, ResumeStarted, ResumeNotStarted,
                    TypeOK, slots, link, hardware, notify, Bits
<1> QED BY <1>2, <1>3

LEMMA TypeInit ==
    ASSUME Init PROVE TypeOK
<1>1. {hw, rings, running, master, asleep, oops} \subseteq BOOLEAN
  BY DEF Init
<1>2. users \in 0..MaxOpens
  BY SessionAssumption DEF Init
<1> QED BY <1>1, <1>2 DEF Init, TypeOK, Modes

LEMMA TypeNext ==
    ASSUME TypeOK, [Next]_vars PROVE TypeOK'
<1>1. CASE UNCHANGED vars
  BY <1>1 DEF vars, slots, link, hardware, power, notify, TypeOK
<1>2. CASE Next
  BY <1>2, TypeOpen, TypeClose, TypeIoctl, TypePower DEF Next, FileCalls
<1> QED BY <1>1, <1>2

\* Every reachable state has the declared types: slots are slots, and the
\* count of users is between 0 and BC_LINK_MAX_OPENS, although a slot may be
\* given back twice (crystalhd_lnx.c, chd_dec_close).
THEOREM SessionTypes == Spec => []TypeOK
<1>1. Init => TypeOK
  BY TypeInit
<1>2. TypeOK /\ [Next]_vars => TypeOK'
  BY TypeNext
<1> QED BY <1>1, <1>2, PTL DEF Spec

-----------------------------------------------------------------------------
(***************************************************************************)
(* One playback session.                                                   *)
(***************************************************************************)
\* While no two NOTIFY_MODE calls have overlapped: one file at most is between
\* its search and the setting of its mode, and what its search found still
\* holds.
NotifyInv ==
    overlapped \/
        /\ \A f, g \in File : busy[f] # "inv" /\ busy[g] # "inv" => f = g
        /\ \A f \in File : busy[f] # "inv" =>
              \A u \in Uid : mode[u] # "playback"

\* But for the setting of a mode, modes only become "inv".
ModesFall == \A v \in Uid : mode'[v] = mode[v] \/ mode'[v] = "inv"

LEMMA FallKeepsOne ==
    ASSUME OnePlayback, NotifyInv, ModesFall, UNCHANGED notify
    PROVE  OnePlayback' /\ NotifyInv'
BY DEF OnePlayback, NotifyInv, ModesFall, notify

LEMMA ModesOpen ==
    ASSUME TypeOK, NEW f \in File, Open(f)
    PROVE  ModesFall /\ UNCHANGED notify
<1> DEFINE u == Min(Uid \ inUse)
<1>1. mode' = [mode EXCEPT ![u] = "inv"] /\ UNCHANGED notify
  BY DEF Open
<1> HIDE DEF u
<1> QED BY <1>1 DEF TypeOK, ModesFall

LEMMA ModesGiveBack ==
    ASSUME TypeOK, NEW u, GiveBack(u) PROVE ModesFall
BY DEF TypeOK, ModesFall, GiveBack

LEMMA ModesCall ==
    ASSUME TypeOK, NEW f \in File,
           Close(f) \/ Release(f) \/ DownloadFw(f) \/ StartCapture(f)
           \/ FetchFmtChange(f) \/ FlushCapture(f) \/ GetStats(f)
           \/ \E p \in BOOLEAN : PauseChannel(f, p)
    PROVE  ModesFall /\ UNCHANGED notify
<1>1. CASE Close(f)
  BY <1>1, ModesGiveBack DEF Close, Oops, slots, ModesFall
<1>2. CASE Release(f)
  BY <1>2, ModesGiveBack DEF Release
<1>3. CASE DownloadFw(f) \/ StartCapture(f) \/ GetStats(f)
  BY <1>3 DEF DownloadFw, StartCapture, GetStats, Oops, slots, ModesFall
<1>4. CASE FetchFmtChange(f) \/ FlushCapture(f)
  BY <1>4 DEF FetchFmtChange, FlushCapture, slots, ModesFall
<1>5. ASSUME NEW p \in BOOLEAN, PauseChannel(f, p)
      PROVE  ModesFall /\ UNCHANGED notify
  BY <1>5 DEF PauseChannel, slots, ModesFall
<1> QED BY <1>1, <1>2, <1>3, <1>4, <1>5

LEMMA ModesPower ==
    ASSUME Suspend \/ Resume PROVE ModesFall /\ UNCHANGED notify
BY DEF Suspend, Resume, ResumeNoHw, ResumeStarted, ResumeNotStarted, slots,
       ModesFall

\* The search, which sees the other files under way or sets overlapped.
LEMMA OneSearch ==
    ASSUME TypeOK, OnePlayback, NotifyInv,
           NEW f \in File, NEW m, NotifySearch(f, m)
    PROVE  OnePlayback' /\ NotifyInv'
<1>1. mode' = mode /\ \A u \in Uid : mode[u] # "playback"
  BY DEF NotifySearch, slots
<1>2. /\ busy' = [busy EXCEPT ![f] = m]
      /\ overlapped' = (overlapped \/ \E g \in File : busy[g] # "inv")
  BY DEF NotifySearch
<1>3. CASE overlapped'
  BY <1>3 DEF OnePlayback, NotifyInv
<1>4. CASE ~overlapped'
  <2>1. \A g \in File : busy[g] = "inv"
    BY <1>2, <1>4
  <2>2. \A g \in File : g # f => busy'[g] = "inv"
    BY <1>2, <2>1 DEF TypeOK
  <2> QED BY <1>1, <2>2 DEF OnePlayback, NotifyInv
<1> QED BY <1>3, <1>4

\* The setting of the mode, by the only file that is under way.
LEMMA OneSet ==
    ASSUME TypeOK, OnePlayback, NotifyInv, NEW f \in File, NotifySet(f)
    PROVE  OnePlayback' /\ NotifyInv'
<1>1. /\ busy[f] # "inv" /\ overlapped' = overlapped
      /\ mode' = [mode EXCEPT ![file[f]] = busy[f]]
      /\ busy' = [busy EXCEPT ![f] = "inv"]
  BY DEF NotifySet
<1>2. CASE overlapped
  BY <1>1, <1>2 DEF OnePlayback, NotifyInv
<1>3. CASE ~overlapped
  <2>1. /\ \A g \in File : busy[g] # "inv" => g = f
        /\ \A u \in Uid : mode[u] # "playback"
    BY <1>1, <1>3 DEF NotifyInv
  <2>2. \A g \in File : busy'[g] = "inv"
    BY <1>1, <2>1 DEF TypeOK
  <2>3. \A u \in Uid : mode'[u] = "playback" => u = file[f]
    BY <1>1, <2>1 DEF TypeOK
  <2> QED BY <2>2, <2>3 DEF OnePlayback, NotifyInv
<1> QED BY <1>2, <1>3

LEMMA OneNext ==
    ASSUME TypeOK, OnePlayback, NotifyInv, [Next]_vars
    PROVE  OnePlayback' /\ NotifyInv'
<1>1. CASE UNCHANGED vars
  BY <1>1 DEF vars, slots, notify, OnePlayback, NotifyInv
<1>2. ASSUME NEW f \in File, FileCalls(f) PROVE OnePlayback' /\ NotifyInv'
  BY <1>2, ModesOpen, ModesCall, FallKeepsOne, OneSearch, OneSet
     DEF FileCalls
<1>3. CASE Suspend \/ Resume
  BY <1>3, ModesPower, FallKeepsOne
<1> QED BY <1>1, <1>2, <1>3 DEF Next

\* At most one slot is the playback session, whatever order files open, set
\* their mode, are released and closed in, as long as no NOTIFY_MODE searched
\* the slots while another had not set its mode (bc_cproc_notify_mode).
THEOREM OneSession == Spec => []OnePlayback
<1>1. Init => OnePlayback /\ NotifyInv
  BY DEF Init, OnePlayback, NotifyInv
<1>2. TypeOK /\ OnePlayback /\ NotifyInv /\ [Next]_vars
      => OnePlayback' /\ NotifyInv'
  BY OneNext
<1> QED BY <1>1, <1>2, SessionTypes, PTL DEF Spec

-----------------------------------------------------------------------------
(***************************************************************************)
(* Slots and files.                                                        *)
(***************************************************************************)
\* Slots are finite in number.
LEMMA SlotsFinite ==
    ASSUME TypeOK
    PROVE  IsFiniteSet(inUse) /\ Cardinality(inUse) \in Nat
<1>1. IsFiniteSet(Uid)
  BY SessionAssumption, FS_Interval DEF Uid
<1> QED BY <1>1, FS_Subset, FS_CardinalityType DEF TypeOK

LEMMA HandlesOpen ==
    ASSUME TypeOK, HandlesMatchFiles, NEW f \in File, Open(f)
    PROVE  HandlesMatchFiles'
<1> DEFINE u == Min(Uid \ inUse)
<1>1. u \in Uid /\ u \notin inUse
  BY FreeSlot DEF Open
<1>2. /\ file' = [file EXCEPT ![f] = u] /\ inUse' = inUse \cup {u}
      /\ users' = users + 1 /\ file[f] = Closed
  BY DEF Open
<1> HIDE DEF u
<1>3. users' <= Cardinality(inUse')
  <2>1. Cardinality(inUse') = Cardinality(inUse) + 1
    BY <1>1, <1>2, SlotsFinite, FS_AddElement
  <2>2. users \in Nat /\ users <= Cardinality(inUse)
    BY DEF TypeOK, HandlesMatchFiles
  <2> QED BY <1>2, <2>1, <2>2, SlotsFinite
<1>4. \A v \in inUse' : \E g \in File : file'[g] = v
  <2> SUFFICES ASSUME NEW v \in inUse' PROVE \E g \in File : file'[g] = v
    OBVIOUS
  <2>1. CASE v = u
    BY <1>2, <2>1 DEF TypeOK
  <2>2. CASE v # u
    <3>1. PICK g \in File : file[g] = v
      BY <1>2, <2>2 DEF HandlesMatchFiles
    <3>2. v # Closed
      <4>1. v \in Uid
        BY <1>2, <2>2 DEF TypeOK
      <4> QED BY <4>1, SessionAssumption DEF Uid
    <3> QED BY <1>2, <3>1, <3>2 DEF TypeOK
  <2> QED BY <2>1, <2>2
<1> QED BY <1>3, <1>4 DEF HandlesMatchFiles

\* A slot that is given back, in use or not, takes one user with it.
LEMMA UsersGiveBack ==
    ASSUME TypeOK, HandlesMatchFiles, NEW u \in Uid, GiveBack(u)
    PROVE  users' <= Cardinality(inUse')
<1>1. inUse' = inUse \ {u} /\ users' = FewerUsers
  BY DEF GiveBack
<1>2. users \in Nat /\ users <= Cardinality(inUse)
  BY DEF TypeOK, HandlesMatchFiles
<1>3. CASE u \in inUse
  <2>1. Cardinality(inUse') = Cardinality(inUse) - 1
        /\ Cardinality(inUse') \in Nat
    <3>1. IsFiniteSet(inUse')
      BY <1>1, SlotsFinite, FS_Subset
    <3> QED BY <1>1, <1>3, <3>1, SlotsFinite, FS_RemoveElement,
               FS_CardinalityType
  <2> QED BY <1>1, <1>2, <2>1, SlotsFinite DEF FewerUsers
<1>4. CASE u \notin inUse
  <2>1. inUse' = inUse
    BY <1>1, <1>4
  <2> QED BY <1>1, <1>2, <2>1, SlotsFinite DEF FewerUsers
<1> QED BY <1>3, <1>4

LEMMA HandlesCall ==
    ASSUME TypeOK, HandlesMatchFiles, NEW f \in File, Close(f) \/ Release(f)
    PROVE  HandlesMatchFiles'
<1>1. file[f] \in Uid
  BY DEF TypeOK, Close, Release, Served
<1>2. CASE Close(f) /\ file[f] \notin inUse
  <2>1. UNCHANGED <<inUse, users>> /\ file' = [file EXCEPT ![f] = Closed]
    BY <1>2 DEF Close
  <2> QED BY <1>2, <2>1 DEF TypeOK, HandlesMatchFiles
<1>3. CASE Close(f) /\ Oops
  BY <1>3 DEF Oops, slots, HandlesMatchFiles
<1>4. CASE /\ GiveBack(file[f])
           /\ file' = file \/ file' = [file EXCEPT ![f] = Closed]
  <2>1. inUse' = inUse \ {file[f]}
    BY <1>4 DEF GiveBack
  <2>2. \A v \in inUse' : \E g \in File : file'[g] = v
    BY <1>4, <2>1 DEF TypeOK, HandlesMatchFiles
  <2> QED BY <1>1, <1>4, <2>2, UsersGiveBack DEF HandlesMatchFiles
<1> QED BY <1>2, <1>3, <1>4 DEF Close, Release

\* No other step changes files, slots in use or users.
SlotsStay == UNCHANGED <<file, inUse, users>>

LEMMA SlotsOther ==
    ASSUME NEW f \in File,
           \/ \E m \in Modes \ {"inv"} : NotifySearch(f, m)
           \/ NotifySet(f) \/ DownloadFw(f) \/ StartCapture(f)
           \/ FetchFmtChange(f) \/ FlushCapture(f) \/ GetStats(f)
           \/ \E p \in BOOLEAN : PauseChannel(f, p)
    PROVE  SlotsStay
BY DEF NotifySearch, NotifySet, DownloadFw, StartCapture, FetchFmtChange,
       FlushCapture, GetStats, PauseChannel, Oops, slots, SlotsStay

LEMMA SlotsPower ==
    ASSUME Suspend \/ Resume PROVE SlotsStay
BY DEF Suspend, Resume, ResumeNoHw, ResumeStarted, ResumeNotStarted, slots,
       SlotsStay

LEMMA HandlesNext ==
    ASSUME TypeOK, HandlesMatchFiles, [Next]_vars PROVE HandlesMatchFiles'
<1>1. ASSUME SlotsStay PROVE HandlesMatchFiles'
  BY <1>1 DEF SlotsStay, HandlesMatchFiles
<1>2. CASE UNCHANGED vars
  BY <1>1, <1>2 DEF vars, slots, SlotsStay
<1>3. ASSUME NEW f \in File, FileCalls(f) PROVE HandlesMatchFiles'
  BY <1>1, <1>3, HandlesOpen, HandlesCall, SlotsOther DEF FileCalls
<1>4. CASE Suspend \/ Resume
  BY <1>1, <1>4, SlotsPower
<1> QED BY <1>2, <1>3, <1>4 DEF Next

\* No slot leaks, and the count of users never exceeds the slots in use,
\* although a file closed late gives back a slot of another file
\* (chd_dec_close) and a slot may be given back twice.
THEOREM Handles == Spec => []HandlesMatchFiles
<1>1. Init => HandlesMatchFiles
  <2>1. Cardinality({}) = 0
    BY FS_EmptySet
  <2> QED BY <2>1 DEF Init, HandlesMatchFiles
<1>2. TypeOK /\ HandlesMatchFiles /\ [Next]_vars => HandlesMatchFiles'
  BY HandlesNext
<1> QED BY <1>1, <1>2, SessionTypes, PTL DEF Spec

-----------------------------------------------------------------------------
(***************************************************************************)
(* Sessions and their hardware.                                            *)
(***************************************************************************)
LEMMA HardwareGiveBack ==
    ASSUME SessionHasHardware, NEW u, GiveBack(u) PROVE SessionHasHardware'
<1>1. CASE EndsSession(mode[u], inUse \ {u})
  BY <1>1 DEF GiveBack, Teardown, SessionHasHardware
<1>2. CASE ~EndsSession(mode[u], inUse \ {u})
  BY <1>2 DEF GiveBack, link, hardware, SessionHasHardware
<1> QED BY <1>1, <1>2

LEMMA HardwareCall ==
    ASSUME SessionHasHardware, NEW f \in File, FileCalls(f)
    PROVE  SessionHasHardware'
<1>1. CASE Open(f)
  BY <1>1 DEF Open, SessionHasHardware
<1>2. CASE Close(f)
  BY <1>2, HardwareGiveBack DEF Close, Oops, link, hardware,
                                SessionHasHardware
<1>3. CASE Release(f)
  BY <1>3, HardwareGiveBack DEF Release
<1>4. CASE NotifySet(f) \/ \E m \in Modes : NotifySearch(f, m)
  BY <1>4 DEF NotifySearch, NotifySet, link, hardware, SessionHasHardware
<1>5. CASE DownloadFw(f)
  BY <1>5 DEF DownloadFw, Oops, link, hardware, SessionHasHardware
<1>6. CASE StartCapture(f)
  BY <1>6 DEF StartCapture, Oops, link, hardware, SessionHasHardware
<1>7. CASE FetchFmtChange(f) \/ FlushCapture(f)
  BY <1>7 DEF FetchFmtChange, FlushCapture, hardware, SessionHasHardware
<1>8. ASSUME NEW p, PauseChannel(f, p) PROVE SessionHasHardware'
  BY <1>8 DEF PauseChannel, hardware, SessionHasHardware
<1>9. CASE GetStats(f)
  BY <1>9 DEF GetStats, Oops, link, hardware, SessionHasHardware
<1> QED BY <1>1, <1>2, <1>3, <1>4, <1>5, <1>6, <1>7, <1>8, <1>9
        DEF FileCalls

LEMMA HardwareNext ==
    ASSUME SessionHasHardware, [Next]_vars PROVE SessionHasHardware'
<1>1. CASE UNCHANGED vars
  BY <1>1 DEF vars, link, hardware, SessionHasHardware
<1>2. CASE Suspend
  BY <1>2 DEF Suspend, link, hardware, SessionHasHardware
<1>3. CASE Resume
  BY <1>3 DEF Resume, ResumeNoHw, ResumeStarted, ResumeNotStarted, link,
              hardware, SessionHasHardware
<1> QED BY <1>1, <1>2, <1>3, HardwareCall DEF Next

\* A link state other than INVALID, or rings, without the hardware context
\* they stand for: never, so that a handler that tests the state may use the
\* context (fetch, flush, firmware command, suspend).
THEOREM HardwareBehindState == Spec => []SessionHasHardware
<1>1. Init => SessionHasHardware
  BY DEF Init, SessionHasHardware
<1>2. SessionHasHardware /\ [Next]_vars => SessionHasHardware'
  BY HardwareNext
<1> QED BY <1>1, <1>2, PTL DEF Spec
=============================================================================
