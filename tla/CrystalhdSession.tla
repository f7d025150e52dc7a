-------------------------- MODULE CrystalhdSession --------------------------
(***************************************************************************)
(* The sessions of the crystalhd driver: files opened on the device, the   *)
(* user slots behind them, the link state of the command layer and the     *)
(* suspend and resume entries of the PCI driver (Link device).             *)
(*                                                                         *)
(* ioctls run without a lock.  The handler whose overlap matters most here *)
(* is that of NOTIFY_MODE, which searches the slots for a playback session *)
(* and then sets its own mode: these are two steps, and handlers of other  *)
(* files come in between.  Every other handler is one step, and            *)
(* allocations succeed.  A file that gave its handle back with the RELEASE *)
(* ioctl is still open, points at the same slot and may issue more ioctls, *)
(* which the driver accepts.                                               *)
(*                                                                         *)
(* A definition marked Faulty stands before the one it could be mistaken   *)
(* for; the properties are tested against it, and no action uses it.       *)
(***************************************************************************)
EXTENDS Integers, FiniteSets, FiniteSetsExt

CONSTANTS
    File,       \* files user space opens on the device
    MaxOpens,   \* BC_LINK_MAX_OPENS
    Closed      \* a file that is not open

ASSUME SessionAssumption == MaxOpens \in Nat \ {0} /\ Closed \notin Nat

Uid == 0..(MaxOpens - 1)
Modes == {"inv", "playback", "monitor"}    \* DIAG acts as PLAYBACK does here

\* Bits of ctx->state; the empty set is BC_LINK_INVALID.
Ready == {"init", "capture", "format"}     \* BC_LINK_READY
Bits == Ready \cup {"paused", "suspend", "resume"}

VARIABLES
    file,       \* uid of the slot a file points at (fd->private_data)
    inUse,      \* slots with in_use set
    mode,       \* mode of each slot
    users,      \* adp->cfg_users
    state,      \* ctx->state
    pwr,        \* ctx->pwr_state_change
    hw,         \* ctx->hw_ctx is not NULL
    rings,      \* its queues and DMA rings exist
    running,    \* the device is started
    master,     \* the PCI device is enabled as bus master
    asleep,     \* the system is suspended; processes are frozen
    oops,       \* a handler dereferenced the NULL hw_ctx
    busy,       \* mode that a file's NOTIFY_MODE, past its search, will set
    overlapped, \* history: one NOTIFY_MODE searched when another had not set
    restarted   \* history: a resume started the device of a session

slots == <<file, inUse, mode, users>>
link == <<state, pwr>>
hardware == <<hw, rings, running>>
power == <<master, asleep, restarted>>
notify == <<busy, overlapped>>
vars == <<slots, link, hardware, power, oops, notify>>

\* Loading the driver opens and closes the hardware with no user: the device
\* is left started (cfg_users is not 1).
Init ==
    /\ file = [f \in File |-> Closed] /\ inUse = {}
    /\ mode = [u \in Uid |-> "inv"] /\ users = 0
    /\ state = {} /\ pwr = "running"
    /\ hw = FALSE /\ rings = FALSE /\ running = TRUE
    /\ master = TRUE /\ asleep = FALSE /\ oops = FALSE
    /\ busy = [f \in File |-> "inv"]
    /\ overlapped = FALSE /\ restarted = FALSE

Awake == ~asleep /\ ~oops

\* File f may issue a call: it has none under way.  (Another thread of the
\* same file would act as a file that shares the slot does.)
Free(f) == Awake /\ busy[f] = "inv"

Oops == oops' = TRUE /\ UNCHANGED <<slots, link, hardware, power, notify>>
---------------------------------------------------------------------------
\* Slots.

\* crystalhd_user_open: the first slot not in use; the first user of the
\* hardware starts it.
Open(f) ==
    /\ Free(f) /\ file[f] = Closed
    /\ users < MaxOpens /\ inUse # Uid
    /\ LET u == Min(Uid \ inUse) IN
        /\ file' = [file EXCEPT ![f] = u]
        /\ inUse' = inUse \cup {u}
        /\ mode' = [mode EXCEPT ![u] = "inv"]
    /\ users' = users + 1
    /\ hw' = TRUE /\ running' = (running \/ ~hw)
    /\ pwr' = "running"
    /\ UNCHANGED <<state, rings, power, oops, notify>>

\* What a slot gives back, given the mode it had: everything, when that was
\* the playback session or no other slot is in use.
EndsSession(m, others) == m = "playback" \/ (others = {} /\ hw)

\* crystalhd_hw_stop_capture to the release of the hardware context;
\* crystalhd_hw_close stops the device for the last user only.
\* Faulty: the link state is kept.
TeardownKeepsState ==
    /\ state' = state /\ pwr' = "running"
    /\ hw' = FALSE /\ rings' = FALSE
    /\ running' = (running /\ ~(hw /\ users = 1))
Teardown ==
    /\ state' = {} /\ pwr' = "running"
    /\ hw' = FALSE /\ rings' = FALSE
    /\ running' = (running /\ ~(hw /\ users = 1))

\* The count of users, not below 0.
\* Faulty: the count is not tested.
FewerUsersUntested == users - 1
\* Faulty: the count is left as it is.
UsersKept == users
FewerUsers == IF users > 0 THEN users - 1 ELSE users

\* Slot u is given back.
GiveBack(u) ==
    /\ inUse' = inUse \ {u} /\ mode' = [mode EXCEPT ![u] = "inv"]
    /\ users' = FewerUsers
    /\ IF EndsSession(mode[u], inUse \ {u})
       THEN Teardown
       ELSE UNCHANGED <<link, hardware>>

\* chd_dec_close: looks at the slot the file points at, whoever has it now.
\* A playback slot expects the hardware context.
Close(f) ==
    LET u == file[f] IN
    /\ Free(f) /\ u # Closed
    /\ IF u \notin inUse
       THEN /\ file' = [file EXCEPT ![f] = Closed]
            /\ UNCHANGED <<inUse, mode, users, link, hardware, power, oops,
                           notify>>
       ELSE IF mode[u] = "playback" /\ ~hw
       THEN Oops
       ELSE /\ file' = [file EXCEPT ![f] = Closed]
            /\ GiveBack(u)
            /\ UNCHANGED <<power, oops, notify>>
---------------------------------------------------------------------------
\* ioctls.

\* The slot whose file f issues an ioctl; all but GET_DRV_STAT are refused
\* while the link is suspended, and some to monitors.
Served(f) == Free(f) /\ file[f] # Closed /\ "suspend" \notin state
NotMonitor(f) == Served(f) /\ mode[file[f]] # "monitor"

\* bc_cproc_release_user
Release(f) ==
    /\ Served(f) /\ mode[file[f]] # "inv"
    /\ GiveBack(file[f])
    /\ UNCHANGED <<file, power, oops, notify>>

\* bc_cproc_notify_mode up to the end of its search for a playback session.
\* The test for a monitor is never true (Mode && 0xFF is 0 or 1), so a
\* monitor passes the tests of a playback session.
\* Faulty: slots that have a mode are not searched for a playback session.
NotifySearchAny(f, m) ==
    /\ Served(f) /\ mode[file[f]] = "inv"
    /\ state = {}
    /\ busy' = [busy EXCEPT ![f] = m]
    /\ overlapped' = (overlapped \/ \E g \in File : busy[g] # "inv")
    /\ UNCHANGED <<slots, link, hardware, power, oops>>
NotifySearch(f, m) ==
    /\ Served(f) /\ mode[file[f]] = "inv"
    /\ state = {} /\ \A u \in Uid : mode[u] # "playback"
    /\ busy' = [busy EXCEPT ![f] = m]
    /\ overlapped' = (overlapped \/ \E g \in File : busy[g] # "inv")
    /\ UNCHANGED <<slots, link, hardware, power, oops>>

\* The rest of it: the mode is set, and the rings are made unless the
\* hardware context has gone meanwhile.
NotifySet(f) ==
    /\ Awake /\ busy[f] # "inv"
    /\ mode' = [mode EXCEPT ![file[f]] = busy[f]]
    /\ rings' = (rings \/ hw)
    /\ busy' = [busy EXCEPT ![f] = "inv"]
    /\ UNCHANGED <<file, inUse, users, link, hw, running, power, oops,
                   overlapped>>

\* bc_cproc_download_fw: the firmware is loaded, or loading fails.
DownloadFw(f) ==
    /\ NotMonitor(f)
    /\ state = {} \/ state = {"resume"}
    /\ IF ~hw
       THEN Oops
       ELSE /\ state' \in {state, state \cup {"init"}}
            /\ pwr' = "running"
            /\ UNCHANGED <<slots, hardware, power, oops, notify>>

\* bc_cproc_start_capture
StartCapture(f) ==
    /\ NotMonitor(f)
    /\ IF ~hw
       THEN Oops
       ELSE /\ state' = state \cup {"capture"}
            /\ UNCHANGED <<slots, pwr, hardware, power, oops, notify>>

\* bc_cproc_fetch_frame of a format change, found in the ready queue of the
\* rings: capture goes on from here.
FetchFmtChange(f) ==
    /\ NotMonitor(f) /\ "capture" \in state /\ rings
    /\ state' = state \cup {"format"}
    /\ UNCHANGED <<slots, pwr, hardware, power, oops, notify>>

\* bc_cproc_flush_cap_buffs, not a mere discard
FlushCapture(f) ==
    /\ NotMonitor(f) /\ "capture" \in state
    /\ state' = state \ {"capture", "format"}
    /\ UNCHANGED <<slots, pwr, hardware, power, oops, notify>>

\* bc_cproc_do_fw_cmd of a channel pause (p) or of its end
PauseChannel(f, p) ==
    /\ NotMonitor(f) /\ "init" \in state
    /\ state' = IF p THEN state \cup {"paused"} ELSE state \ {"paused"}
    /\ UNCHANGED <<slots, pwr, hardware, power, oops, notify>>

\* bc_cproc_get_stats, served in every state, uses the hardware context.
GetStats(f) == Free(f) /\ file[f] # Closed /\ ~hw /\ Oops
---------------------------------------------------------------------------
\* Power management.

\* bc_cproc_mark_pwr_state
Marked(s) ==
    IF \E u \in inUse : mode[u] = "playback" THEN s ELSE pwr

\* chd_dec_pci_suspend and crystalhd_suspend.  crystalhd_link_stop_device
\* reports no failure that its caller would see.  Processes are frozen
\* outside their handlers.
Suspend ==
    /\ Awake /\ \A f \in File : busy[f] = "inv"
    /\ IF state = {} \/ "suspend" \in state
       THEN UNCHANGED <<link, hardware>>
       ELSE /\ state' = {"suspend"} /\ pwr' = Marked("suspend")
            /\ running' = FALSE
            /\ UNCHANGED <<hw, rings>>
    /\ master' = FALSE /\ asleep' = TRUE
    /\ UNCHANGED <<slots, oops, notify, restarted>>

\* chd_dec_pci_resume and crystalhd_resume.  crystalhd_hw_resume takes the
\* true that pfnStartDevice returns for a device it started as its failure,
\* and the device is disabled again.
ResumeNoHw ==
    /\ asleep /\ ~oops /\ ~hw
    /\ asleep' = FALSE /\ master' = FALSE
    /\ UNCHANGED <<slots, link, hardware, oops, notify, restarted>>
ResumeStarted ==
    /\ asleep /\ ~oops /\ hw
    /\ running' = TRUE
    /\ asleep' = FALSE /\ master' = FALSE
    /\ restarted' = (restarted \/ "suspend" \in state)
    /\ UNCHANGED <<slots, link, hw, rings, oops, notify>>
ResumeNotStarted ==
    /\ asleep /\ ~oops /\ hw
    /\ running' = FALSE
    /\ state' = {"resume"} /\ pwr' = Marked("resume")
    /\ asleep' = FALSE /\ master' = TRUE
    /\ UNCHANGED <<slots, hw, rings, oops, notify, restarted>>
Resume == ResumeNoHw \/ ResumeStarted \/ ResumeNotStarted

FileCalls(f) ==
    \/ Open(f)
    \/ Close(f)
    \/ Release(f)
    \/ \E m \in Modes \ {"inv"} : NotifySearch(f, m)
    \/ NotifySet(f)
    \/ DownloadFw(f)
    \/ StartCapture(f)
    \/ FetchFmtChange(f)
    \/ FlushCapture(f)
    \/ \E p \in BOOLEAN : PauseChannel(f, p)
    \/ GetStats(f)

Next == (\E f \in File : FileCalls(f)) \/ Suspend \/ Resume

Spec == Init /\ [][Next]_vars
---------------------------------------------------------------------------
\* Variables have their types (of the code's fields and of the place of the
\* device).
TypeOK ==
    /\ file \in [File -> Uid \cup {Closed}]
    /\ inUse \subseteq Uid /\ mode \in [Uid -> Modes]
    /\ users \in 0..MaxOpens
    /\ state \subseteq Bits
    /\ pwr \in {"running", "suspend", "resume"}
    /\ {hw, rings, running, master, asleep, oops} \subseteq BOOLEAN
    /\ busy \in [File -> Modes] /\ {overlapped, restarted} \subseteq BOOLEAN
    /\ \A f \in File : busy[f] # "inv" => file[f] # Closed

\* "Multiple playback sessions are not supported" (bc_cproc_notify_mode):
\* whatever handles were given back, closed late or used after they were
\* given back, two slots are playback sessions at once only after one
\* NOTIFY_MODE searched the slots while another was between its search and
\* the setting of its mode, which the driver does not prevent.
OnePlayback ==
    overlapped \/ \A u, v \in Uid :
        mode[u] = "playback" /\ mode[v] = "playback" => u = v

\* A slot in use belongs to an open file, although a file that is closed
\* late closes the slot's next user (chd_dec_close), and the count of users
\* that decides on opening and on stopping the device never exceeds the
\* slots in use: no slot leaks and the device is not refused for ever.
HandlesMatchFiles ==
    /\ users <= Cardinality(inUse)
    /\ \A u \in inUse : \E f \in File : file[f] = u

\* A link state other than INVALID, and the rings, exist only with the
\* hardware context: the handlers that test the state before they use the
\* context (fetch, flush, firmware command, suspend) rely on it.
SessionHasHardware == (state # {} \/ rings) => hw

\* To get back to the state before a suspend the application opens the
\* device again and starts a new session (comment of crystalhd_resume): once
\* a session whose device was started by the resume is replaced by one that
\* has loaded its firmware, started its capture and got its first picture
\* format, the device must be able to write to memory.
NewSessionAfterResume ==
    restarted /\ Ready \subseteq state /\ ~asleep => master
=============================================================================
