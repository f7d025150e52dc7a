# A verification project for the WeTab device tree

This directory holds TLA+ models of code in this repository, the TLC
configurations that check them, and proofs checked by TLAPS. The repository is
the Android (ICS) device tree of the WeTab: next to configuration files and
overlays it carries a number of native programs, the largest being the kernel
driver of the Broadcom Crystal HD video decoder, its user library, and a RIL
for Huawei modems. Paths below are relative to `src/`.

1. [Inventory](#1-inventory)
2. [The modules](#2-the-modules)
3. [The runs](#3-the-runs)
4. [Where code and text disagree](#4-where-code-and-text-disagree)
5. [The proofs](#5-the-proofs)
6. [Assumptions and limits](#6-assumptions-and-limits)
7. [Not modelled](#7-not-modelled)
8. [Plan](#8-plan)

How to run things, in this directory:

    tlc -workers 2 -config RxCapture.cfg MCCrystalhdRx
    tlapm CrystalhdRxProofs.tla


## 1. Inventory

### The Crystal HD driver, `kernel_mods/crystalhd/`

An application decodes a video by writing compressed data to the device
(transmit), and by handing page buffers to the driver that the device fills
with decoded pictures (receive). All of it goes through ioctls. The driver
registers `unlocked_ioctl` and takes no lock around a handler
(`crystalhd_lnx.c:282`), so handlers run concurrently with each other and with
the interrupt handler.

| Component | State | Operations | Hard | Correct when |
|---|---|---|---|---|
| DIO queues (`crystalhd_misc.c`) | a doubly linked list, a count, a spin lock, an event | add, fetch, find and fetch by tag, fetch with a wait | the waiting fetch reads the count, sleeps, takes a semaphore and fetches; any other consumer may come in between | an element is in one place; a waiter finds what is there |
| Receive path, Link (`crystalhd_linkfuncs.c`, `crystalhd_hw.c`, `crystalhd_cmds.c`) | packets; free, active and ready queues; two hardware lists with one status word each; list to post next; pending stop; numbers of the last two pictures | add buffer, fetch, peek, start, flush, discard, pause, resume, interrupt | five kinds of contexts move packets with the locks dropped between looking and acting; planes end and fail separately; stops time out | no packet is lost or duplicated; list status, active queue and engine agree; pictures arrive in order; capture goes on |
| Transmit path, Link (same files) | two packets, free and active queue, list to post next, the request and its event | post, wait, interrupt, cancel, stop | a wait that times out or is signalled while the handler is about to write to its request | a request is completed once, by its own transfer, never after its release; the device has room for what is posted |
| Sessions (`crystalhd_lnx.c`, `crystalhd_cmds.c`, `crystalhd_hw.c`) | user slots and modes, number of users, link state, hardware context | open, mode, release, close, firmware, capture, pause, suspend, resume | legal calls of several files in any order, two NOTIFY_MODE at once; suspend in the middle | one playback session; state, rings and hardware context agree; no slot leaks |
| Firmware commands (`crystalhd_linkfuncs.c` 1903-1992) | status, event, mailbox | command, response interrupt | a response later than the timeout | a command gets its own response |
| PIB queues (`crystalhd_linkfuncs.c` 1078-1263) | two rings in device memory | count, take, give back | both sides move offsets while the other reads them; the wrap to offset 2 | blocks are seen once, in order, and go back |
| Flea device (`crystalhd_fleafuncs.c`, `crystalhd_flea_ddr.c`) | power states, a picture queue, a two-step pause | the same operations for the BCM70015 | pause waits for the engine | as for Link |
| Direct I/O and pools (`crystalhd_misc.c`) | pinned pages, free lists | map, unmap | - | nothing is used after it was unmapped |

Interaction: the interrupt handler is the one meeting point. It serves format
changes and responses from the firmware, transmit completions, and receive
completions; it wakes the ioctls that wait. Ioctls of several threads meet in the
queues, the list status and the link state.

### Other programs

| Component | State | Operations | Hard | Correct when |
|---|---|---|---|---|
| libcrystalhd transmit buffer (`libcrystalhd_priv.cpp`) | circular buffer, two pointers, two counts, two locks | push, pop, flush, resume, close; a transmit thread | push and pop run without a common lock; a flush between the choice of a size and the pop, or in the middle of a push | bytes reach the device in order, once; the device can be closed |
| libcrystalhd, the rest | receive lists, shared-memory counters | ioctl wrappers, start-code parser | process death | - |
| RIL AT channel (`huawei-generic/atchannel.c`) | tty, reader threads, pending command and its response, wake-up pipe | open, close, handshake, command, line | reader, commander and timeout race; readers outlive their channel | a final response ends its own command |
| RIL requests (`huaweigeneric-ril.c`, `requestdatahandler.c`) | queues of requests and events, radio state, messages held for an acknowledgement | request, queue runner, poll of the SIM, unsolicited messages | a channel that fails in the middle of any of it; requests refused for the radio state | each request is completed; messages are reported one by one, the next when the last is acknowledged |
| RIL SMS and FCP (`sms*.c`, `gsm.c`, `fcp_parser.c`) | none | encode, decode | boundaries | decoding inverts encoding |
| RIL voice channel (`audiochannel.cpp`) | two threads, a quit flag | start, stop | stop while copying | both threads end |
| GPS HAL (`libgps/gps_huawei.c`) | state thread, control socket, started flag | init, start, stop, cleanup | commands during a read | commands take effect in order |
| Audio HAL (`libaudio/audio_hw.c`) | streams, standby, active output | open, write, read, standby, routing | lock order between device and streams | no stream uses a closed device |
| Sensor HAL (`libsensors/kbdsensor.cpp`) | one enabled flag | activate, poll | - | - |
| Bluetooth USB (`btusb.c`, `ath3k.c`) | URB anchors, in-flight counter, suspend count | open, send, suspend, resume, disconnect | completion against suspend | no URB after suspend |
| Touch screen (`hid-multitouch.c`) | slots of the current report | one field, one report | contact counts over several reports | slots match contacts |
| ASUS laptop, wakeup button, suspend | flags | attribute stores, key events | - | - |
| Device configuration, register headers | - | - | data only | - |


## 2. The modules

| Module | Models | Uses | Promise (abstract specification) |
|---|---|---|---|
| `DioQueue` | operators for the driver's queue | - | - |
| `CrystalhdRx` | receive path, interrupt handler, RX engine | `DioQueue` | `PictureFifo` |
| `CrystalhdTx` | transmit path, interrupt handler, TX engine, input buffer | `DioQueue` | - |
| `CrystalhdFirmware` | PIB rings, firmware commands, interrupt handler, firmware | - | `PibExchange` |
| `CrystalhdSession` | files, slots, link state, suspend and resume | - | - |
| `LibTxBuffer` | library's transmit buffer with its two threads | - | `ByteFifo` |
| `RilChannel` | AT channel, reader threads, queue runner, short messages | - | - |
| `MC...` | sets and symmetries for the configurations | one module each | - |
| `DioQueueProofs`, `...Proofs` | the theorems of section 5 | `DioQueue`, one module each | - |

The driver's four modules are cut along its data: the receive, transmit and
firmware parts share no variable but the interrupt line (the handler runs them
one after the other and none reads what another writes), and the link state that
`CrystalhdSession` describes stays READY while the other three run, but for the
capture, format and paused bits, which `CrystalhdRx` has itself. Device, firmware,
modem and framework are environment: what they do is modelled from how the code
uses them, and marked external in the map.

Steps are cut where another context can see a difference: a spin-lock or mutex
section, a queue operation, a read or write of a shared field outside any lock. A
wait is a place where a context stays until its condition holds or its timeout or
a signal ends it; timeouts may happen at any time unless stated otherwise. Code
that nobody else can observe is part of its neighbour.

In every module, definitions marked `Faulty` are variants with a plausible mistake
(an index that is not wrapped, the status of the other list, a reset that is
missing). No action uses them; they document what each property is able to detect.

**`CrystalhdRx`.** A packet is a model value.

| Variable | Code |
|---|---|
| `pool`, `freeq`, `rdyq`, `actq` | `rx_pkt_pool_head`, `rx_freeq`, `rx_rdyq`, `rx_actq` |
| `tag`, `flags` | `pkt_tag`, and the part of `flags` that tells data from a format change |
| `sts`, `postIndex`, `stopPending` | `rx_list_sts` as the set of its bits, `rx_list_post_index`, `stop_pending` |
| `state` | `ctx->state` without INIT: `cap`, `fmt`, `paused` |
| `lastPic`, `lastTwoPic`, `sem` | `LastPicNo`, `LastTwoPicNo`, the holder of `fetch_sem` |
| `pc`, `pkt`, `look`, `polled`, `isr` | places and locals of the contexts |
| `run`, `valid`, `target`, `errsts`, `intr`, `pibs`, `deco`, `picture` | the device: start bit, valid bits and packet of each list, error and interrupt status, announced formats, contents of the buffers |
| `lost`, `announced`, `hwPic` | leaked packets, number of announcements, last decoded picture |

Contexts are threads grouped by what they call: `Adders`
(`bc_cproc_add_cap_buff`), `Fetchers` (`bc_cproc_fetch_frame`), `Peekers`
(`bc_cproc_get_stats`), `Controllers` (start, flush, discard, pause, resume) and
the interrupt handler `Isr`. A fetch is `FetchBegin`, `FetchLook` (the count),
`FetchWake`, `FetchTake` (semaphore and queue), `FetchDrop` or `FetchKeep` (the
repeat test), `Deliver`; the interrupt handler is `IsrEnter`, `IsrPib`..., `IsrRx`,
`IsrList(0)`, `IsrDone`, `IsrReady`, `IsrList(1)`, ..., `IsrTail`, `IsrAck`.
`crystalhd_hw_start_capture` and the posting of a packet are shared by all callers
(`Capture`). The device is `HwComplete`, `HwHalt` and `HwPib`.

**`CrystalhdTx`.** `freeq`, `actq`, `tag`, `dioReq` and `cbEvent` are `tx_freeq`,
`tx_actq` and the fields of `tx_dma_pkt`; the tag is the list index a packet was
posted with, its seed left out. `dios` are the free direct I/O requests and `evSts`
their `ev_sts` with `comp_sts`. A writer goes through the loop of
`bc_cproc_proc_input`: room, packet, lock and post (`PostStep`), the wait
(`WaitStep`, `WaitSignal`), then success or stop and cancellation (`Stop`,
`CancelStep`), and `Unmap`. The interrupt handler looks for finished lists, finds
the packet by tag, calls the completion, and returns the packet (`IsrStep`); an
error also resets the index. `crystalhd_hw_tx_req_complete` is run by handler and
canceller alike, in the same steps. The device (`HwStep`) reads the lists in
posting order, raises an interrupt for each, and drains its input buffer. `Flush`
sets `cin_wait_exit`. `taken` (requests whose data the device read) and `disturbed`
are history variables, read by the properties only.

**`CrystalhdFirmware`.** Both rings with their offsets, which start at
`MIN_PIB_Q_DEPTH`; the decoder status register with its two bits; the handler
(`IsrStep`), cut at each access of an offset; one thread of commands (`CmdStep`);
the decoder and its firmware (`FwStep`), which deliver blocks, take them back,
answer commands late or never. The acknowledgement writes the status the handler
read and then 0: it may clear what came in between or not. `clean` is history: no
earlier command was open when the command began.

**`CrystalhdSession`.** `file` is the slot a file points at, which stays there after
the RELEASE ioctl; `inUse`, `mode`, `users` are the table and `cfg_users`; `state`
the set of bits of the link state; `hw`, `rings` the hardware context and its
queues; `running`, `master` the device and its PCI function. An action is a whole
handler, but for NOTIFY_MODE: its search for a playback session (`NotifySearch`) and
the setting of its mode (`NotifySet`) are two steps, with the calls of other files in
between; `busy` holds the mode to be set. `oops` is the state after a handler used the
freed context, which sequences of legal calls reach; nothing follows it. `overlapped`
(two NOTIFY_MODE were between their steps at once) and `restarted` (a resume started
the device of a session) are history.

**`LibTxBuffer`.** The fields of the buffer by their names; the application as one
thread that sends, flushes and closes; `txThreadProc` in steps: status, resume with its
flush and the end of the stream it may push, compare, the second read of `busySize`,
pop (lock, copy, count, unlock), send. A push is one machine for both threads (`push`,
`want`, `pushed`): copy, count, and both again after the wrap. A copy up to the end of
the buffer is one step, and so is the update of the two counts under `pushpopLock`.
A flush by one thread may come in the middle of a push by the other, and everything that
follows is in the model; when a push meets a push the model stops (`Collide`). `torn`
records both. Bytes are numbered in the order of the pushes.

**`RilChannel`.** The channel's fields (`fd`, `readerClosed`, `response`, the pipe
`kicks`), one reader thread per opening, the queue runner with its opening,
handshake, initialisation and request loop, `s_outstanding_acknowledge` and the held
messages. `radio` is `sState`: a closed channel and a timeout make it UNAVAILABLE, the
opening OFF (which stands for SIM_NOT_READY and SIM_LOCKED_OR_ABSENT too), and the poll of
the SIM ready. `processRequest` sends a request on (`Pass`) or completes it with an error
at once (`Refuse`); an acknowledgement that is refused leaves the flag and the held messages
as they are, and `refused` records it. `Sms` stands for messages, status reports and
broadcasts, which share flag and list; while the radio is unavailable they are ignored
(`IgnoreSms`). The modem answers the commands it was sent, in order, and reports messages;
the framework asks and acknowledges; a hang-up or a late answer is a failure, of which
`MaxFailures` happen.


## 3. The runs

"Ends" are the ways a transfer may end: `under` (a picture), `fifo` (FIFO full),
`abort` (descriptor aborted).

| Run | Instance | Properties | Shows |
|---|---|---|---|
| `rx_capture` | 2 packets, two planes, an adder, a controller that pauses and resumes; `under`, `fifo` | `TypeOK`, `PacketOwnership`, `ActiveMatchesLists`, `EngineWritesActive`, `FreeListsIdle`, `FailedListsWait` | capture whose transfers end and fail plane by plane, with pauses in between, keeps packets, queues, list status and engine consistent; a list is freed exactly once |
| `rx_control` | 1 packet, an adder, a fetcher, a peeker, a controller with start, flush, discard; failing translations; prompt interrupts | `PacketOwnership`, `SemHeldInside` | consumers and flushes in the middle of everything else; a packet leaves circulation only by the leak of a failed translation |
| `rx_order` | 2 packets, an adder, a fetcher, one format change; fair; fresh pictures; prompt interrupts | `FrameOrder`, `ImplementsFifo`, `CaptureGoesOn`, `PicturesFetched` | the path from the engine to the application is a FIFO of pictures that never stops |
| `tx_input` | 2 writers, packets and requests; room for 3 transfers; errors, timeouts, signals, flushes | `TypeOK`, `TxOwnership`, `TrueCompletion`, `EngineReadsMapped`, `InputFits` | completions and wake-ups reach their own request, until a post meets what a reset of the list index left behind or a cancellation misses its request |
| `firmware` | 2 blocks, rings of 3 entries | `TypeOK`, `ReleaseHasRoom`, `OwnResponse`, `ImplementsExchange` | the rings are an exchange of blocks at every wrap; a command gets its own response if no older one can still be answered |
| `session` | 4 files, 2 slots | `TypeOK`, `OnePlayback`, `HandlesMatchFiles`, `SessionHasHardware` | whatever files do after they gave their handle back, no slot leaks, link state and rings exist only with the hardware context, and there is one playback session unless two NOTIFY_MODE overlapped |
| `libtx` | a buffer of 3 bytes; fair | `TypeOK`, `ImplementsFifo`, `CloseReturns` | push, pop and flush are a FIFO of bytes that only a flush shortens, until a flush or a push meets a push of the other thread; closing returns, then too, unless a pop kept the lock |
| `ril` | 2 short messages, 1 other request, 2 openings, 1 failure, 1 handshake; fair | `TypeOK`, `OwnResponse`, `OneUnacknowledged`, `RequestsCompleted`, `HeldReported` | through a failing and reopened channel each request is completed, by its own answer unless one was given up; messages are reported one by one, until an acknowledgement is refused for the radio state |
| `rx_null_fetch`, `session_resume`, `ril_reader`, `libtx_flush` | | one each | section 4 |

**Bounds, and why they are enough.** *Receive*: two packets suffice for both lists
to be busy, for one to be posted while the other completes, and for queues to be
empty. `rx_control` has one packet, with four threads: each pair of handlers meets
over it, and every queue is seen empty and full; pairs of lists are the subject of
the other runs. `PicMod` bounds the picture numbers: 3 is the smallest value for
which fresh pictures are not taken for one of the last two. `MaxPib` bounds the
format changes. *Transmit*: two packets and two lists are what the driver has; two
writers give every pair of completion and cancellation; a buffer of 3 with a
threshold of 2 has room for one transfer, for two, and for none. *Firmware*: a ring
with one entry more than blocks, so that it wraps in every alignment, with offsets
that start above 0 as in the code. *Session*: two slots, so that two sessions can meet,
and four files, so that two hold the slots while two more still point at them. *Library*: three bytes,
so that a push or pop wraps in its middle; `Numbers` tells more bytes apart than fit
in buffer and transfer. *RIL*: two openings allow a reader of the first channel to
meet the second; two messages allow one to be held. One failure is a hang-up or a late
answer; with it the radio becomes unavailable while an acknowledgement is queued.

`MaxPlain`, `MaxFailures`, `MaxOpens`, `MaxPib` and `PicMod` are the only bounds on
quantities that the code does not bound. `AtBound` in `RilChannel` is the state in
which the runner wants to open the channel once more than allowed; liveness there
is claimed up to it.

**Symmetry** is used for packets, requests, writers, blocks and files, which are
interchangeable in the initial states and in every definition, and only in runs
without liveness (in `firmware`, `ImplementsExchange` is checked as a safety property:
`PibExchange` has no fairness and treats blocks alike).

**The constraint of `tx_input`.** `Undisturbed` stops the exploration at the first
state in which `disturbed` holds. Each of its properties but `TypeOK` and `TxOwnership`
says nothing beyond that state, because the code does not keep them there (section 4).

**Stopping.** `CHECK_DEADLOCK FALSE` is in `rx_control` (a fetch that faults keeps
`fetch_sem`), in `session` and `session_resume` (an oops), in `libtx` and `libtx_flush`
(the device is closed, the lock is kept, or two pushes met), in `ril` and `ril_reader` (requests,
messages and openings are used up).

**Fairness**, weak but in `libtx_flush`. *Receive*: the interrupt handler is scheduled, and so
is an ioctl that was begun; the application keeps fetching and keeps adding buffers,
which is its contract with the driver; transfers that were started end. Nothing is
assumed of signals, which are off in the fair run: an application that is always
interrupted makes no progress. *Library*: both threads are scheduled, in the
middle of a push too; which calls the application makes is left to it. *RIL*: the queue runner and the readers are
scheduled, a connected modem answers (a late answer is a failure), and the framework
acknowledges the messages it gets, as `RIL_UNSOL_RESPONSE_NEW_SMS` requires.
"Each completion serviced before the next" (`PromptIsr`) is used where the order of two
simultaneous completions, which the driver cannot know, would decide the property
(`rx_order`), and to keep `rx_control` small. `libtx_flush` alone has strong fairness, of
the flush: it gets `flushLock` if the lock is free again and again. What the run shows is
that it may not be.


## 4. Where code and text disagree

Each of these four is a run whose property TLC refutes.

* `rx_null_fetch`: `crystalhd_dioq_fetch_wait` sees a packet, then waits for
  `fetch_sem`; a peek that drops a repeated picture, or a flush, empties the queue;
  the NULL result is dereferenced, after "Found a packet" (`crystalhd_misc.c:501`).
* `session_resume`: "App will re-open the device and start a new playback session"
  (`crystalhd_cmds.c:1012`). `crystalhd_hw_resume` takes the true of
  `crystalhd_link_start_device` for a failure (`crystalhd_hw.c:1050`), so a resume that
  started the device of a session disables the PCI device again and leaves the state
  SUSPEND. The application closes its file, which tears the old session down, opens the
  device, sets its mode, loads the firmware and starts capture, every call successful,
  on a device that cannot be a bus master.
* `ril_reader`: `readline` "Assumes it has exclusive read access to the FD"
  (`atchannel.c:444`). One byte in a shared pipe wakes the readers of a closed
  channel, and a reader that is leaving or the next reader may drain it; the old reader
  stays in its loop and polls the new channel's tty.
* `libtx_flush`: `DtsFlushInput` flushes the channel (`libcrystalhd_if.h:1003`). When a
  flush comes between the transmit thread's reading of `busySize` and the pop,
  `txBufPop` returns with `flushLock` held, and the next flush never returns.

Others were met while modelling and show up as conditions of properties, not as runs:

* "Return element from head if Q is not empty" (`crystalhd_misc.c:471`): after one
  sleep in vain `rc` stays `-EBUSY`, and a packet that arrives then is seen and not
  fetched until the timeout. The model does the same; `PicturesFetched` holds because
  the application fetches again.
* "Disable capture after decoder pause" (`crystalhd_cmds.c:340`): a buffer added with
  the state read before the pause is posted after it, and the engine runs while paused.
* "just flush without unmapping and then resume" (`crystalhd_cmds.c:722`): the stop
  clears the waiting bit of a list in error that waits for its other plane, and the
  list answers BUSY from then on. `FailedListsWait` is claimed without flushes only.
* Transmit: a reset of `tx_list_post_index` by an error or a stop makes the next post
  reuse the tag of a request that is still active; from then on a completion or a
  cancellation may reach the other request. A writer that times out while the handler
  already holds its packet finds nothing to cancel, is told that the cancellation
  succeeded, and gives its request back before the handler writes to it
  (`crystalhd_hw.c:415`). A stop that gives up leaves the engine reading pages that
  are unmapped next. These are what `disturbed` records.
* A firmware response, or an AT answer, that comes after its command timed out is taken
  by the next command. `clean` and `abandoned` record it.
* `at_handshake` returns a positive error, and `initializeCommon` tests for a negative
  one (`huaweigeneric-ril.c:6068`): a failed handshake goes unnoticed, and commands run
  into their timeouts.
* `Mode && 0xFF` (`crystalhd_cmds.c:88`) makes every mode a playback mode for the search
  of other sessions: a monitor is refused beside a playback session.
* "multiple playback sessions are not supported" (`crystalhd_cmds.c:102`): two files whose
  NOTIFY_MODE search the slots before either has set its mode are both playback sessions,
  since ioctls run without a lock. `OnePlayback` excuses these (`overlapped`).
* A file that is closed after its slot was given back and taken by another file tears down
  the other file's session (`crystalhd_lnx.c:364-396`). The model has it (`Close`); no
  property claims that it does not happen.
* `processRequest` completes an acknowledgement with an error while the radio is
  unavailable, off or without its SIM (`huaweigeneric-ril.c:5531-5572`), without reaching
  the end of `requestSMSAcknowledge`: `s_outstanding_acknowledge` stays set, the held messages
  and all that follow are never reported. A channel that fails or is opened again
  while an acknowledgement is queued does this. `refused` records it;
  `OneUnacknowledged` says what holds before and after, `HeldReported` only what holds
  without it.
* "Flush of this buffer always happens from the same thread that does procinput"
  (`libcrystalhd_priv.cpp:2358` and `2457`): the flush of a resume runs in the transmit
  thread, and may come in the middle of a push. The bytes copied and not yet counted are
  then lost or sent out of place. The run `libtx` has this; `ImplementsFifo` is claimed until it
  happens (`torn`), `TypeOK` and `CloseReturns` afterwards too.
* "in case we were already in the mode to be hunting for EOS and did not send it to HW,
  resend it" (`libcrystalhd_priv.cpp:2603`): `DtsOpenDecoder`, called a few lines before, has
  cleared `bEOSCheck`, so the end of the stream is not sent again unless the application
  asks for it in between; then both threads may push at once.


## 5. The proofs

TLC shows a property on an instance, a theorem shows it for every value of the
constants that satisfies the module's assumption, so for any number of packets,
threads, writers, requests, files, slots, blocks, messages or bytes. The
assumptions are those at the head of the modules. What they ask beyond types
(constants that stand for "none" are no elements, sets that are counted are
finite):

| Assumption | Asks | Because |
|---|---|---|
| `RxAssumption` | nothing more | both plane modes, all commands, endings, failures and signals are covered, with `SlowStop` and `PromptIsr` on or off |
| `TxAssumption` | nothing more | any sizes and threshold; any number of packets, although there are two lists |
| `FirmwareAssumption` | fewer blocks than ring entries | "should never happen" on a full ring (section 6) |
| `SessionAssumption` | nothing more | |
| `LibTxAssumption` | byte numbers tell more bytes apart than two buffers hold | numbers stand for an unbounded stream |
| `RilAssumption` | no message looks like a command's answer | the reader tells both apart by their text |

The theorems, by module; each states a property that a run checks as well.

| Theorem | States | Under |
|---|---|---|
| **`CrystalhdRxProofs`** | | |
| `TypeCorrect`, `Ownership` | `TypeOK`, `PacketOwnership` | |
| `SemaphoreHeld` | `SemHeldInside` | |
| `FreeLists`, `FailedLists` | `FreeListsIdle`, `FailedListsWait` | `NoFlush` |
| `ActiveQueue`, `EngineWrites` | `ActiveMatchesLists`, `EngineWritesActive` | `NoFlush` |
| **`CrystalhdRxOrderProofs`** | | |
| `PicturesInOrder` | `FrameOrder` | `Orderly` |
| `PathIsFifo` | the path refines `PictureFifo` | `Orderly`, `PicMod >= 3` |
| **`CrystalhdTxProofs`** | | |
| `TxTypes`, `TxPacketOwnership` | `TypeOK`, `TxOwnership` | |
| `SuccessIsTrue`, `EngineReadsWaiting` | `TrueCompletion`, `EngineReadsMapped` | |
| `InputBufferFits` | `InputFits` | `RoomForOthers` |
| **`CrystalhdFirmwareProofs`** | | |
| `FirmwareTypes`, `ReleaseNeverFull`, `CommandGetsResponse` | `TypeOK`, `ReleaseHasRoom`, `OwnResponse` | |
| `RingsExchange` | the rings refine `PibExchange` | |
| **`CrystalhdSessionProofs`** | | |
| `SessionTypes`, `OneSession`, `Handles`, `HardwareBehindState` | `TypeOK`, `OnePlayback`, `HandlesMatchFiles`, `SessionHasHardware` | |
| **`LibTxBufferProofs`** | | |
| `BufferTypes` | `TypeOK` | |
| `BufferIsFifo` | the buffer refines `ByteFifo` until `torn` | |
| **`RilChannelProofs`** | | |
| `ChannelTypes`, `CommandsAnswered`, `OneMessageAtATime` | `TypeOK`, `OwnResponse`, `OneUnacknowledged` | |

The last column names what a theorem assumes besides:

* `NoFlush`: `flush` and `discard` are not among the commands. With them
  `FreeListsIdle`, on which the other three rest, fails (an instance with a fetcher and
  format changes shows it): a stop clears the waiting bit of a list whose completion
  the handler has noticed but not yet handled, another thread posts to that list, and
  the handler takes the old status for the new transfer.
* `Orderly`: of the commands only `start`; every transfer ends well, every picture is a
  new one, an interrupt is serviced before the next transfer ends (`PromptIsr`), and there
  are no more packets than picture numbers. `FrameOrder` and `ImplementsFifo` are claimed,
  and `rx_order` checks them, under these conditions; here with any number of packets and threads, threads that
  peek, one plane or two, failing mappings and signals. A failed transfer or
  a pause leaves a gap; two pictures captured before the interrupt is serviced are
  taken list 0 first, whichever ended first.
* `PicMod >= 3`: the repeat test compares with the last two numbers, and needs a third to
  let anything pass. The device counts in a 32-bit word.
* `RoomForOthers`: the threshold of free space that a post asks for is more than one
  transfer of each of the *other* writers. Every writer may have found its room before
  the others' transfers arrive, so with a smaller threshold the buffer can be
  overrun. One writer, as the library has with its transmit thread, fulfils it with any
  threshold above 0; two writers do with transfers below the 64 KB of
  `BC_INFIFO_THRESHOLD`.

`DioQueueProofs` holds what adding, fetching and removing at a position do to
the set of a queue's items and to the absence of repetitions; receive and
transmit proofs both rest on it.

### Receive path

**Type correctness.** `TypeOK` is not inductive. A step that queues the packet a
context holds needs to know that there is one, and `pibs - 1` needs a block to
be there. `TypeInv` adds `HoldersHold` (a context holds a packet exactly at the
places of its code where the variable is live) and `BlocksQueued`
(`isr.cnt <= pibs <= announced`: only the handler takes blocks). The proof goes
through the state in groups: packets, the driver's fields, what contexts hold,
their other locals, the device, flags; a step leaves most groups alone.

**Ownership.** `OwnInv` is `TypeInv` with `PacketOwnership`. A packet is in one of
six places: pool, lost, the three queues, the contexts' hands. A step moves at
most one packet from one place to another, and lemma `MovePacket` says that this
keeps the places disjoint and complete; the rest of the work is to show, action
by action, which two places change. Hands need a second argument, since a place
there is a function of the context: `TakeFrom` (an idle context takes a packet
out of a queue), `PutTo` (a context puts its packet down) and `MoveTo`.
`HoldersHold` is used again: a context that takes a packet held none.

**The semaphore.** `SemHeldInside` is inductive given the types. A step of a
context stays outside the places where a picture is looked at, goes inside with
the free semaphore, stays inside, or leaves and gives it back; there is one lemma
for each.

**Free lists.** `ListInv` says how the engine's valid bits, the error and
interrupt status of the device, the copies the handler has made of both, and the
list status go together:

* every transfer in the engine is awaited (`ValidAwaited`), which is the property;
* an error bit belongs to a plane that is awaited and has ended (`ErrorsAwaited`);
* a plane that is in the engine while an interrupt of an earlier transfer of it is
  still raised belongs to a list without error bits (`StaleQuiet`), so that the
  handler, which looks at interrupts only when there are error bits, ignores it;
* the handler's copy of the interrupt status is still raised (`SnapRaised`), and
  its copy of the error status is current for each list it has not yet handled,
  but for transfers that have ended since (`ErrorsCurrent`).

The middle three are needed because the handler reads both registers once, before
it handles the lists, while lists are posted and transfers end in between; they
hold on the reachable states of two instances, one with two planes and a
controller that pauses, one with two such controllers and three packets.

`FailedLists` goes through the two steps that change a status: a post, which sets the
waiting bits of all planes, and the handler, which frees a list when the last waiting bit
goes. Only these do, and that is where `NoFlush` is used.

**The active queue.** `ActiveInv`: the packets in `actq` with the tag of list `i` are
the one the engine works on, if the list is awaited, and one more exactly while the
handler is between finding the list finished and fetching its packet. Both may be
there at once, since another thread may post to the list in between; the handler
then fetches by tag, and takes the one that was queued first. The counts of
`ActiveMatchesLists` and the buffers of `EngineWritesActive` follow.

**The order of pictures.** `OrderInv` adds to all this

* `ServiceInv`: nothing stops the engine, no transfer fails, and a plane that has ended
  is handled in the pass of the handler that its interrupt starts (`SnapWhole`,
  `EndsServed`);
* `PictureInv`: the packet of a busy list has its picture exactly when luma has ended, and
  so has the one the handler is about to fetch; a packet on its way to the ready
  queue is flagged as what it holds;
* `ChainInv`: the pictures captured and not yet fetched have ages without gap from
  0, no two the same, and of those not yet in the ready queue there is at most
  one, the youngest;
* `FrameOrder` itself, which says in which order the queue holds them.

A picture's age is the number of pictures decoded since, modulo `PicMod`. When luma ends
every age grows by one, and the question is whether the oldest could wrap around to 0.
It cannot: the ages from 0 to the oldest belong to as many packets, none of them the
one that receives the new picture, so that they are fewer than there are packets
(`YoungEnough`). Most steps are `Calm`, and touch nothing the order is about; each of the
others has a lemma for `ServiceInv` and one for the rest.

**The path as a FIFO.** The pictures not yet delivered (`Undelivered`) are those of the
chain and the one a fetch looks at. Taken by age, from the oldest to the youngest, they are
the sequence `waiting` of `PictureFifo` (`Awaiting`). Three things are
needed besides `OrderInv` and `SemHeldInside`:

* `LookInv`: what a reader sees carries a picture or a format change, and a peek, which
  holds `fetch_sem`, still looks at the head of the queue;
* `ViewedInv`: the picture a fetch looks at is one older than the oldest in the chain, or
  the only one and the youngest made;
* `LastInv`: the last two numbers kept are the two before the oldest picture. This is why
  the repeat test lets every picture pass (`NoDrops`).

A step that no reader takes with a picture leaves the sequence alone, or makes a picture
(`AsideMoves`); the others are treated one by one (`FifoStep`). The ages are the numbers
below the count of the pictures (`Numbering`: no gap, no repetition, and as many as there
are pictures), so that `Awaiting` has one entry for each, and
appending, taking the head and leaving alone follow from what the step does to
the ages (`MadeWaits`, `ChoseWaits`, `KeptWaits`).

### Transmit path

`TypeInv`, `OwnInv` and `RunInv` (who holds a request, a packet, the lock; what the
device may raise) hold in every state, so `TxTypes` and `TxPacketOwnership` say
nothing of `disturbed`. The other properties are stated for undisturbed states, and so is their
invariant, `disturbed \/ ClearInv`: in a clear state

* each packet that is active or whose completion is being called has a waiting owner
  (`OwnersWait`), no two have the same (`OneEach`) and no two active ones the same
  tag (`OneOnList`), which is what makes a search by tag find the right one;
* a completion that says "ok" comes after the device took the data, in each of the four
  places where that status travels (`EndsTaken`);
* the engine reads for the packet with the tag of its list (`EngineFollows`), and a
  request whose transfer is not over is not marked ended (`Unfinished`).

Each step keeps this or sets `disturbed`. `InputBufferFits` counts: `RoomKept` adds to the
fullness one transfer for each armed list and for each writer between its check and its
post, and the sum stays below the size.

### Firmware

`BlockInv` has no block in two of five places: with the decoder, in the delivery ring,
in the handler's hand, in the release ring, dropped. Places in a ring are read
through `InRing`, the offsets from read to write with the wrap; `RingGrows` and
`RingShrinks` say what moving one offset does, which is all that the rest of
the proof knows of the arithmetic. `ReleaseRoom` is then a pigeonhole argument: fewer
blocks than entries cannot fill a ring. `CmdInv` follows the one response of a clean
command through mailbox, firmware, status register, handler and event. `RingsExchange` maps each
step to a step of `PibExchange` or a stutter; both rings become sequences, and of the
handler's separate writes of an entry and of its offset one is a stutter.

### Sessions

The types are inductive. `OnePlayback` needs `NotifyInv`: unless two NOTIFY_MODE have
overlapped, one file at most is between its search and its setting, and no slot has become
a playback session since the search. `HandlesMatchFiles` is about two counts that could
drift apart when a file closed late gives back a slot that is no longer its own, or that
nobody has: each such close takes one user with it, and a slot only if it was in use.
`SessionHasHardware` needs to know which calls are refused in which state.

### Library and RIL

`BytesInv` says which bytes of the ring, at which positions modulo the size, are those pushed
and not yet popped: those between the pointers, plus what a push has copied and not yet
counted (`Pointers`, `Written`), less what a pop has copied and not yet counted
(`Copied`). With the counts of `Places` it follows that a push never writes where a pop
reads. Each step of `LibTxBuffer` is then a push, a transfer, a flush or a
stutter of `ByteFifo`. The invariant is `torn \/ BytesInv`; `Places`, which gives
`BufferTypes`, holds of torn states too: whatever a flush does to a push, the bytes still to
be counted fit.

`AnswerInv` follows the current command, unless one was given up: its answer is with the modem, or
with one reader, or in `response` (`NoneRead`, `OneRead`, `WayKnown`), and nothing else is on
the way. `RunnerInv` says what the runner still has to do at each of its places.
`OneUnacknowledged` is inductive given these; it says how many acknowledgements are on their
way after a refusal (none) as well as before.

### Only model-checked

* Liveness, which is out of the prover's reach: `CaptureGoesOn`, `PicturesFetched`,
  `CloseReturns`, `RequestsCompleted`, `HeldReported`.
* The four runs of section 4, which show that something does happen.

No module declares a RECURSIVE operator.


## 6. Assumptions and limits

*Receive path*

* One initialised session on a Link device. INIT is always set.
* The engine works on one list at a time and in posting order; it writes to a
  buffer only while the list's valid bit is set. A transfer of a list that was
  armed again does not end before the interrupt of the list's last transfer was
  cleared by the handler. Without this timing assumption the status of an old
  transfer can be taken for that of a new one and `FreeListsIdle` does not hold; a
  transfer takes far longer than the tail of the handler.
* A stop's read-modify-write of `rx_list_sts`, which is outside `rx_lock`, is one
  step. So are the two assignments by which a pause and a resume change the state
  and the pending stop. A stop may see the slots idle in any order.
* The last sleep (100 ms) of a stop outlasts the servicing of interrupts raised
  before it, except with `SlowStop`, where a stop may give up at any time. The runs
  have `SlowStop` off; the theorems cover both.
* A format change that is announced between the read of the count and the
  acknowledgement is found by the next decoder interrupt.
* The end of a pause (`crystalhd_link_hw_finalize_pause`), which resets the pending stop, the
  start bits and the list to post next, is one step.
* Adding to a queue never fails for want of an element (`crystalhd_misc.c:356`): the pool has
  26, for 2 transmit and 16 receive packets, each in one queue at most.
* `hw_pause_issued` is never set for a Link device, and is left out. User pages,
  descriptors and the contents of a picture other than its number are not modelled.
* The translation of a buffer can fail only where `XlatFails` is on.
* A resume from suspend also resets the list status; processes are frozen then, and
  the reset belongs to a new session.

*Transmit path*: transfers have one size. States after `disturbed` are left to the
theorems `TxTypes` and `TxPacketOwnership`: what a handler does to a request that its writer gave up while the handler
held its packet (`crystalhd_hw.c:397-417`) is in the model, and no property claims it is
harmless. The stop and release of a session are seen
through `cin_wait_exit`. The 100 ms sleeps of the stop, with `hw->lock` held, are one wait.

*Firmware*: one thread issues commands, as the library does. What a command or a
block says is left out, save whether a block announces a format change. There are fewer
blocks than ring entries, as the comment "should never happen" on a full ring takes for
granted.

*Sessions*: handlers are whole steps, but for NOTIFY_MODE, and allocations succeed. So a
release that comes in the middle of another file's capture or firmware call is not
followed into that call. A suspend comes between handlers: processes are frozen there.

*Library*: one application thread. An aborted transfer drops its bytes, as in the code.
Counts and pointers are read in one piece. What two pushes at once do to pointers and
counts, which may leave their range, is left out; `ImplementsFifo`, `TypeOK` and
`CloseReturns` say nothing of it. The transmit thread may wait for room in its own push
for ever (`EosEnd` without fairness) until the device is closed, which ends that
wait (`EosClosed`).

*RIL*: a line is read in the step in which the modem sends it; the commands that
initialise the modem stand as one each; of the events only the poll of the SIM is there,
without its command; clocks are left out. The modem says nothing unsolicited that looks
like an answer. Acknowledgements have an argument of 0 or 1, so the error exit of
`requestSMSAcknowledge`, which would also leave the flag set, is not taken. The framework
acknowledges each message, status report and broadcast. Request 525
(`huaweigeneric-ril.c:5853`), which is never completed, and a request for the calls, which
may be completed twice, are left out.


## 7. Not modelled

* **Flea device.** The queues, sessions, fetch and add of the driver are shared with Link
  and modelled there. What is its own (power states, DDR initialisation, picture queue in
  device memory) is largely register I/O whose effect on the device the source does not
  tell. It is the first candidate for an extension of `CrystalhdRx`.
* **Direct I/O mapping and pools.** Kernel page pinning; `CrystalhdTx` has the pool as a set.
* **The rest of libcrystalhd.** Wrappers around ioctls; a start-code parser over bytes; the
  shared-memory counters, which are one value under one semaphore.
* **RIL SMS and FCP conversions.** Sequential string code; its data is what the models
  abstract.
* **Voice channel, GPS, audio and sensor HALs, Bluetooth, touch screen, ASUS, wakeup
  button, suspend.** Small or copied from elsewhere, and independent of the rest; the
  voice channel, the GPS state thread and the audio locks are worth modelling next.
* **Intermediate responses of AT commands**, the prompt of a message to send and long
  lines in the AT channel; **what each RIL request says**, the events but the poll of the SIM.
* **Register headers and configuration.** More than 110,000 of the repository's 187,000
  lines are generated register definitions, and most of the rest of its text is data or
  copies of mainline drivers; the share of lines the models stand for is small for that
  reason.


## 8. Plan

The models are in place; every safety invariant, action property and refinement that the
passing runs check is a theorem, most without a condition. What is left is a
condition on flushes, weaker than `NoFlush`, under which `FreeListsIdle` holds.
