------------------------------- MODULE Prober -------------------------------
(***************************************************************************)
(* The two cores of the instrument and the run they carry out together:    *)
(* core 0's super-loop with its state machine (app/main.cpp, core/fsm.cpp),*)
(* core 1's run loop (app/core1_main.cpp), the flags they share            *)
(* (app/intercore.hpp), the writer lock of the USB drive (hal/usb_msc.cpp) *)
(* and the BOOTSEL button (hal/gpio.cpp).                                  *)
(*                                                                         *)
(* One action is one access to the shared block, with the private work     *)
(* before it; the cores interleave freely between actions.  A row is       *)
(* <<run, n>>: the n-th row of that run.  Which rows a measurement yields  *)
(* is the concern of the reducers; here core 1 pushes any number of them.  *)
(***************************************************************************)
EXTENDS Naturals, Sequences

CONSTANTS
    Modes,          \* the run modes CONFIG.INI may ask for
    RowsPerRun,     \* bound: rows core 1 yields in one run
    RingCap,        \* rows the SPSC ring holds (kResultRingLen - 1)
    BufCap,         \* rows core 0 keeps (kMaxRows, kMaxRampRows, kHoldWindowRows)
    MaxRuns         \* bound: runs started

ASSUME ModeAssumption == Modes \subseteq {"Stepped", "Ramp", "Hold"}
ASSUME SizeAssumption ==
    /\ RowsPerRun \in Nat /\ MaxRuns \in Nat
    /\ RingCap \in Nat \ {0} /\ BufCap \in Nat \ {0}

VARIABLES
    \* core 0
    state,          \* core::State
    pc0,            \* where the super-loop is
    rows,           \* n_rows / n_ramp / hold_ring: the rows kept for the file
    runs,           \* runs started so far (BeginRun)
    \* core 1
    pc1,            \* where core1_entry is
    job,            \* the run core 1 is working on
    produced,       \* rows it has yielded so far
    armed,          \* run_hold: BOOTSEL was seen released
    prev_pressed,   \* run_hold: BOOTSEL at the previous poll
    locked,         \* core 1 spins in the SDK's lockout handler, in RAM
    \* the shared block g_ic
    flags,          \* its booleans
    ring,           \* results / ramp_results
    \* the USB drive
    readonly,       \* g_readonly: the writer lock
    media_polls,    \* g_media_change_polls
    fsFresh,        \* FatFs' cached FAT is the one in flash
    hostFresh,      \* so is the host's
    \* the operator
    mode,           \* RUN_MODE of CONFIG.INI, which is read at boot only
    button,         \* BOOTSEL is down
    pressUsed,      \* the present press has already started or stopped a run
    \* history
    sent,           \* rows of the current job that entered the ring
    aborted         \* the last run that lost sync

core0Vars == <<state, pc0, rows, runs>>
core1Vars == <<pc1, job, produced, armed, prev_pressed>>
usbVars   == <<readonly, media_polls, fsFresh, hostFresh>>
userVars  == <<mode, button, pressUsed>>
histVars  == <<sent, aborted>>
vars == <<core0Vars, core1Vars, locked, flags, ring, usbVars, userVars, histVars>>

Rows == (1 .. MaxRuns) \X (1 .. RowsPerRun)

Flags == {"run_request", "run_active", "capture_idle", "lost_sync", "run_done",
          "stop_request", "debug_start", "ramp_truncated"}

MediaChangePolls == 2       \* kMediaChangePolls

Pc0 == {"boot", "config", "usb", "hostlock", "hostwrite", "hostunlock", "park",
        "ready", "drain", "lost", "done", "idle", "lock", "write", "unlock",
        "begin", "begin2", "begin3", "return", "return2"}

Pc1 == {"off", "init", "wait", "clearlost", "cleardone", "clearstop", "active",
        "start", "measure", "final", "stop", "inactive", "report"}

TypeOK ==
    /\ state \in {"Boot", "ConfigInvalid", "Ready", "Running", "Flush", "Done", "Error"}
    /\ pc0 \in Pc0
    /\ rows \in Seq(Rows) /\ Len(rows) <= BufCap
    /\ runs \in 0 .. MaxRuns
    /\ pc1 \in Pc1
    /\ job \in 0 .. MaxRuns
    /\ produced \in 0 .. RowsPerRun
    /\ armed \in BOOLEAN /\ prev_pressed \in BOOLEAN
    /\ locked \in BOOLEAN
    /\ flags \in [Flags -> BOOLEAN]
    /\ ring \in Seq(Rows) /\ Len(ring) <= RingCap
    /\ readonly \in BOOLEAN
    /\ media_polls \in 0 .. MediaChangePolls
    /\ fsFresh \in BOOLEAN /\ hostFresh \in BOOLEAN
    /\ mode \in Modes /\ button \in BOOLEAN /\ pressUsed \in BOOLEAN
    /\ sent \in Seq(Rows)
    /\ aborted \in 0 .. MaxRuns

Init ==
    /\ state = "Boot" /\ pc0 = "boot" /\ rows = <<>> /\ runs = 0
    /\ pc1 = "off" /\ job = 0 /\ produced = 0
    /\ armed = FALSE /\ prev_pressed = TRUE /\ locked = FALSE
    /\ flags = [f \in Flags |-> f = "capture_idle"]
    /\ ring = <<>>
    /\ readonly = FALSE /\ media_polls = 0
    /\ fsFresh = FALSE /\ hostFresh = TRUE
    /\ mode \in Modes /\ button = FALSE /\ pressUsed = FALSE
    /\ sent = <<>> /\ aborted = 0

(* A step of core 0 that touches nothing but its own position, and one     *)
(* that stores a flag; likewise for core 1, which only steps when it is    *)
(* not held in the lockout.                                                *)
Store(f, b) == flags' = [flags EXCEPT ![f] = b]

Others0 == UNCHANGED <<core1Vars, ring, userVars, histVars>>
Others1 == UNCHANGED <<core0Vars, locked, usbVars, userVars>>

Goto0(from, to) == pc0 = from /\ pc0' = to
Move0(from, to) ==
    /\ Goto0(from, to)
    /\ UNCHANGED <<state, rows, runs, locked, flags, usbVars>>
    /\ Others0

Goto1(from, to) == pc1 = from /\ pc1' = to /\ ~locked
Keep1 == UNCHANGED <<job, produced, armed, prev_pressed, ring, histVars>> /\ Others1
Move1(from, to) == Goto1(from, to) /\ UNCHANGED flags /\ Keep1
Store1(from, to, f, b) == Goto1(from, to) /\ Store(f, b) /\ Keep1

-----------------------------------------------------------------------------
(* Core 0: boot.  The volume is mounted and offered over USB, core 1 is    *)
(* launched; then CONFIG.INI is loaded and found valid, with mode as its   *)
(* run mode, or not.                                                       *)

Boot ==
    /\ Goto0("boot", "config")
    /\ fsFresh' = TRUE
    /\ readonly' = FALSE
    /\ pc1' = "init"
    /\ UNCHANGED <<state, rows, runs, job, produced, armed, prev_pressed, locked, flags,
                   ring, media_polls, hostFresh, userVars, histVars>>

LoadConfig ==
    /\ Goto0("config", "usb")
    /\ state' \in {"Ready", "ConfigInvalid"}
    /\ UNCHANGED <<rows, runs, locked, flags, usbVars>> /\ Others0

-----------------------------------------------------------------------------
(* Core 0: tud_task() at the top of every tick.  It serves the commands    *)
(* the host has sent since the last tick, one action per command.          *)

UsbDone == Move0("usb", "park")

(* Test Unit Ready: a pending media change is reported once per poll and   *)
(* makes the host read the volume again.                                   *)
TestUnitReady ==
    /\ pc0 = "usb" /\ media_polls > 0
    /\ media_polls' = media_polls - 1
    /\ hostFresh' = TRUE
    /\ UNCHANGED <<core0Vars, locked, flags, readonly, fsFresh>> /\ Others0

(* WRITE10 on a writable medium: hold core 1 in RAM, program the sector,   *)
(* release it.  A read-only medium rejects the command and changes nothing.*)
HostWrite == ~readonly /\ Move0("usb", "hostlock")

(* Core 1 answers a lockout request once it has registered as a victim.    *)
(* Until then multicore_lockout_start_timeout_us gives up, and the write   *)
(* is refused.                                                             *)
Lockable == pc1 \notin {"off", "init"}

HostLock ==
    /\ Goto0("hostlock", "hostwrite")
    /\ Lockable
    /\ locked' = TRUE
    /\ UNCHANGED <<state, rows, runs, flags, usbVars>> /\ Others0

HostLockTimeout == ~Lockable /\ Move0("hostlock", "usb")

HostProgram ==
    /\ Goto0("hostwrite", "hostunlock")
    /\ fsFresh' = FALSE
    /\ UNCHANGED <<state, rows, runs, locked, flags, readonly, media_polls, hostFresh>>
    /\ Others0

HostUnlock ==
    /\ Goto0("hostunlock", "usb")
    /\ locked' = FALSE
    /\ UNCHANGED <<state, rows, runs, flags, usbVars>> /\ Others0

-----------------------------------------------------------------------------
(* Core 0: the park point, where a poll of core 1 may hold it (HoldPoll),  *)
(* and the handler of each state.                                          *)

PassPark ==
    Move0("park", CASE state = "Ready" -> "ready"
                    [] state \in {"Running", "Flush"} -> "drain"
                    [] state \in {"Done", "Error"} -> "return"
                    [] OTHER -> "usb")

(* Ready: BOOTSEL, else debug_start.exchange(false), starts a run. *)
StartByButton ==
    /\ button /\ runs < MaxRuns
    /\ Goto0("ready", "begin")
    /\ pressUsed' = TRUE
    /\ UNCHANGED <<state, rows, runs, core1Vars, locked, flags, ring, usbVars, mode,
                   button, histVars>>

StartByProbe ==
    /\ ~button /\ flags["debug_start"] /\ runs < MaxRuns
    /\ Goto0("ready", "begin")
    /\ Store("debug_start", FALSE)
    /\ UNCHANGED <<state, rows, runs, locked, usbVars>> /\ Others0

NoStart == ~button /\ ~flags["debug_start"] /\ Move0("ready", "usb")

(* BeginRun: empty the buffers, engage the writer lock, clear the flags of *)
(* the last run, ask for a new one.                                        *)
BeginWith(kept, lock) ==
    /\ Goto0("begin", "begin2")
    /\ runs' = runs + 1
    /\ rows' = kept
    /\ readonly' = lock
    /\ flags' = [flags EXCEPT !["ramp_truncated"] = FALSE, !["lost_sync"] = FALSE]
    /\ UNCHANGED <<state, locked, media_polls, fsFresh, hostFresh>> /\ Others0
BeginUnlocked == BeginWith(<<>>, FALSE)     \* the writer lock is forgotten
BeginKeepsRows == BeginWith(rows, TRUE)     \* the buffers are not reset
BeginRun == BeginWith(<<>>, TRUE)

BeginRunDone ==
    /\ Goto0("begin2", "begin3")
    /\ Store("run_done", FALSE)
    /\ UNCHANGED <<state, rows, runs, locked, usbVars>> /\ Others0

BeginRunRequest ==
    /\ Goto0("begin3", "usb")
    /\ Store("run_request", TRUE)
    /\ state' = "Running"
    /\ UNCHANGED <<rows, runs, locked, usbVars>> /\ Others0

(* A popped row is kept while there is room; a hold forgets its oldest row *)
(* to make room (RecentRing), the other modes drop the new one, and a ramp *)
(* raises ramp_truncated.                                                  *)
Stored(r) ==
    IF Len(rows) < BufCap THEN Append(rows, r)
    ELSE IF mode = "Hold" THEN Append(Tail(rows), r) ELSE rows

Flagged == flags["ramp_truncated"] \/ (mode = "Ramp" /\ Len(rows) = BufCap)

DrainRow ==
    /\ pc0 = "drain" /\ ring # <<>>
    /\ ring' = Tail(ring)
    /\ rows' = Stored(Head(ring))
    /\ Store("ramp_truncated", Flagged)
    /\ UNCHANGED <<state, pc0, runs, core1Vars, locked, usbVars, userVars, histVars>>

DrainEnd ==
    /\ ring = <<>>
    /\ Move0("drain", IF state = "Running" THEN "lost" ELSE "idle")

(* Running: lost_sync is looked at first and leads to Error; run_done      *)
(* leads to Flush.                                                         *)
CheckLost ==
    /\ pc0 = "lost"
    /\ IF flags["lost_sync"] THEN pc0' = "usb" /\ state' = "Error"
                             ELSE pc0' = "done" /\ UNCHANGED state
    /\ UNCHANGED <<rows, runs, locked, flags, usbVars>> /\ Others0

CheckDone ==
    /\ Goto0("done", "usb")
    /\ state' = IF flags["run_done"] THEN "Flush" ELSE state
    /\ UNCHANGED <<rows, runs, locked, flags, usbVars>> /\ Others0

(* Flush: only when capture is idle; then FatFs reads the FAT again. *)
FlushIdle(fresh) ==
    /\ pc0 = "idle"
    /\ IF flags["capture_idle"] THEN pc0' = "lock" /\ fsFresh' = fresh
                                ELSE pc0' = "usb" /\ UNCHANGED fsFresh
    /\ UNCHANGED <<state, rows, runs, locked, flags, readonly, media_polls, hostFresh>>
    /\ Others0
FlushStale == FlushIdle(fsFresh)            \* the volume is not mounted again
CheckIdle == FlushIdle(TRUE)

FlushLockTo(held) ==
    /\ Goto0("lock", "write")
    /\ Lockable
    /\ locked' = held
    /\ UNCHANGED <<state, rows, runs, flags, usbVars>> /\ Others0
FlushUnlocked == FlushLockTo(FALSE)         \* core 1 is not held
FlushLock == FlushLockTo(TRUE)

(* flush_results(), flush_ramp_results(), flush_hold(): write the rows to  *)
(* a new file and hand the drive back to the host.  The writes may fail,   *)
(* but nobody looks at their results.                                      *)
FlushWrite ==
    /\ Goto0("write", "unlock")
    /\ hostFresh' = FALSE
    /\ readonly' = FALSE
    /\ UNCHANGED <<state, rows, runs, locked, flags, media_polls, fsFresh>> /\ Others0

FlushEndWith(polls) ==
    /\ Goto0("unlock", "usb")
    /\ locked' = FALSE
    /\ media_polls' = polls
    /\ state' = "Done"
    /\ UNCHANGED <<rows, runs, flags, readonly, fsFresh, hostFresh>> /\ Others0
FlushUnannounced == FlushEndWith(media_polls)   \* the host is not told
FlushEnd == FlushEndWith(MediaChangePolls)

(* ReturnReady, from Done and from Error. *)
ReturnReady ==
    /\ Goto0("return", "return2")
    /\ readonly' = FALSE
    /\ Store("run_done", FALSE)
    /\ UNCHANGED <<state, rows, runs, locked, media_polls, fsFresh, hostFresh>>
    /\ Others0

ReturnReadyEnd ==
    /\ Goto0("return2", "usb")
    /\ Store("lost_sync", FALSE)
    /\ state' = "Ready"
    /\ UNCHANGED <<rows, runs, locked, usbVars>> /\ Others0

-----------------------------------------------------------------------------
(* Core 1: registration as lockout victim, then the wait for a request,    *)
(* which is consumed and the flags of the last run cleared again.          *)

Core1Init == Move1("init", "wait")

Consume ==
    /\ Goto1("wait", "clearlost")
    /\ flags["run_request"]
    /\ Store("run_request", FALSE)
    /\ job' = runs /\ produced' = 0 /\ sent' = <<>>
    /\ UNCHANGED <<armed, prev_pressed, ring, aborted>> /\ Others1

ClearLost == Store1("clearlost", "cleardone", "lost_sync", FALSE)
ClearDone == Store1("cleardone", "clearstop", "run_done", FALSE)
ClearStop == Store1("clearstop", "active", "stop_request", FALSE)
Activate  == Store1("active", "start", "run_active", TRUE)

-----------------------------------------------------------------------------
(* Core 1: run_sweep(), run_ramp(), run_hold().  In "start" the capture    *)
(* hardware already runs; the flag says so one step later.                 *)

StartCapture ==
    /\ Goto1("start", "measure")
    /\ Store("capture_idle", FALSE)
    /\ armed' = FALSE /\ prev_pressed' = TRUE
    /\ UNCHANGED <<job, produced, ring, histVars>> /\ Others1

(* A row is handed over; a full ring drops it.  The final drain of a ramp  *)
(* or a hold may still yield rows.                                         *)
PushRow ==
    /\ ~locked
    /\ pc1 = "measure" \/ (pc1 = "final" /\ mode # "Stepped")
    /\ produced < RowsPerRun
    /\ produced' = produced + 1
    /\ LET row == <<job, produced + 1>> IN
       IF Len(ring) < RingCap THEN ring' = Append(ring, row) /\ sent' = Append(sent, row)
                              ELSE UNCHANGED <<ring, sent>>
    /\ UNCHANGED <<pc1, job, armed, prev_pressed, flags, aborted>> /\ Others1

(* A sweep ends when every step has given its rows, a ramp when its        *)
(* schedule does or at the wall-time cap, a hold when it is told to.       *)
SweepDone == mode = "Stepped" /\ produced = RowsPerRun /\ Move1("measure", "stop")
RampDone  == mode = "Ramp" /\ Move1("measure", "final")
StopSeen  == mode = "Hold" /\ flags["stop_request"] /\ Move1("measure", "final")

(* The watchdog: no pickup edge for 16 revolutions ends a ramp or a hold. *)
LoseSync ==
    /\ Goto1("measure", "final")
    /\ mode # "Stepped"
    /\ Store("lost_sync", TRUE)
    /\ aborted' = job
    /\ UNCHANGED <<job, produced, armed, prev_pressed, ring, sent>> /\ Others1

(* run_hold reads BOOTSEL while core 0 spins at its park point: a rising   *)
(* edge after a release was seen is the operator's stop.                   *)
PollWith(stop) ==
    /\ pc1 = "measure" /\ mode = "Hold" /\ pc0 = "park" /\ ~locked
    /\ armed' = (armed \/ ~button)
    /\ prev_pressed' = button
    /\ Store("stop_request", flags["stop_request"] \/ stop)
    /\ pressUsed' = (pressUsed \/ stop)
    /\ UNCHANGED <<core0Vars, pc1, job, produced, locked, ring, usbVars, mode, button,
                   histVars>>
PollLevel == PollWith(button)               \* stops on the level, not the edge
HoldPoll == PollWith(button /\ armed /\ ~prev_pressed)

(* The last of the bounded passes that flush late captures; capture stops, *)
(* and then the flags say so.                                              *)
FinalDone   == Move1("final", "stop")
StopKeepsBusy == Move1("stop", "inactive")  \* the flag is forgotten
StopCapture == Store1("stop", "inactive", "capture_idle", TRUE)
Deactivate  == Store1("inactive", "report", "run_active", FALSE)
ReportSilently == Move1("report", "wait")   \* the end is not reported
Report      == Store1("report", "wait", "run_done", TRUE)

-----------------------------------------------------------------------------
(* The operator's finger, and a debug probe on the SWD port. *)

Press ==
    /\ ~button /\ button' = TRUE
    /\ UNCHANGED <<core0Vars, core1Vars, locked, flags, ring, usbVars, mode, pressUsed,
                   histVars>>

Release ==
    /\ button /\ button' = FALSE
    /\ pressUsed' = FALSE
    /\ UNCHANGED <<core0Vars, core1Vars, locked, flags, ring, usbVars, mode, histVars>>

SwdRaise(f) ==
    /\ ~flags[f]
    /\ Store(f, TRUE)
    /\ UNCHANGED <<core0Vars, core1Vars, locked, ring, usbVars, userVars, histVars>>
SwdStart == SwdRaise("debug_start")
SwdStop  == SwdRaise("stop_request")

-----------------------------------------------------------------------------
Core0Straight ==
    \/ Boot \/ LoadConfig
    \/ HostLock \/ HostLockTimeout \/ HostProgram \/ HostUnlock
    \/ PassPark \/ StartByButton \/ StartByProbe \/ NoStart
    \/ BeginRun \/ BeginRunDone \/ BeginRunRequest
    \/ DrainRow \/ DrainEnd \/ CheckLost \/ CheckDone
    \/ CheckIdle \/ FlushLock \/ FlushWrite \/ FlushEnd
    \/ ReturnReady \/ ReturnReadyEnd

Core0 == Core0Straight \/ UsbDone \/ TestUnitReady \/ HostWrite

Core1Straight ==
    \/ Core1Init \/ Consume \/ ClearLost \/ ClearDone \/ ClearStop \/ Activate
    \/ StartCapture \/ SweepDone \/ RampDone \/ StopSeen \/ FinalDone
    \/ StopCapture \/ Deactivate \/ Report

Core1 == Core1Straight \/ PushRow \/ LoseSync \/ HoldPoll

Environment == Press \/ Release \/ SwdStart \/ SwdStop

Next == Core0 \/ Core1 \/ Environment

(* Core 0 never blocks, and a tick serves finitely many commands.  Core 1  *)
(* held in the lockout goes on from where it was: its fairness is strong,  *)
(* since every lockout takes its steps away for a while.  A sweep step     *)
(* always yields its rows (its deadlines see to that); nothing else a run  *)
(* waits for is assumed of the host, the operator, the pickup or a probe.  *)
Fairness ==
    /\ WF_vars(Core0Straight) /\ SF_vars(UsbDone)
    /\ SF_vars(Core1Straight)
    /\ SF_vars(mode = "Stepped" /\ PushRow)

Spec == Init /\ [][Next]_vars /\ Fairness

-----------------------------------------------------------------------------
(* What the file must hold: of the rows of this run that entered the ring, *)
(* the first BufCap, or for a hold the last BufCap.                        *)
Kept(s) ==
    IF Len(s) <= BufCap THEN s
    ELSE IF mode = "Hold" THEN SubSeq(s, Len(s) - BufCap + 1, Len(s))
    ELSE SubSeq(s, 1, BufCap)

NoneAborted == aborted = 0      \* no run has lost sync so far

(* When the file is written it is the file of the run that has just ended: *)
(* its rows in order, none of an earlier run, none forgotten in the ring,  *)
(* and a ramp that lost rows for want of buffer says so (main.cpp:366-383, *)
(* 132-140, 162-164).                                                      *)
FileIsRun ==
    pc0 = "write" /\ NoneAborted =>
        /\ rows = Kept(sent)
        /\ mode = "Ramp" => (flags["ramp_truncated"] <=> Len(sent) > BufCap)

(* Flash is never programmed, for the file or for the host, while capture  *)
(* runs on core 1 (main.cpp:15-18), and never disconnected for a look at   *)
(* the button in Ready while core 1 has a run in hand (gpio.cpp:43-68).    *)
Capturing == pc1 \in {"start", "measure", "final", "stop"}
FlashIdle ==
    NoneAborted =>
        /\ pc0 \in {"write", "hostwrite"} => flags["capture_idle"] /\ ~Capturing
        /\ pc0 = "ready" => pc1 \in {"init", "wait"}

(* Core 1 is held in its RAM-resident handler exactly while flash is being *)
(* programmed, so that it neither fetches from flash then nor stays        *)
(* captive afterwards (main.cpp:410-416, usb_msc.cpp:45-56).               *)
XipHeld == locked <=> pc0 \in {"write", "unlock", "hostwrite", "hostunlock"}

(* FatFs never writes through a view of the FAT that is older than the     *)
(* host's last write (main.cpp:393-402).                                   *)
FatViewFresh == pc0 = "write" => fsFresh

(* No sector of the host is in flight between the start of a run and the   *)
(* end of its flush: a write that passed the check of the writer lock      *)
(* completes before the lock closes (main.cpp:11-14).                      *)
WriterLock ==
    /\ state \in {"Running", "Flush"} => pc0 \notin {"hostlock", "hostwrite", "hostunlock"}
    /\ state = "Ready" /\ pc0 = "usb" => ~readonly

(* However its polls fall, a host that has not read the volume since the   *)
(* last flush still has a media change coming to it (usb_msc.cpp:30-39,    *)
(* 108-118).                                                               *)
AttentionPending == ~hostFresh /\ pc0 # "unlock" => media_polls > 0

(* The press that started a hold does not stop it (core1_main.cpp:926).    *)
StartPressNeverStops ==
    [][HoldPoll /\ flags'["stop_request"] /\ ~flags["stop_request"] /\ NoneAborted
       => ~pressUsed]_vars

(* A sweep and a ramp come back to Ready, whatever the host does meanwhile *)
(* (fsm.cpp, core1_main.cpp:807-813).                                      *)
RunEnds == (state = "Running" /\ mode # "Hold") ~> (state = "Ready")

(* A hold that has been told to stop is flushed and comes back to Ready.   *)
StopEndsHold == (pc1 = "measure" /\ flags["stop_request"]) ~> (state = "Ready")

-----------------------------------------------------------------------------
(* Five statements of the code's own documents that fail once a run has    *)
(* lost sync or a press is held on.                                        *)

(* "Error: lost sync (run aborted; no file written)".                      *)
AbortNotFlushed == pc0 = "write" => aborted # runs

(* "clear stale flags so the next run starts clean" (main.cpp:450-452):    *)
(* the rows gathered for a file are those of the present run.              *)
RunStartsClean == \A i \in 1 .. Len(rows) : rows[i][1] = runs

(* "core0 NEVER writes flash while core1 is actively capturing             *)
(* (g_ic.capture_idle == false)" (main.cpp:15-16).                         *)
NeverWhileCapturing == pc0 \in {"write", "hostwrite"} => flags["capture_idle"]

(* "flash is unusable while CS is floated" (gpio.cpp:45-46): when core 0   *)
(* looks at the button in Ready, core 1 is in the loop it waits in.        *)
PollAlone == pc0 = "ready" => pc1 = "wait"

(* A hold runs "until BOOTSEL is pressed" and a run is started by a press  *)
(* in Ready (architecture.md): one press does not do both.                 *)
OnePressOneRun == [][StartByButton => ~pressUsed]_vars

=============================================================================
