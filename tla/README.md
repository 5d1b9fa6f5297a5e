# 4DN firing timing probe: TLA+ models and proofs

The firmware under `src/firmware/src` turns a two-core RP2040 into an
instrument: it emits the crank pickup pattern of an engine at a commanded
speed, captures when the ignitor fires in response, and leaves the advance map
as a CSV file on a USB drive. This directory holds TLA+ modules for the parts of
it in which order, time or failure matter, the TLC configurations that check
them on small instances, and theorems about them checked by TLAPS for all sizes.

Paths below are relative to `src/firmware/src`. Run the tools in this directory:

    tlc -workers 2 -config MCProber.cfg MCProber      # check one instance
    tlapm ProberProofs.tla                            # check one module of proofs

## 1. Inventory

| Part | State it keeps | Operations |
|---|---|---|
| **Super-loop and state machine, core 0** (`app/main.cpp`, `core/fsm.cpp`) | state (Boot, ConfigInvalid, Ready, Running, Flush, Done, Error), row buffers (256 sweep, 4096 ramp, window of 2048 hold rows) | boot; per tick: USB, park if asked, button, drain, handler of the state; begin run; flush; return to Ready |
| **Run loop, core 1** (`app/core1_main.cpp`) | run in progress, reducers, button history of a hold | consume a request, sweep / ramp / hold, lost-sync watchdog, final drain, report |
| **Intercore block** (`app/intercore.hpp`) | eight booleans, two rings of rows, target and mode words | single atomic loads and stores |
| **SPSC ring** (`app/spsc.hpp`) | two indices, N slots | `push`, `pop`, `empty`, without locks |
| **Park handshake and BOOTSEL** (`app/main.cpp:201-213`, `app/core1_main.cpp:962-1003`, `hal/gpio.cpp`) | `park_request`, `park_ack`, time of the last poll | ask, acknowledge, spin in RAM, float the chip select, read, release |
| **USB mass storage** (`hal/usb_msc.cpp`) | writer lock, media-change polls, one sector | read, write under lockout of core 1, test-unit-ready |
| **Capture and timebase** (`hal/capture.*`, `core/capture_decode.cpp`, `core/timebase.hpp`) | a DMA ring of 256 words and a 64-bit extension of the counter per line | `start`, `stop`, `clear`, `drain` |
| **Pickup emitter** (`hal/soft_pattern.hpp`) | edge index, revolution start, speed and pending speed | alarm interrupt per edge, `set_rpm` |
| **Alignment and reduction** (`app/core1_main.cpp:120-718`) | pickup edge history with index and revolution, settle window, samples | sync gap, bracket, settle, accept, deadlines |
| **Dwell, tach, skew** (`core/angle.hpp`, `core/tach.cpp`, `core/skew.hpp`) | a charge start per line, last tooth 0, edges counted per line | pair a charge with a spark, take a latency sample, correct a count |
| **INI reader** (`core/ini.cpp`, `core/parse.cpp`, `core/fileio.cpp`) | position in the text, up to 24 pairs | next line, refuse, store, look up, parse a value |
| **Run modes and configuration** (`app/run_modes.cpp`, `core/config.cpp`) | the speed in progress | load and check, step, integrate, slew |
| **Hold window** (`core/hold_ring.hpp`) | overwrite-oldest ring | `push`, `clear`, visit oldest to newest |
| **Flash volume** (`hal/flashfs.cpp`, `hal/diskio_flash.cpp`, boot part of `app/main.cpp`) | 1024 sectors in erase blocks of eight, one block in RAM | rewrite a sector, mount or format, default CONFIG.INI, VERSION.TXT, next free name, write a result |
| **FatFs** (`external/fatfs`) | directory, allocation table, clusters | third-party; only the order of its sector writes matters here |
| **Statistics; CSV; descriptors, pins; build, tests, hardware-in-the-loop** | – | not modelled, see section 8 |

How they interact:

- Core 0 calls TinyUSB, which calls back into `usb_msc.cpp` inside a tick: a
  host's write runs on core 0 between two steps of the state machine.
- Core 0 starts a run by storing `run_request`; core 1 answers by storing
  `run_active`, `capture_idle`, `lost_sync` and `run_done`. Rows go from core 1 to
  core 0 through the SPSC ring, one pop per loop of core 0's drain.
- Before flash is programmed core 0 takes the SDK's lockout: core 1 then spins in
  a handler in RAM. In a hold the roles are swapped by hand: core 1 asks core 0 to
  park, because it is core 1 that reads the button.
- A debug probe may store `debug_start`, `stop_request` and `hold_target_rpm` at
  any time.
- Interrupts: the alarm that emits edges preempts core 1; DMA writes the capture
  rings concurrently with `drain`.

What is hard, and what makes each part right:

| Part | Hard behaviour | What must hold |
|---|---|---|
| cores, flags | two cores without locks; a lost sync races the end of a run; a host write at any moment; a lockout that may time out | the file is the run's, whole and in order; flash is not programmed during capture, and only with core 1 in RAM; writers exclude one another; nobody works on a stale FAT; every run comes back to Ready |
| ring, hold window | stale index loads on both sides, wrapping; a row that has left the ring and is not yet in the window; overwriting, clear, refill | no race on a slot; bounded FIFO; the last rows that were sent, oldest first, none lost or doubled on the way |
| park | a late acknowledgement, a backstop, a core that dies, an edge that comes due | chip select floated only under a parked core 0; no edge delayed; core 0 always gets back |
| capture | counter wraps, restarts, edges that arrive during a drain, a limited output buffer | distances exact; lines comparable; pickup decoded before the rest |
| alignment | speed changes between command and emitter, missed and spurious edges, lag of core 1 | true angles around each accepted spark; alignment heals; settling counted; the sweep ends |
| dwell, tach, skew, queues | charge and spark in different batches and steps; edges that arrive between the reading of two lines; counters that stand still for every edge; a history of 64 edges | true dwell, true bracket, no spark given up early, no queue that wedges, the tach paired with the tooth 0 there was |
| configuration text | a buffer that truncates, keys twice, in comments, in either case | what runs is what the file says |
| schedules | unsigned sums, floats that swallow small increments, NaN | exact grid, ceiling, no overshoot, a target that the floats can reach is reached, every run ends |
| volume | power cuts between and inside sector writes, formats, reboots, names, a host that writes in its own order and is cut off | other files survive, no shared cluster, VERSION.TXT heals, no result overwritten |

`PROJECT.json` lists each hazard at its line with the properties that watch it.

## 2. Modules

| Module | Models | State and actions |
|---|---|---|
| `Spsc` | `app/spsc.hpp` | one action per access the other core can see: test, store, publish of `push` and `pop`, `empty` from either side. `pHead`, `cTail` are the values each side acquired last; a load may return anything published since |
| `BoundedFifo` | what the ring promises | `Push`, `Pop` on a sequence of at most N-1 |
| `ParkHandshake` | both sides of the park, `read_bootsel`, the emitter's edges | discrete time (`Tick`), bounds on how long each stretch takes, `Hang` for a core 1 that dies |
| `Prober` | `main.cpp`, `fsm.cpp`, `intercore.hpp`, the run protocol of `core1_main.cpp`, the writer lock of `usb_msc.cpp`, the button | one action per access to the shared block; `pc0`, `pc1` name places in the two loops; environment: `Press`, `Release`, `SwdStart`, `SwdStop`, host write and poll |
| `Capture` | PIO counter, DMA, `drain`, `decode_capture`, `Timebase64` | `Start`, `Stop`, `Tick`, `Edge`, `Drain`, `Decode`, `NextSlot`; `at` is the true count of a word, which the program does not see |
| `SyncAlign` | `soft_pattern.hpp` and the reducers | `Emit`, `Miss`, `Spurious`; `Process`; `BeginStep`, `EndStep`; `RampTick`, `EndRamp` |
| `Sparks` | the reducers with `skew.hpp`, the dwell pairer, `tach.cpp`, the order in which `drain` reads lines | `Edge`, `Tick`; `Drain`, `NextLine`; `ReadPickup`, `ReadFall`, `ReadSpark`, `ReadTach`; `Resolve`, `Drop`, `Keep`; `BeginStep`. A count is kept as the program has it (`t`) and as it truly was (`at`) |
| `ConfigText` | `ini.cpp`, `parse.cpp`, the key lookup of `config.cpp`, the buffer of `fileio.cpp` | `ReadLine` (skip, refuse, store), `EndOfText`; a file is a sequence of tokens |
| `Schedules` | extends `ConfigText`: checks of the values, the three schedules | `ReadText`, `LoadConfig`, `Reject`, the starts, `AdvanceStep`, `RampPass`, `HoldPass`, `RampCapped`, `Retarget`, `Stop` |
| `RecentRing`, `LastRows` | `hold_ring.hpp` and what it promises | `Push`, `Clear`; the window of the last rows |
| `HoldPath`, `HoldStream` | extends `Spsc`: the ring, core 0's local row and the window (an instance of `RecentRing`), and what the three promise together | `Core1`; `PopBegin`, `PopCopy`, `PopReturn`, `Store`; `BeginRun` |
| `FlashSectors`, `SectorStore` | `diskio_flash.cpp` and what it promises | `Patch`, `Erase`, `Program`, `Cut`; sectors written one at a time, of which a cut may take those of one block |
| `Volume` | boot, flush and host changes over `FlashSectors` | extends it; `MountOrFormat`, `EnsureConfig`, `RefreshVersion`, `FlushResults`, `HostEdits`, `HostDeletes` (in either order), `PowerCut`. `host` is the host's change under way, which a run that begins cuts off; `torn` remembers one that was cut off between freeing and unlinking |
| `MC*` | – | values for TLC |
| `*Proofs` | – | theorems, section 6 |

`Prober` uses the ring as a sequence, which is what `Spsc` is shown to implement,
and a hold's buffer as the last rows, which is what `RecentRing` is shown to
implement; `HoldPath` puts the two together with nothing abstracted. `Volume` EXTENDS
`FlashSectors` and its steps are steps of it. What `Capture` guarantees (a shared
timebase) is what `SyncAlign` and `Sparks` assume of the counts they read; what
`Prober` guarantees (`FlashIdle`, `WriterLock`) is why `Volume` has one writer.

Definitions that are declared just before another and named for a bug
(`EmptyUnchecked` before `Empty`, `PollLevel` before `HoldPoll`) are mutated forms of
it. No specification uses them: replacing the definition by its mutated form must
break the property that `PROJECT.json` pairs with it, which shows that the
property depends on that line of code.

Abstractions that every reader should know:

- *Rows* are `<<run, n>>`; which rows a measurement yields is left open, core 1
  pushes any number up to a bound. A sweep always yields its rows, because its
  steps have deadlines (`SweepEnds`).
- *FatFs* is the order in which it writes sectors. A file has one cluster of one
  sector, the directory is one sector with room for all names. A directory block
  that was torn reads as empty, a torn allocation table as all used (0xFFF
  entries).
- *The host's driver* in `Volume` may write a change in any order, and a run may lock
  it out halfway. It is assumed not to write later what it had not written by
  then: a flush ends with a media change, after which a host reads the volume again.
- *Capture* leaves out the 2.75 counts a counter pauses per edge; they, and their
  correction by `core/skew.hpp`, are in `Sparks`.
- *Sparks* runs at one speed, and whether the gap before a tooth 0 passes the
  threshold is left open; speeds and faults are in `SyncAlign`. An edge is
  reduced in the step that reads it, and no edge arrives while the pending
  sparks are looked at: neither can be told apart by the reducer, which sees the
  lines only when it reads them. The interpolated angle is the pair of edges it
  comes from. The interval between two tach edges is not kept: it is a distance
  on one line, which `IntervalsExact` covers.
- *ConfigText* has no white space, which the reader trims wherever it may stand,
  and numbers of at most two digits.
- *SyncAlign* takes deadlines and times as exact numbers, so neither the rounding
  of edge times to microseconds nor 32-bit products are in it.
- *Schedules* counts floats in quanta: exact up to `Exact` of them, above it every
  doubling takes the next distance of `Ulps`, and products, sums and converted
  unsigned numbers are rounded to the nearest, to even on a tie. What is beyond
  every float stands for infinity; infinity times no time is NaN. A time `dt` is an
  exact number, so the rounding of `float(us) / 1.0e6f` is left out, and so is a
  fused multiply-add, which this target does not have.

## 3. Runs

| Run | Instance | Shows |
|---|---|---|
| `hold_path` | ring of 4 slots, window of 3, 2 rows | `NoDataRace`; the ring refines `BoundedFifo`, the window `LastRows`, and both in a row `HoldStream` |
| `park` | times as tight as the three assumptions allow | `XipSafe`, `EdgeOnTime`, `NoStaleAck`; `ParkEnds` |
| `cores` | all modes, 2 runs of up to 3 rows, ring 2, buffer 2 | what the file holds (`FileIsRun`), when flash is programmed or disconnected (`FlashIdle`, `XipHeld`), who may write (`WriterLock`), whose view is stale (`FatViewFresh`, `AttentionPending`), which press stops a hold (`StartPressNeverStops`) |
| `cores_live` | all modes, 2 runs of 1 row | `RunEnds`, `StopEndsHold` |
| `flash_while_capturing`, `abort_flushed` | ramps, 2 runs | two documented statements that the code violates, section 4 |
| `capture` | 2 lines, counter of 3, 7 counts, 2 starts, ring 3, batch 1 | `SharedTimebase`, `PickupCaughtUp`, `IntervalsExact` |
| `sweep` | 2 teeth, 3 speeds, lag 3, no faults | `SettledButTwo`, `SweepEnds` |
| `ramp` | speeds up and down, one fault anywhere | `AnglesTrue`, `Healed` |
| `sparks` | 1 cylinder and a tach, 2 edges a revolution, history of 3, queue of 2, batches of 2, a pause of 1 count | `RowTrue`, `DwellTrue`, `QueueMoves`, `TachPaired`; `NothingLost` |
| `schedules` | some 1500 files, good, bad and cut off | `ConfigIsFile`, `GridSwept`, `IntervalsEmittable`, `HoldNoOvershoot`, `HoldSettles`, `SchedulesEnd` |
| `volume` | 4 clusters, 2 result names, 4 events | `FilesKept`, `NoCrossLinks`, `VersionNeverStale`, `NeverOverwritten`; refines `SectorStore` |

Bounds, and why they are enough for the case each is about:

- `N = 4` slots let the ring be full, empty, wrapped, and each side's view lag by
  a whole ring; rows are compared only for equality, so two are enough to see one
  taken for another.
- `W = 3` lets the window fill, overwrite, wrap at another place than the ring, and
  be cleared with rows on their way.
- `RowsPerRun = 3` exceeds `RingCap = 2` and `BufCap = 2`: both overrun in one run
  and again in the next. `MaxRuns = 2` lets anything be left over from a run.
  Liveness is checked with one row, which still leaves a ring that is full when
  core 1 reports.
- `Wrap = 3`, `Horizon = 7`: two whole wraps, with edges on either side of each;
  `Runs = 2` for what survives a restart; `MaxBatch = 1` is the smallest output
  buffer and puts an exit of `drain` after every event.
- The wheel of 18 degrees has the kind of gaps of the baked one (10, 50, 170 degrees
  become 2, 4, 10), so the midpoint threshold tells the sync gap while a commanded speed
  is less than 7/4 and more than 7/10 of the emitted one. The schedules meet the
  hypotheses of the theorems, which `MCSyncAlign` has TLC evaluate (`HypothesesMet`):
  `Faster` doubles its speed in two steps, which is more than the threshold bears at
  once; of `UpAndDown` every two speeds may meet. That the sweep that ships, 100 to
  10000 rpm, meets them too is `ShippedSweepMeets`. `Turns` bounds revolutions: 5 are
  two more than a fault needs to heal; 60 are more than any sweep takes, so that
  `SweepEnds` is about the deadlines and not the bound.
- In `Sparks` a history of 3 edges with revolutions of 2 ages within two
  revolutions, a batch of 2 is smaller than what three lines can have unread, and
  one unread edge (`Lag`) on each still lets every order of reading and arriving
  happen. Three edges on the ignition line are charge, spark, charge or spark,
  charge, spark; one on the tach meets every place in the revolution. One edge of
  the ignition line was thrown away before the reducer began, so its counts are
  late throughout. `Horizon = 10` is four pickup edges at a distance of 2 counts and
  what follows from them.
- `Room = 37` tokens are a whole file of nine keys (36 or 37 tokens) and end inside
  or before the last line of a longer one; `MaxKeys = 10` is one more than the known
  keys, so that an unknown and a doubled key fit and an eleventh does not.
- The teeth of `Schedules` make `Ceiling` 8; with `Width = 32` the unsigned wrap and
  the ceiling are within reach of a few passes. `Exact = 8` makes floats of three
  bits: from 8 quanta (2 rpm) on, sums and products are rounded, and at the ceiling,
  which is 32 quanta, floats lie 4 apart, so that what a pass adds is kept, rounded
  or lost. `Ulps` are 8 doublings and `Infinity` is
  beyond all of them. `Passes` has 0, for two readings of the clock that agree.
- `MaxEvents = 4` (runs, host changes and power cuts together) covers a cut during
  the recovery from an earlier cut, a run after it, a deletion that frees a
  name in the middle, and one that is cut off by a run or by power with two events
  left to see what follows. Four clusters run out: CONFIG.INI, VERSION.TXT and two
  results.

Deadlock is checked for `HoldPath`, `Prober` and `ParkHandshake`, which never stop.
It is switched off where the model stops: at the end of `Horizon` and `Runs`
(Capture), at the end of `Horizon` (Sparks), when the sweep is done or `Turns` is
used up (SyncAlign), when a configuration was rejected or a schedule is over
(Schedules), when `MaxEvents` are used up (Volume).

Fairness, and what in the code justifies it:

- *Prober.* Core 0 never blocks: weak fairness of its straight line. A tick serves
  finitely many USB commands, so the end of `tud_task` comes (strong, because host
  commands interrupt it again and again). Core 1 runs unless it is held in the
  lockout, which comes and goes; its fairness is strong because each lockout
  takes its steps away for a while. The rows of a sweep come because its steps have
  deadlines. Nothing is assumed of host, thumb, probe or pickup.
- *ParkHandshake.* Both cores run, the alarm fires, time passes; core 1 may die.
- *SyncAlign.* The alarm interrupt fires and core 1 runs a busy loop; no fairness
  for the ignitor, and none for a tick of the ramp.
- *Schedules.* Core 1 runs a busy loop; none for the probe.

## 4. Statements of the repository that fail

Two runs expect a violation:

- `flash_while_capturing` (`NeverWhileCapturing`): "core0 NEVER writes flash while
  core1 is actively capturing" (`app/main.cpp:15-16`). After a lost sync core 0
  passes Error within a tick, drops the writer lock and serves a host write while
  core 1 is still in its final drain. Core 1 is held in RAM meanwhile (`XipHeld`
  still holds), so the capture is blind for the time, nothing worse.
- `abort_flushed` (`AbortNotFlushed`): "lost sync (run aborted; no file written)"
  (`docs/architecture.md:117`). Core 0 loads `lost_sync`, then `run_done`; core 1
  stores both in between; core 0 takes the run for finished and writes its file.

More such statements were met and are kept as definitions, each under "statements
that fail" at the end of its module. To reproduce one, add its name to the cfg
named here under INVARIANT or PROPERTY (with the change given):

| Definition | Cfg | What happens |
|---|---|---|
| `Prober!RunStartsClean` | `MCProber.cfg` | after a lost sync, rows of the aborted run are still in the ring when the next run begins ("clear stale flags so the next run starts clean", `app/main.cpp:450-452`) |
| `Prober!PollAlone` | `MCProber.cfg` | Ready looks at the button, which disconnects flash while core 1 still initialises after boot or finishes a run that lost sync, both from flash ("flash is unusable while CS is floated", `hal/gpio.cpp:45-46`); `FlashIdle` says that core 1 has no run in hand otherwise |
| `Prober!OnePressOneRun` | `MCProber.cfg` | Ready looks at the button's level: a press that stopped a hold and is still down when the flush is over starts a run ("until BOOTSEL is pressed", `docs/architecture.md:62-63`) |
| `Capture!RestartKeepsTimebase` | `MCCapture.cfg` | `start()` rewinds the counters but not the 64-bit extension, so lines may be a period apart from the second run on (`hal/capture.hpp:101-103`) |
| `Capture!WrapsAllCounted` | `MCCapture.cfg`, `LiveSlots = {0}` | a line that is quiet for a whole period (34 s) loses a wrap ("provably exact", `core/timebase.hpp:15-18`) |
| `Capture!PickupFirst` | `MCCapture.cfg`, `MaxBatch = 2` | a pickup edge that arrives while a later line is drained is handed out after a later spark (`app/core1_main.cpp:359-361`); sparks wait for their bracket and are unharmed, a tach edge is paired one revolution early |
| `Sparks!TachOwnTooth` | `MCSparks.cfg` | a tooth 0 that arrives after the pickup line was read, followed by a tach edge that is read in the same drain: the sample is taken against the tooth 0 before it, a revolution early (`app/core1_main.cpp:340-346`); `TachPaired` says that nothing worse happens |
| `Sparks!SharedTimebase` | `MCSparks.cfg` | the correction counts edges from the reducer's construction, the counter pauses from the capture's start on, so that every edge thrown away by `drain_stale()` leaves its line late by a pause, for the whole run ("puts all channels on ONE pause-free timebase", `core/skew.hpp:5-6`) |
| `SyncAlign!SettledFully` | `MCSyncSweep.cfg` | up to two of the settling revolutions are none (`docs/architecture.md:53-54`) |
| `SyncAlign!AnglesTrue`, `SyncAlign!Healed` | `MCSyncRamp.cfg`, `UpAndDown` <<5, 2>>, without `HypothesesMet` | the ramp that ships takes an ordinary gap for the sync gap, in its first revolution and without a fault ("stays correct even if the actual rpm drifts from commanded within a rev", `app/core1_main.cpp:227-228`), see below |
| `Schedules!GridSwept` | `MCSchedules.cfg`, steps 20 to 31 in `Sweeps` | a step near 2^32 wraps and the sweep goes down (`tests/test_run_modes.cpp:16`) |
| `Schedules!RatesPositive` | `MCSchedules.cfg` | a rate of `nan` is accepted (`app/core1_main.cpp:899`) |
| `Schedules!OversizeRefused` | `MCSchedules.cfg` | a file larger than the buffer is accepted when the cut falls inside the digits of the last value, or before the optional HOLD_RPM: the speed is another than the file says (`constants.hpp:141-143`) |
| `Schedules!HoldAlwaysSettles` | `MCSchedules.cfg` | an increment below half a unit in the last place is lost whole, pass after pass, and the hold sticks below its target ("fractional slew progress is never lost", `app/core1_main.cpp:901-902`); `HoldSettles` says when it does not |
| `Volume!AlwaysANewName` | `MCVolume.cfg` | with all numbers taken the last result is overwritten (`docs/architecture.md:166`) |
| `Volume!LinksSound` | `MCVolume.cfg` | a host that deletes a file by freeing its cluster first and then removing its entry, and is cut off in between by power or by a run that begins: the entry keeps a cluster that the next file takes, and nothing repairs it ("the two writers never interleave", `app/main.cpp:398-400`: the lock covers the run and the flush, not the several writes of one change by the host) |
| `Volume!ConfigServed` | `MCVolume.cfg` | a cut while the default is written leaves an empty CONFIG.INI for good (`app/main.cpp:229-231`) |

The ramp that ships (RAMP_UP from 100 rpm at 500 rpm/s, `default_config.ini:6-19`) is not
within the threshold's leniency at its low end. By 180 degrees of the first
revolution the commanded speed is 250 rpm and the threshold, which follows it at
once, about 73 ms; the ordinary gap of 50 degrees at the emitted 100 rpm takes 83 ms
and is taken for the sync gap. The edges after it get wrong indices, and rows wrong angles,
until the next true sync gap, and again in each revolution for as long as the
commanded speed runs ahead of the emitted one by a factor of 2.2: at 500 rpm/s, up
to some 160 rpm of emitted speed. On the way down the sync gap itself falls below
the threshold at factor 1.55, below some 350 rpm at that rate; there edges go without an
index and rows are missing, not wrong. `AnglesTrue` and `Healed` say what holds above.

One more has no definition: the flush ignores whether its writes succeed and
goes on to Done (`app/main.cpp:105`, `422`), where the document says "flush
complete" (`docs/architecture.md:115`).

The properties that are checked state what does hold around these:
`FileIsRun`, `FlashIdle` and `StartPressNeverStops` until a run has lost sync,
`SharedTimebase` in the first run, `IntervalsExact` on lines with an edge per period,
`RowTrue` up to the constant lateness of a line, `TachPaired` but for a tooth 0 that
came since the drain began, `ConfigIsFile` of files that fit, `AnglesTrue` until a
fault on the line and, like `Healed`, within the threshold's leniency, `HoldSettles` while the
floats can tell an increment, `NeverOverwritten` while a name is left, and all
of `FilesKept`, `NoCrossLinks`, `VersionNeverStale` and `NeverOverwritten` until a host was cut
off between freeing a cluster and removing its entry.

## 5. What a property is paired with

Each property of a passing run has in `PROJECT.json` a mutated form of one
definition under which TLC finds it violated by the same cfg: a guard dropped
(`FlushUnlocked`), a swapped order (`BracketedAfter`), a missing reset
(`BeginKeepsRows`), a level for an edge (`PollLevel`), a deadline left out
(`EndStepFull`).

## 6. Proofs

All theorems hold for every value of the constants that meets the ASSUMEs of the
module; further hypotheses are named in the statement.

- **`HoldProofs`** (any N >= 2, any window size, any rows). *The ring.* `IInv` adds to
  the types the circular order head <= view of head <= ... of the four indices
  (`IndexOrder`) and what each side knows inside a call (`InsideCall`: a producer past
  its test has room, a consumer past its test has a row, an answer of `empty` not yet
  used is right). The order alone is not inductive: publishing an index keeps it only
  because the test that preceded it still counts. Distances are handled by lemmas
  without the modulus. `ImplementsFifo` maps the ring to the window from `First` to
  `tail`. *The window.* Index and count in step; a visit sees the last rows since the
  last clear. *Both, with core 0 between them.* The rows on their way are the one in
  core 0's hand, if any, followed by those in the ring. `PathInv` says that they are
  rows that were pushed, which needs more than the types: a slot of the ring may be
  blank, and only the order of the indices keeps it out of `Queue`. Publishing the
  consumer's index takes a row out of the ring and puts it into the hand, so that
  nothing is seen to happen; `PathIsStream` follows: what core 1 sent reaches the
  window once and in order.
- **`ParkProofs`** (any times with PollMax < Backstop, PollMax + EntryMax + 2 Lag <
  Period, ReadTime <= Guard). The flags do not make the handshake safe; time does.
  `Timing` bounds, for each place core 0 can be at, how long ago the last poll
  began; `Urgent` that a place which must be left is left in time; `Together` that
  core 0 does not leave a spin under a standing request. The last two assume core 1
  alive, which is why they are conditional on `~hung`. With the code's numbers:
  100 ms period, 400 us wait, 500 us guard, a backstop of tens of ms.
- **`ProberProofs`** (any modes, sizes and number of runs). `CommonInv` (types,
  which place belongs to which state, lock, job count, `XipHeld`, `AttentionPending`)
  is inductive by itself. `QuietInv` is what holds until a run loses sync: where
  core 1 can be for each state of core 0 and which flags that sets (`HandoffInv`);
  that rows in the buffer, followed by the ring, followed by what is still to come,
  are those sent (`RowsInv`), from which `FileIsRun` follows when the ring is empty;
  and what the button history knows of the press (`PressInv`). Without the split
  nothing about the file could be proved, because a lost sync does break it.
- **`CaptureProofs`** (any number of lines, width, ring, batch). `ChainInv`: on each
  line the word decoded last, the unread words and the last edge follow one
  another, on a live line by less than a period; with the lemma that two such times
  differ by their counts plus a period exactly when the count goes back, `Decode`
  is exact. `PickupInv` and `FirstRunInv` do the same for `PickupCaughtUp` and, if all
  lines are live, `SharedTimebase`.
- **`SyncProofs`** (any wheel, schedule, lag and any number of faults). `Chain`:
  captured edges between which nothing was spurious or missed are successive edges
  of the wheel, as far apart as the pattern puts them. `Ordered`: core 1 is behind the
  emitter and the emitter behind the schedule, so that an edge is always judged at
  a step that is not before its own. What the threshold must bear is stated in these
  terms: `Tracks(D)`, that it tells the sync gap while the two are no more than D steps apart,
  and `Within(D)`, that they are no more than that. `HealedHolds` and `AnglesTrueHolds` are
  about every run that stays `Within(D)`; for a schedule that is borne as a whole, such as
  TLC's ramp, that is every run (`HealedOnAll`, `AnglesTrueOnAll`). For the baked geometry
  the threshold bears a factor of 2.2 upwards and 1.55 downwards between the
  commanded speed and the emitted one, at one moment and not over the run. The
  ramps that ship stay within it above some 160 rpm on the way up and 350 on the way
  down, and not below (section 4).
  A *sweep* needs no condition on the run. `SweepHypotheses` asks only that the
  threshold bears neighbouring steps (`Tracks(1)`) and that a step lasts longer than
  the emitter takes to adopt its speed (`TakenInTime`); `PaceInv` then shows that core 1 is
  never more than a step ahead (`Within(1)` is its first conjunct), because a step ends
  with its samples, which are of its own speed, or at a deadline, which comes later than
  the last edge of the speed before. `SweepAnglesTrue` and `SettledHolds` follow. The sweep
  that ships meets the hypotheses: its largest step, 100 to 200 rpm, is a factor of
  2, and the 10000 rpm at its other end do not matter. `AgeInv`, for `SettledHolds`, says that
  an edge at which r revolutions of the step have been counted, r >= 2, was emitted
  at the speed of the step and at least r - 2 revolutions after it was taken up. It
  must say so of each edge in the queue and of the one that is due as well, with
  the tooth zeros still to be counted (`RevAt`, `RevDue`), which is why core 1 has to be
  less than a revolution behind (`MaxLag + 1 < E`): it is a busy loop that takes
  microseconds, and a revolution takes milliseconds. `Settle >= 2` is needed: with a
  settling of one revolution, which the checks accept (`core/config.cpp:136`), a sample may
  be of the speed before, and TLC finds it (`SettledButTwo` under `MCSyncSweep.cfg` with
  `Settle = 1`, without `HypothesesMet`).
- **`SparksProofs`** (any number of cylinders, any sizes, pauses and numbers of
  edges). `LineInv` chains the edges of a line, read and unread: each is later than
  the one before by more than the pause, and a raw count lies behind the true one
  by a pause per edge before it, which is what `skew.hpp` adds back; a charge is
  pending exactly when the line's last edge read began one. `HistoryInv` orders the
  pickup edges reduced, and says that any time between the ends of the history
  lies between two neighbours: kept up edge by edge, because finding a neighbour in
  a sequence needs induction over it, which is out of reach. `SparkInv` adds that
  queued sparks and the row in hand are true, `DrainInv` and `SampleInv` what may
  have arrived since the drain began, `QueueInv` that sparks already looked at stay
  for a reason. `NothingLost` remains with TLC: whether a spark gets its angle before
  its edges leave the history depends on how far the lines may be behind one
  another, which sizes alone do not bound.
- **`SchedulesProofs`** (any files, any number width, any teeth that ascend, any
  resolution of floats). *Floats.* Rounding keeps multiples of the distance, moves
  nothing past a float, and is the identity on floats (`AboveFloat`, `BelowFloat`,
  `RoundedIsFloat`): so a hold that is clamped to a float never passes it, which is
  `NoOvershoot`. *The reader.* `Kept` says of one key what the pairs stored so far
  have to do with the lines before `pos`; it is kept key by key, because what all
  lines amount to needs induction over the file. From it, `ConfigFromFile`: what is
  loaded is what the file says, if the file fits. *The schedules.* `CoreInv` ties the
  phase to the configuration that was checked; `GridIsSwept` adds that the speeds so
  far are the grid's points up to the one in progress, and needs end + step < 2^32,
  which the checks do not enforce (section 4). `EveryIntervalEmittable` needs a probe
  that writes no target above the ceiling, which nothing enforces either. The
  assumptions are those of real floats and of the baked pattern: distances are
  doublings of one quantum, the ceiling is exact as a float, the teeth ascend.
- **`VolumeProofs`** (any number of blocks of any size, any names, clusters and texts).
  *Sectors.* Until the block is programmed RAM holds what flash is about to lose, so
  that erasing and programming a block is, for a reader who sees the RAM copy, one
  sector changing (`ImplementsStore`, and `VolumeOnStore` for `Volume`). *Files.* A
  state of flash is good for the files that are kept if each has its entry, its cluster
  and its text, no two share a cluster, and it is formatted or bare. `OnCourse`, the
  core of `VolumeInv`, says that the writes still to be made lead from what a reader
  sees through good states only, to one in which the new file is there: the old entry
  emptied and its cluster freed, then the text, the table, the entry. So erasing takes
  one step along the course, and a cut, or a run that begins between two of the host's
  writes, drops the rest of it, with what was in the erased block. While a host frees
  before it unlinks, good is less: files read back, but links need not be sound
  (`LooseFor`), and if it is cut off there only `TypesInv` is left, that sectors hold
  what FatFs can read. So the invariant is `TypesInv`, and `VolumeInv` as long as
  `~torn`. Partition table and boot record are written only while there is no partition
  table (`Allowed`), so their blocks are never erased again. Assumed of the layout
  (`LayoutAssumption`): partition table and boot record each in a block without tables
  or data, which is where `f_mkfs` puts them (sectors 0 and 63); FAT, directory and data
  may share blocks.

Only model-checked: liveness (`ParkEnds`, `RunEnds`, `StopEndsHold`, `SweepEnds`,
`HoldSettles`, `SchedulesEnd`), which is out of the prover's reach, and `NothingLost`.
`HealedHolds` and `AnglesTrueHolds` are conditional on runs that stay `Within(D)`; whether a ramp
does depends on its rate and on how promptly core 1 runs, which is arithmetic done in
section 4 and not in a proof.

Only proved: the type invariants, `FlashTypeOK` and `BlockInRam` and, of the ring,
`IndexOrder` and `EmptyAnswerHolds`. They hold for all sizes, so the runs do not repeat
them; add the name to the cfg to see it checked.

## 7. Plan

Order of the work: first what two cores can do to each other and to the file
(`Spsc`, `ParkHandshake`, `Prober`), then the measurement (`Capture`, `SyncAlign`,
`Sparks`), what is commanded (`ConfigText`, `Schedules`) and where a hold's rows go
(`RecentRing`, `HoldPath`), then the volume (`FlashSectors`, `Volume`). All of these
are in place. Next:

1. *Model.* The deadlines of a step in 32-bit arithmetic
   (`app/core1_main.cpp:543-547`). Results of more than one cluster in `Volume`.
2. *Prove.* `NothingLost`, under a bound on how far the lines may be behind one another.
   `GridSwept` for a step that wraps: which speeds are swept then.
3. *Compose.* `Prober` over `Spsc` in place of the sequence, by instance.

## 8. Not modelled

- `core/stats`, interpolation and folding of angles: arithmetic without control.
- `core/csv` and the writing half of `core/fileio`: formatting; which rows reach a file
  is in `Prober`.
- The deadlines of a step as sums of 32-bit numbers (`app/core1_main.cpp:543-547`):
  with a settling near 2^32 revolutions, which the checks of the configuration
  accept, they wrap, which makes a deadline early; `SweepEnds` does not depend on how long it is.
- USB descriptors, SCSI inquiry and capacity, CDC traffic, LED patterns, pins.
- Power cuts in `Prober`: RAM state is lost and the boot starts over; what they do to
  flash is in `Volume`.
- The XIP cache: a core 1 that waits for a request runs a short loop from flash, which
  the cache holds while core 0 disconnects flash to look at the button in Ready
  (`app/core1_main.cpp:1057-1085`). That it has nothing else to do then is `FlashIdle`.
- A capture ring that is lapped: 256 words hold 320 ms at 800 edges a second and
  core 1 is not held while it captures (`FlashIdle`); lost data would leave no trace
  in the program for a property to be about.
- The tests, the build and the hardware-in-the-loop programs; intended behaviour is
  quoted from them and from `docs/`.
