------------------------------ MODULE Capture ------------------------------
(***************************************************************************)
(* hal/capture.cpp, hal/capture.pio, core/capture_decode.cpp and           *)
(* core/timebase.hpp: the edges of four lines are timestamped by state     *)
(* machines that share one counter, copied by DMA into a ring per line and *)
(* decoded by core 1's drain() into 64-bit times, line after line.         *)
(*                                                                         *)
(* A word carries the counter modulo Wrap and the level; at is the true    *)
(* count since start(), which the program does not see.  The ring of a     *)
(* line is the sequence of its unread words.  It is not lapped: that the   *)
(* ring is deep enough for the edge rate is the assumption of capture.hpp  *)
(* (kCaptureRingLen), and a guard here.  The fixed pause of the counter    *)
(* per edge is left out: core/skew.hpp adds it back before any comparison. *)
(***************************************************************************)
EXTENDS Integers, Sequences

CONSTANTS
    NSlots,     \* channels configured; slot 0 is the pickup
    Wrap,       \* modulus of the counter field of a word (2^31)
    RingLen,    \* kCaptureRingLen
    MaxBatch,   \* kEventsPerDrain
    LiveSlots,  \* lines that never stay quiet for a whole period of the counter
    Runs,       \* bound: how often capture is started
    Horizon     \* bound: counts per run

Slots == 0 .. NSlots - 1
Pickup == 0
None == -1

ASSUME SizesAssumption ==
    /\ NSlots \in Nat \ {0} /\ Wrap \in Nat \ {0}
    /\ RingLen \in Nat \ {0, 1} /\ MaxBatch \in Nat \ {0}
    /\ Runs \in Nat /\ Horizon \in Nat
ASSUME LiveAssumption == LiveSlots \subseteq Slots

VARIABLES
    running,    \* the state machines are enabled
    runs,       \* how often start() was called
    clock,      \* true count since start()
    level,      \* level of each line
    last,       \* true count of each line's last captured edge
    ring,       \* unread words of each line, oldest first
    tb,         \* CaptureChannel::tb of each line
    seen,       \* true count of the word decoded last in this run, or None
    pos,        \* slot drain() works on, NSlots when core 1 is outside drain()
    todo,       \* words left of those that were there when write_addr was read
    n,          \* events in drain()'s output buffer
    begun       \* true count when drain() was called

hwVars == <<running, runs, level, last>>
drainVars == <<pos, todo, n, begun>>
vars == <<hwVars, clock, ring, tb, seen, drainVars>>

-----------------------------------------------------------------------------
(* core::Timebase64 *)

Fresh == [has_prev |-> FALSE, prev |-> 0, high |-> 0]

(* update() that does not mask the level bit off. *)
UpdateUnmasked(b, w) ==
    LET raw == w.ts + (IF w.rising THEN Wrap ELSE 0) IN
    [has_prev |-> TRUE, prev |-> raw,
     high |-> b.high + (IF b.has_prev /\ raw < b.prev THEN 1 ELSE 0)]

Update(b, w) ==
    [has_prev |-> TRUE, prev |-> w.ts,
     high |-> b.high + (IF b.has_prev /\ w.ts < b.prev THEN 1 ELSE 0)]

NowBy32(b) == 2 * Wrap * b.high + b.prev      \* high_ << 32, whatever the width
Now(b) == Wrap * b.high + b.prev

(* The word the state machine of a line pushes at this instant. *)
Word(up) == [ts |-> clock % Wrap, rising |-> up, at |-> clock]
Words == [ts : 0 .. Wrap - 1, rising : BOOLEAN, at : 0 .. Horizon]

TypeOK ==
    /\ running \in BOOLEAN /\ runs \in 0 .. Runs /\ clock \in 0 .. Horizon
    /\ level \in [Slots -> BOOLEAN] /\ last \in [Slots -> 0 .. Horizon]
    /\ ring \in [Slots -> Seq(Words)]
    /\ \A s \in Slots : Len(ring[s]) < RingLen
    /\ tb \in [Slots -> [has_prev : BOOLEAN, prev : 0 .. Wrap - 1, high : Nat]]
    /\ seen \in [Slots -> {None} \union (0 .. Horizon)]
    /\ pos \in 0 .. NSlots /\ todo \in Nat /\ n \in 0 .. MaxBatch
    /\ begun \in 0 .. Horizon
    /\ pos \in Slots => running /\ todo <= Len(ring[pos])

Init ==
    /\ running = FALSE /\ runs = 0 /\ clock = 0
    /\ level \in [Slots -> BOOLEAN] /\ last = [s \in Slots |-> 0]
    /\ ring = [s \in Slots |-> <<>>]
    /\ tb = [s \in Slots |-> Fresh]
    /\ seen = [s \in Slots |-> None]
    /\ pos = NSlots /\ todo = 0 /\ n = 0 /\ begun = 0

-----------------------------------------------------------------------------
(* start(): every state machine begins in wait_for_high with its counter   *)
(* at 0, so a line that is high pushes a rising edge at once.  The decode  *)
(* state tb is left as the previous run left it.                           *)
Start ==
    /\ ~running /\ runs < Runs
    /\ running' = TRUE /\ runs' = runs + 1 /\ clock' = 0
    /\ level' \in [Slots -> BOOLEAN]
    /\ last' = [s \in Slots |-> 0]
    /\ ring' = [s \in Slots |-> IF level'[s]
                    THEN <<[ts |-> 0, rising |-> TRUE, at |-> 0]>> ELSE <<>>]
    /\ seen' = [s \in Slots |-> None]
    /\ UNCHANGED <<tb, drainVars>>

Stop ==
    /\ running /\ pos = NSlots
    /\ running' = FALSE
    /\ UNCHANGED <<runs, level, last, clock, ring, tb, seen, drainVars>>

(* A live line has an edge within each period of the counter. *)
Tick ==
    /\ running /\ clock < Horizon
    /\ \A s \in LiveSlots : clock + 1 - last[s] < Wrap
    /\ clock' = clock + 1
    /\ UNCHANGED <<hwVars, ring, tb, seen, drainVars>>

Edge(s) ==
    /\ running /\ last[s] < clock
    /\ Len(ring[s]) + 1 < RingLen
    /\ level' = [level EXCEPT ![s] = ~@]
    /\ last' = [last EXCEPT ![s] = clock]
    /\ ring' = [ring EXCEPT ![s] = Append(@, Word(~level[s]))]
    /\ UNCHANGED <<running, runs, clock, tb, seen, drainVars>>

-----------------------------------------------------------------------------
(* drain(): the write address of a slot is read when its turn comes. *)

Drain ==
    /\ running /\ pos = NSlots
    /\ pos' = 0 /\ todo' = Len(ring[0]) /\ n' = 0 /\ begun' = clock
    /\ UNCHANGED <<hwVars, clock, ring, tb, seen>>

Decode ==
    /\ pos < NSlots /\ todo > 0 /\ n < MaxBatch
    /\ LET w == Head(ring[pos]) IN
       /\ tb' = [tb EXCEPT ![pos] = Update(@, w)]
       /\ seen' = [seen EXCEPT ![pos] = w.at]
    /\ ring' = [ring EXCEPT ![pos] = Tail(@)]
    /\ todo' = todo - 1 /\ n' = n + 1
    /\ UNCHANGED <<hwVars, clock, pos, begun>>

(* The limit is per slot instead of per call. *)
NextSlotAnew ==
    /\ pos < NSlots /\ (todo = 0 \/ n = MaxBatch)
    /\ pos' = pos + 1 /\ n' = 0
    /\ todo' = IF pos + 1 < NSlots THEN Len(ring[pos + 1]) ELSE 0
    /\ UNCHANGED <<hwVars, clock, ring, tb, seen, begun>>

NextSlot ==
    /\ pos < NSlots /\ (todo = 0 \/ n = MaxBatch)
    /\ IF pos + 1 < NSlots /\ n < MaxBatch
       THEN pos' = pos + 1 /\ todo' = Len(ring[pos + 1])
       ELSE pos' = NSlots /\ todo' = 0
    /\ UNCHANGED <<hwVars, clock, ring, tb, seen, n, begun>>

Next == Start \/ Stop \/ Tick \/ (\E s \in Slots : Edge(s)) \/ Drain \/ Decode \/ NextSlot

Spec == Init /\ [][Next]_vars

-----------------------------------------------------------------------------
(* By how much the decoded time of a line differs from the true count. *)
Off(s) == Now(tb[s]) - seen[s]

(* On a line that is never quiet for a whole counter period the decoded    *)
(* times keep their distances exactly, over every wrap and in every run:   *)
(* what Timebase64 (timebase.hpp:11-18) is there for.                      *)
IntervalsExact ==
    [][\A s \in LiveSlots : seen[s] # None /\ seen'[s] # None => Off(s)' = Off(s)]_vars

(* Times of different lines can be compared: they are off by the same      *)
(* amount.  bracket_pk compares a spark's time with the pickup's on the    *)
(* strength of it.  It holds in the first run after power-up only.         *)
SharedOffset ==
    \A s, t \in Slots : seen[s] # None /\ seen[t] # None => Off(s) = Off(t)
SharedTimebase == runs <= 1 => SharedOffset

(* While drain() works on a later slot it has decoded every pickup edge    *)
(* that was there when it was called, even when the output buffer is       *)
(* small (core1_main.cpp:357-361).                                         *)
PickupCaughtUp ==
    pos \in Slots \ {Pickup} =>
        \A i \in DOMAIN ring[Pickup] : ring[Pickup][i].at >= begun

-----------------------------------------------------------------------------
(* Three statements of the code's own comments that fail.                  *)

(* "Enable ALL configured SMs in one synchronized batch so their           *)
(* free-running counters are phase-locked into a single shared timebase"   *)
(* (capture.hpp:101-103).  The counters are, in every run; the decode      *)
(* state that outlives the first is not.                                   *)
RestartKeepsTimebase == SharedOffset

(* timebase.hpp:15-18 argues that wrap detection is "provably exact" since *)
(* the ring is drained every few microseconds.  But update() runs per edge *)
(* of its own line, not per drain: a line outside LiveSlots loses wraps.   *)
WrapsAllCounted ==
    [][\A s \in Slots : seen[s] # None /\ seen'[s] # None => Off(s)' = Off(s)]_vars

(* "the pickup history is fully up to date before any spark in the same    *)
(* batch is examined" (core1_main.cpp:357-361): an edge of a later slot    *)
(* can still be handed out before a pickup edge that happened earlier.     *)
PickupFirst ==
    pos \in Slots \ {Pickup} /\ todo > 0 /\ n < MaxBatch =>
        \A i \in DOMAIN ring[Pickup] : ring[Pickup][i].at >= Head(ring[pos]).at
=============================================================================
