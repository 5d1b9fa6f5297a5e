------------------------------- MODULE Sparks -------------------------------
(***************************************************************************)
(* The reducers of app/core1_main.cpp with core/skew.hpp, core/angle.hpp   *)
(* and core/tach.hpp: core 1 drains the captured edges of the pickup, of   *)
(* the ignition lines and of the tach, pairs each spark with its charge,   *)
(* queues it until the pickup edge after it has been captured, and turns   *)
(* it into a row of a ramp or a sample of a step.                          *)
(*                                                                         *)
(* An edge is reduced in the step that reads it, and the pending sparks    *)
(* one by one after the batch: neither can be told from reading the batch  *)
(* first, as no line sees the reducer.  The write address of a line is     *)
(* read when its turn comes, and edges go on arriving between the turns.   *)
(*                                                                         *)
(* The pattern runs at one speed, an edge every Gap counts.  Whether the   *)
(* gap before a tooth 0 is taken for the long one is left open: what the   *)
(* alignment makes of changing speeds and of faults is in SyncAlign.       *)
(***************************************************************************)
EXTENDS Integers, Sequences, FiniteSetsExt

CONSTANTS
    CylCount,   \* cyl_count
    E,          \* edges_per_rev_
    PkCap,      \* kPkRingCap
    PendCap,    \* kMaxPending
    BatchCap,   \* kEventsPerDrain
    Pause,      \* kCounterPauseCountsPerEdge
    Settle,     \* settle_revs_
    Want,       \* want_
    Gap,        \* counts from one pickup edge to the next
    Lag,        \* edges a line has unread at most
    Stale,      \* edges of each line that drain_stale() threw away
    Start,      \* count when it had done so and the reducer began
    Most,       \* bound: edges of each line but the pickup's
    Horizon     \* bound: counts of a run

Pickup == 0
Ign == 1 .. CylCount
Tach == CylCount + 1
Lines == 0 .. Tach
None == -1

ASSUME SizesAssumption ==
    /\ {CylCount, PkCap, PendCap, BatchCap, Want, Lag} \subseteq Nat \ {0}
    /\ E \in Nat \ {0, 1} /\ Pause \in Nat /\ Gap \in Nat /\ Gap > Pause
    /\ {Settle, Horizon} \subseteq Nat
    /\ {Stale, Most} \subseteq [Lines \ {Pickup} -> Nat]
ASSUME StartAssumption ==
    Start \in Nat /\ \A l \in Lines \ {Pickup} : Pause * Stale[l] <= Start
ASSUME HistoryAssumption == PkCap > Lag + 1     \* 64 edges are eight revolutions

VARIABLES
    ramping,    \* RampReducer, else Reducer
    now,        \* true count since Capture::start()
    up,         \* level of each line
    last,       \* count of each line's last edge, or None
    made,       \* edges of each line
    line,       \* unread edges of each line, oldest first
    phase,      \* "idle", "drain" or "resolve"
    pos,        \* line read, or whose pending sparks are looked at
    todo,       \* edges left of those read, or sparks left to look at
    room,       \* events that still fit into evs
    begun,      \* count when the last drain() was called, None once it has returned
    edges,      \* ch_edges_
    pk,         \* the pickup edges reduced; the last PkCap are in the ring pk_
    synced, rev, \* synced_, sync_rev_
    fall,       \* DwellPairer: fall_t_ of each line, None unless pending_
    pend,       \* pend_ of each cylinder
    step_rev0, got,
    latency,    \* the latency sample taken from the edge reduced last, or None
    row         \* the spark resolved last, or NoRow

lineVars == <<up, last, made, line>>
batchVars == <<phase, pos, todo, room, begun>>
wheelVars == <<pk, synced, rev>>
stepVars == <<step_rev0, got>>
vars == <<ramping, now, lineVars, batchVars, edges, wheelVars, fall, pend, stepVars,
          latency, row>>

NoRow == [at |-> None]
NoSample == [at |-> None]
SmallerOf(a, b) == IF a <= b THEN a ELSE b

-----------------------------------------------------------------------------
(* What the lines do.  A line stands still for Pause counts while its      *)
(* state machine handles an edge, so its own count falls behind.           *)

Thrown(l) == IF l = Pickup THEN 0 ELSE Stale[l]

Init ==
    /\ ramping \in BOOLEAN
    /\ now = Start /\ made = [l \in Lines |-> Thrown(l)]
    /\ up \in [Lines -> BOOLEAN] /\ ~up[Pickup]
    /\ last = [l \in Lines |-> None] /\ line = [l \in Lines |-> <<>>]
    /\ phase = "idle" /\ pos = 0 /\ todo = 0 /\ room = 0 /\ begun = None
    /\ edges = [l \in Lines |-> 0]
    /\ pk = <<>> /\ synced = FALSE /\ rev = 0
    /\ fall = [l \in Ign |-> None] /\ pend = [l \in Ign |-> <<>>]
    /\ step_rev0 = 0 /\ got = [l \in Ign |-> 0]
    /\ latency = NoSample /\ row = NoRow

Quiet == phase # "resolve" /\ todo = 0
Due == now = (IF last[Pickup] = None THEN Start + 1 ELSE last[Pickup] + Gap)

Tick ==
    /\ Quiet /\ now < Horizon
    /\ ~Due
    /\ now' = now + 1
    /\ UNCHANGED <<ramping, lineVars, batchVars, edges, wheelVars, fall, pend, stepVars,
                   latency, row>>

Edge(l) ==
    /\ Quiet /\ Len(line[l]) < Lag
    /\ IF l = Pickup THEN Due
       ELSE made[l] < Stale[l] + Most[l] /\ (last[l] = None \/ now - last[l] > Pause)
    /\ \E long \in BOOLEAN :
         /\ long => l = Pickup /\ made[l] % E = 0
         /\ line' = [line EXCEPT ![l] = Append(@,
                        [raw |-> now - Pause * made[l], at |-> now, rising |-> ~up[l],
                         long |-> long, before |-> last[l]])]
    /\ up' = [up EXCEPT ![l] = ~@]
    /\ last' = [last EXCEPT ![l] = now] /\ made' = [made EXCEPT ![l] = @ + 1]
    /\ UNCHANGED <<ramping, now, batchVars, edges, wheelVars, fall, pend, stepVars,
                   latency, row>>

-----------------------------------------------------------------------------
(* Capture::drain(): line after line, as long as there is room. *)

Turn(l, free) ==
    /\ pos' = l /\ todo' = SmallerOf(Len(line[l]), free)
    /\ room' = free - SmallerOf(Len(line[l]), free)

Drain ==
    /\ phase = "idle"
    /\ phase' = "drain" /\ begun' = now /\ Turn(Pickup, BatchCap)
    /\ UNCHANGED <<ramping, now, lineVars, edges, wheelVars, fall, pend, stepVars,
                   latency, row>>

(* An empty batch is not reduced. *)
NextLine ==
    /\ phase = "drain" /\ todo = 0
    /\ IF pos < Tach /\ room > 0 THEN Turn(pos + 1, room) /\ UNCHANGED phase
       ELSE IF room = BatchCap THEN phase' = "idle" /\ pos' = 0 /\ room' = 0 /\ UNCHANGED todo
       ELSE phase' = "resolve" /\ pos' = 1 /\ todo' = Len(pend[1]) /\ room' = 0
    /\ begun' = (IF phase' = "drain" THEN begun ELSE None)
    /\ latency' = NoSample
    /\ UNCHANGED <<ramping, now, lineVars, edges, wheelVars, fall, pend, stepVars,
                   row>>

(* skew_corrected_ticks, for the edge a line hands out next. *)
Uncorrected(l) == Head(line[l]).raw
Corrected(l) == Head(line[l]).raw + Pause * edges[l]

Read(l) ==
    /\ phase = "drain" /\ pos = l /\ todo > 0
    /\ line' = [line EXCEPT ![l] = Tail(@)] /\ todo' = todo - 1
    /\ edges' = [edges EXCEPT ![l] = @ + 1]
    /\ UNCHANGED <<ramping, now, up, last, made, phase, pos, room, begun, stepVars, row>>

(* The sync gap makes the edge after it tooth 0; other edges count on. *)
IsSync == pk # <<>> /\ Head(line[Pickup]).long
Intra ==
    IF IsSync THEN 1
    ELSE IF pk # <<>> /\ pk[Len(pk)].intra \in 1 .. E - 1 THEN pk[Len(pk)].intra + 1
    ELSE None

ReadPickup ==
    /\ Read(Pickup)
    /\ rev' = (IF IsSync /\ synced THEN rev + 1 ELSE rev) /\ synced' = (synced \/ IsSync)
    /\ pk' = Append(pk, [t |-> Corrected(Pickup), at |-> Head(line[Pickup]).at,
                         rising |-> Head(line[Pickup]).rising, intra |-> Intra, rev |-> rev'])
    /\ UNCHANGED <<fall, pend, latency>>

(* DwellPairer::on_edge and the queue of the cylinder. *)
DwellOf(l) == IF fall[l] = None THEN None ELSE Corrected(l) - fall[l]

ReadFall(l) ==
    /\ Read(l) /\ ~Head(line[l]).rising
    /\ fall' = [fall EXCEPT ![l] = Corrected(l)]
    /\ UNCHANGED <<wheelVars, pend, latency>>

ReadSpark(l) ==
    /\ Read(l) /\ Head(line[l]).rising
    /\ fall' = [fall EXCEPT ![l] = None]
    /\ pend' = IF Len(pend[l]) < PendCap
               THEN [pend EXCEPT ![l] = Append(@,
                        [t |-> Corrected(l), dwell |-> DwellOf(l), at |-> Head(line[l]).at,
                         before |-> Head(line[l]).before])]
               ELSE pend
    /\ UNCHANGED <<wheelVars, latency>>

(* process_tach_edge and TachDiag::on_rising, the latency sample. *)
Tooth0s == {k \in DOMAIN pk : pk[k].intra = 1 /\ pk[k].rising}
LastTooth0 == Max(Tooth0s)
PairsAny == Tooth0s # {}                     \* tach >= tooth0 is left out
Pairs == Tooth0s # {} /\ Corrected(Tach) >= pk[LastTooth0].t

ReadTach ==
    /\ Read(Tach)
    /\ latency' = IF ~ramping /\ Head(line[Tach]).rising /\ Pairs
                  THEN [at |-> Head(line[Tach]).at, t |-> Corrected(Tach), tooth |-> LastTooth0]
                  ELSE NoSample
    /\ UNCHANGED <<wheelVars, fall, pend>>

-----------------------------------------------------------------------------
(* resolve_pending and resolve_ramp: each pending spark of a cylinder is   *)
(* looked at once; those that stay keep their order.                       *)

Oldest == Len(pk) - SmallerOf(Len(pk), PkCap) + 1
Around(s) == {k \in Oldest .. Len(pk) - 1 : pk[k].t <= s.t /\ s.t < pk[k + 1].t}
Bracket(s) == Min(Around(s))
HasAngle(k) == pk[k].intra # None /\ pk[k + 1].intra # None
Resolves(s) == Around(s) # {} /\ HasAngle(Bracket(s))

Forgets(s) == FALSE                          \* a spark is never given up
GivesUp(s) == Len(pk) >= 2                   \* s.t < oldest_t is left out
AgedOut(s) == Len(pk) >= 2 /\ s.t < pk[Oldest].t

Counts(l, k) == ramping \/ (pk[k].rev >= step_rev0 + Settle /\ got[l] < Want)

LookAt(l) ==
    /\ phase = "resolve" /\ pos = l /\ todo > 0
    /\ todo' = todo - 1
    /\ UNCHANGED <<ramping, now, lineVars, phase, pos, room, begun, edges, wheelVars,
                   fall, step_rev0, latency>>

Resolve(l) ==
    LET s == Head(pend[l])
        k == Bracket(s) IN
    /\ LookAt(l) /\ Resolves(s)
    /\ pend' = [pend EXCEPT ![l] = Tail(@)]
    /\ got' = IF ramping \/ ~Counts(l, k) THEN got ELSE [got EXCEPT ![l] = @ + 1]
    /\ row' = [at |-> s.at, cyl |-> l, dwell |-> s.dwell, before |-> s.before, edge |-> k,
               counts |-> Counts(l, k)]

Drop(l) ==
    /\ LookAt(l) /\ ~Resolves(Head(pend[l])) /\ AgedOut(Head(pend[l]))
    /\ pend' = [pend EXCEPT ![l] = Tail(@)]
    /\ row' = NoRow /\ UNCHANGED got

Keep(l) ==
    /\ LookAt(l) /\ ~Resolves(Head(pend[l])) /\ ~AgedOut(Head(pend[l]))
    /\ pend' = [pend EXCEPT ![l] = Append(Tail(@), Head(@))]
    /\ row' = NoRow /\ UNCHANGED got

NextCylinder ==
    /\ phase = "resolve" /\ todo = 0
    /\ IF pos < CylCount
       THEN pos' = pos + 1 /\ todo' = Len(pend[pos + 1]) /\ UNCHANGED phase
       ELSE phase' = "idle" /\ pos' = 0 /\ UNCHANGED todo
    /\ row' = NoRow
    /\ UNCHANGED <<ramping, now, lineVars, room, begun, edges, wheelVars, fall, pend,
                   stepVars, latency>>

(* begin_step, after the rows of the step before were reduced.  Neither    *)
(* the pickup history nor the pairing of charges starts anew.              *)
BeginStep ==
    /\ phase = "idle" /\ ~ramping
    /\ got' = [l \in Ign |-> 0] /\ pend' = [l \in Ign |-> <<>>] /\ step_rev0' = rev
    /\ UNCHANGED <<ramping, now, lineVars, batchVars, edges, wheelVars, fall, latency,
                   row>>

Next ==
    \/ Tick \/ (\E l \in Lines : Edge(l))
    \/ Drain \/ NextLine \/ ReadPickup \/ (\E l \in Ign : ReadFall(l) \/ ReadSpark(l)) \/ ReadTach
    \/ (\E l \in Ign : Resolve(l) \/ Drop(l) \/ Keep(l)) \/ NextCylinder \/ BeginStep

Spec == Init /\ [][Next]_vars

-----------------------------------------------------------------------------
(* The corrected counts of a line lie behind the true ones by the edges    *)
(* drain_stale() took: the reducer counts edges from its own construction, *)
(* the line's counter pauses from Capture::start() on.                     *)
Late(l) == Pause * Thrown(l)

Spark == [t : Nat, dwell : Nat \cup {None}, at : Nat, before : Nat \cup {None}]

(* The types of the variables, and the bounds of the buffers. *)
TypeOK ==
    /\ ramping \in BOOLEAN /\ synced \in BOOLEAN /\ {now, rev, step_rev0} \subseteq Nat
    /\ begun \in Nat \cup {None}
    /\ up \in [Lines -> BOOLEAN]
    /\ last \in [Lines -> Nat \cup {None}]
    /\ made \in [Lines -> Nat] /\ edges \in [Lines -> Nat]
    /\ \A l \in Lines : Len(line[l]) <= Lag /\ made[l] = Thrown(l) + edges[l] + Len(line[l])
    /\ phase \in {"idle", "drain", "resolve"} /\ pos \in Lines
    /\ todo \in Nat /\ room \in 0 .. BatchCap
    /\ fall \in [Ign -> Nat \cup {None}] /\ got \in [Ign -> 0 .. Want]
    /\ \A l \in Ign : Len(pend[l]) <= PendCap /\ pend[l] \in Seq(Spark)
    /\ \A k \in DOMAIN pk : pk[k].t \in Nat /\ pk[k].intra \in (1 .. E) \cup {None}

(* A row's angle comes from the two neighbouring pickup edges between      *)
(* which the coil fired, in true time and up to the constant lateness of   *)
(* its line, however long the run and in whatever order the lines were     *)
(* read.                                                                   *)
RowTrue ==
    row # NoRow =>
        /\ row.edge \in 1 .. Len(pk) - 1
        /\ pk[row.edge].at <= row.at - Late(row.cyl)
        /\ row.at - Late(row.cyl) < pk[row.edge + 1].at

(* A dwell is the true time since the line's edge before, its charge       *)
(* start, and is missing only when that came before the run's first batch. *)
DwellTrue ==
    \A s \in ({row} \ {NoRow}) \cup UNION {{pend[l][i] : i \in DOMAIN pend[l]} : l \in Ign} :
        IF s.before = None THEN s.dwell = None ELSE s.dwell = s.at - s.before

(* A spark leaves the queue without a row only if no row can be made of    *)
(* it any more, or if its step is over: pickup edges on both sides of it   *)
(* were reduced, or only later ones, and no two neighbours around it have  *)
(* angles.  None is given up for being late, and none ages out of the      *)
(* window of the last PkCap pickup edges before it has got its angle.      *)
Hopeless(s) ==
    /\ pk # <<>> /\ s.t < pk[Len(pk)].t
    /\ ~ \E k \in 1 .. Len(pk) - 1 : pk[k].t <= s.t /\ s.t < pk[k + 1].t /\ HasAngle(k)
NothingLost ==
    [][\A l \in Ign :
         phase = "resolve" /\ Len(pend'[l]) < Len(pend[l]) /\ row' = NoRow =>
             Hopeless(Head(pend[l]))]_vars

(* Between batches, what still waits in a queue waits for an edge to come, *)
(* or lies in the window beside an edge without an angle and so ages out:  *)
(* the queue never wedges.                                                 *)
QueueMoves ==
    phase = "idle" =>
        \A l \in Ign : \A i \in DOMAIN pend[l] :
            \/ Len(pk) < 2 \/ pend[l][i].t >= pk[Len(pk)].t
            \/ \E k \in Oldest .. Len(pk) - 1 :
                 pk[k].t <= pend[l][i].t /\ pend[l][i].t < pk[k + 1].t /\ ~HasAngle(k)

(* A latency sample is taken against the last tooth 0 that was reduced: it *)
(* is never negative, and a later tooth 0 that it should have been taken   *)
(* against can only be one that came after the drain had begun.            *)
TachPaired ==
    latency # NoSample =>
        /\ pk[latency.tooth].t <= latency.t
        /\ \A k \in Tooth0s : k # latency.tooth => pk[k].t < pk[latency.tooth].t
        /\ \A i \in DOMAIN line[Pickup] :
             line[Pickup][i].long /\ line[Pickup][i].at <= latency.at - Late(Tach)
                 => line[Pickup][i].at >= begun

-----------------------------------------------------------------------------
(* Statements of the code's own comments that fail: all lines share one    *)
(* timebase (skew.hpp:5-6) - the counts drain_stale() threw away are not   *)
(* corrected for -                                                         *)
SharedTimebase == row # NoRow => pk[row.edge].at <= row.at /\ row.at < pk[row.edge + 1].at

(* and tooth 0 of the revolution has been recorded when the tach edge is   *)
(* reduced (core1_main.cpp:344-346): it may have come in between.          *)
TachOwnTooth ==
    latency # NoSample =>
        ~ \E i \in DOMAIN line[Pickup] :
              line[Pickup][i].long /\ line[Pickup][i].at <= latency.at - Late(Tach)
=============================================================================
