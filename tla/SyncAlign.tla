----------------------------- MODULE SyncAlign -----------------------------
(***************************************************************************)
(* hal/soft_pattern.hpp and the reducers of app/core1_main.cpp: an alarm   *)
(* interrupt emits the tooth edges of the pickup pattern, core 1 captures  *)
(* them back and finds out from the long gap alone which edge is tooth 0,  *)
(* while the schedule changes the speed.  Sparks are bracketed by two      *)
(* captured edges; a stepped sweep waits Settle revolutions per step.      *)
(*                                                                         *)
(* Time is counted in units in which one degree at step k's speed lasts    *)
(* Period[k].  Besides the emitted edges a spurious one may be captured,   *)
(* and an emitted one missed.  A spark is judged when the edge after it is *)
(* processed: later in the same step makes no difference, and begin_step   *)
(* drops what is pending.                                                  *)
(***************************************************************************)
EXTENDS Integers, Sequences

CONSTANTS
    Angle,      \* Angle[i]: angle of edge i of a revolution, increasing
    Wheel,      \* wheel_deg
    Period,     \* Period[k]: time per degree at step k of the schedule
    Ramping,    \* run_ramp (every bracketed spark is a row), else run_sweep
    Settle,     \* sweep_settle_revs
    Want,       \* sweep_samples
    NoFireRevs, \* kNoFireMarginRevs
    SpareRevs,  \* the 8 revolutions of budget_revs
    MaxLag,     \* edges core 1 may be behind the emitter
    Lead,       \* bound: time from clearing the capture to the first edge
    Faults,     \* bound: spurious and missed edges
    Turns       \* bound: revolutions emitted

E == Len(Angle)
Edges == 1 .. E
Steps == 1 .. Len(Period)
None == 0       \* index of a spurious edge; NaN as the angle of an edge

ASSUME GeometryAssumption ==
    /\ Angle \in Seq(Nat) /\ E > 1 /\ Wheel \in Nat
    /\ \A i, j \in Edges : i < j => Angle[i] < Angle[j]
    /\ Angle[E] < Wheel
ASSUME ScheduleAssumption ==
    /\ Period \in Seq(Nat \ {0}) /\ Period # <<>>
    /\ Ramping \in BOOLEAN /\ Settle \in Nat \ {0} /\ Want \in Nat \ {0}
    /\ NoFireRevs \in Nat /\ SpareRevs \in Nat
ASSUME BoundsAssumption ==
    MaxLag \in Nat /\ Lead \in Nat /\ Faults \in Nat /\ Turns \in Nat

VARIABLES
    edge_i,     \* SoftPattern: the edge to be emitted next
    speed,      \* step whose speed the revolution in progress has (rpm_)
    pending,    \* step set_rpm() was last called for (pending_rpm_)
    left,       \* time until that edge
    age,        \* whole revolutions at this speed before the one in progress
    turn,       \* revolutions emitted
    faults,     \* spurious and missed edges
    since,      \* time since the edge captured last
    whole,      \* no edge was missed in that time
    queue,      \* captured edges core 1 has not processed
    have_last, synced,
    pk,         \* the edge processed last and what it is taken for
    phase,      \* "start": set_rpm was called, "gather": run_step's loop, "done"
    cmd,        \* step in progress, whose speed scales sync_thresh_ticks_
    step_rev0, got, saw_spark,
    spent,      \* time since the step's loop began
    row,        \* the two edges around the spark accepted last, or NoRow
    clean       \* edges processed in a row without a fault, up to E + 1

patternVars == <<edge_i, speed, age, turn>>
lineVars == <<since, whole, queue, faults>>
alignVars == <<have_last, synced, pk, clean>>
stepVars == <<phase, cmd, pending, step_rev0>>
sampleVars == <<got, saw_spark, row>>
vars == <<patternVars, left, spent, lineVars, alignVars, stepVars, sampleVars>>

-----------------------------------------------------------------------------
(* sync_thresh_deg_from_cfg: midway between the two widest gaps.           *)

GapDeg(i) == IF i < E THEN Angle[i + 1] - Angle[i] ELSE Angle[1] + Wheel - Angle[E]
Widest == CHOOSE i \in Edges : \A j \in Edges : GapDeg(j) <= GapDeg(i)
Second == CHOOSE i \in Edges \ {Widest} : \A j \in Edges \ {Widest} : GapDeg(j) <= GapDeg(i)
TwiceThreshold == GapDeg(Widest) + GapDeg(Second)

(* From edge i of a revolution at speed k to the next edge, which is       *)
(* placed with the speed of its own revolution.                            *)
GapTime(i, k, next) ==
    IF i < E THEN GapDeg(i) * Period[k]
    ELSE (Wheel - Angle[E]) * Period[k] + Angle[1] * Period[next]

Rev == Wheel * Period[cmd]
NoFireDeadline == (Settle + NoFireRevs) * Rev
SampleDeadline == 2 * (Settle + Want + SpareRevs) * Rev
Overdue == spent >= (IF saw_spark THEN SampleDeadline ELSE NoFireDeadline)

Captured == [dt : Nat, idx : Edges \union {None}, speed : Steps, age : Nat, whole : BOOLEAN]
PkEdge == [edge : Captured, intra : Edges \union {None}, rev : Nat]
NoEdge == [dt |-> 0, idx |-> None, speed |-> 1, age |-> 0, whole |-> FALSE]
NoRow == <<>>

TypeOK ==
    /\ edge_i \in Edges /\ speed \in Steps /\ pending \in Steps
    /\ left \in Nat /\ age \in Nat /\ turn \in 0 .. Turns
    /\ faults \in 0 .. Faults /\ since \in Nat /\ whole \in BOOLEAN
    /\ queue \in Seq(Captured) /\ Len(queue) <= MaxLag + 1
    /\ have_last \in BOOLEAN /\ synced \in BOOLEAN /\ pk \in PkEdge
    /\ phase \in {"start", "gather", "done"} /\ cmd \in Steps
    /\ step_rev0 \in Nat /\ step_rev0 <= pk.rev
    /\ got \in 0 .. Want /\ saw_spark \in BOOLEAN /\ spent \in Nat
    /\ row \in {NoRow} \union (PkEdge \X PkEdge) /\ clean \in 0 .. E + 1

Init ==
    /\ edge_i = 1 /\ speed = 1 /\ pending = 1 /\ left \in 0 .. Lead /\ age = 0 /\ turn = 0
    /\ faults = 0 /\ since = 0 /\ whole = TRUE /\ queue = <<>>
    /\ have_last = FALSE /\ synced = FALSE
    /\ pk = [edge |-> NoEdge, intra |-> None, rev |-> 0]
    /\ phase = "start" /\ cmd = 1 /\ step_rev0 = 0
    /\ got = 0 /\ saw_spark = FALSE /\ spent = 0 /\ row = NoRow /\ clean = 0

-----------------------------------------------------------------------------
(* SoftPattern::fire_one().  Time passes up to the edge; core 1 polls the  *)
(* clock far more often, so none passes once a step is overdue.            *)

TimePasses == phase # "done" /\ ~(phase = "gather" /\ ~Ramping /\ Overdue)

(* The speed asked for is adopted when the last edge is emitted, so from   *)
(* the sync gap on it is too late for the coming revolution.               *)
Fire ==
    /\ TimePasses /\ (edge_i = E => turn < Turns)
    /\ left' = GapTime(edge_i, speed, pending) /\ spent' = spent + left
    /\ IF edge_i < E
       THEN edge_i' = edge_i + 1 /\ UNCHANGED <<speed, age, turn>>
       ELSE /\ edge_i' = 1 /\ speed' = pending /\ turn' = turn + 1
            /\ age' = IF pending = speed THEN age + 1 ELSE 0

Emit ==
    /\ Fire /\ Len(queue) <= MaxLag
    /\ queue' = Append(queue, [dt |-> since + left, idx |-> edge_i, speed |-> speed,
                               age |-> age, whole |-> whole])
    /\ since' = 0 /\ whole' = TRUE
    /\ UNCHANGED <<faults, alignVars, stepVars, sampleVars>>

Miss ==
    /\ Fire /\ faults < Faults
    /\ faults' = faults + 1 /\ since' = since + left /\ whole' = FALSE
    /\ UNCHANGED <<queue, alignVars, stepVars, sampleVars>>

Spurious ==
    /\ TimePasses /\ faults < Faults /\ Len(queue) <= MaxLag
    /\ \E d \in 1 .. left - 1 :
         /\ left' = left - d /\ spent' = spent + d
         /\ queue' = Append(queue, [dt |-> since + d, idx |-> None, speed |-> speed,
                                    age |-> age, whole |-> whole])
    /\ faults' = faults + 1 /\ since' = 0 /\ whole' = TRUE
    /\ UNCHANGED <<patternVars, alignVars, stepVars, sampleVars>>

-----------------------------------------------------------------------------
(* process_batch, process_batch_ramp and what they resolve                 *)

LongGap(e) == have_last /\ 2 * e.dt >= TwiceThreshold * Period[cmd]
IsSyncOnce(e) == ~synced /\ LongGap(e)       \* tooth 0 is looked for once per run
IsSync(e) == LongGap(e)

Aligned(e) ==
    [edge |-> e,
     intra |-> IF IsSync(e) THEN 1
               ELSE IF pk.intra \in 1 .. E - 1 THEN pk.intra + 1 ELSE None,
     rev |-> IF IsSync(e) /\ synced THEN pk.rev + 1 ELSE pk.rev]

BracketedAfter(b, a) == a.intra # None
Bracketed(b, a) == b.intra # None /\ a.intra # None

(* resolve_pending: settled, and fewer samples than wanted. *)
SettledEarly(b) == b.rev + 1 >= step_rev0 + Settle
Settled(b) == b.rev >= step_rev0 + Settle
Accepts(b) == Ramping \/ (Settled(b) /\ got < Want)

Process ==
    /\ phase = "gather" /\ queue # <<>>
    /\ \E spark \in BOOLEAN :
       LET e == Head(queue)
           a == Aligned(e) IN
       /\ pk' = a /\ have_last' = TRUE /\ synced' = (synced \/ IsSync(e))
       /\ clean' = IF e.idx = None THEN 0
                   ELSE IF ~e.whole THEN 1
                   ELSE IF clean > E THEN clean ELSE clean + 1
       /\ saw_spark' = (saw_spark \/ spark)
       /\ IF spark /\ Bracketed(pk, a) /\ Accepts(pk)
          THEN row' = <<pk, a>> /\ got' = IF Ramping THEN got ELSE got + 1
          ELSE row' = NoRow /\ got' = got
    /\ queue' = Tail(queue)
    /\ UNCHANGED <<patternVars, left, spent, since, whole, faults, stepVars>>

-----------------------------------------------------------------------------
(* run_sweep and run_ramp *)

(* begin_step and the clock of run_step. *)
BeginStep ==
    /\ phase = "start" /\ phase' = "gather"
    /\ step_rev0' = pk.rev /\ got' = 0 /\ saw_spark' = FALSE /\ spent' = 0 /\ row' = NoRow
    /\ UNCHANGED <<patternVars, left, lineVars, alignVars, cmd, pending>>

(* The end of run_step, advance_step and, unless the sweep is done, the    *)
(* set_rpm of the next step.                                               *)
EndStepIf(enough) ==
    /\ phase = "gather" /\ ~Ramping /\ enough
    /\ IF cmd < Len(Period)
       THEN cmd' = cmd + 1 /\ pending' = cmd + 1 /\ phase' = "start"
       ELSE phase' = "done" /\ UNCHANGED <<cmd, pending>>
    /\ row' = NoRow
    /\ UNCHANGED <<patternVars, left, spent, lineVars, alignVars, step_rev0, got, saw_spark>>

EndStepFull == EndStepIf(got = Want)          \* no deadlines
EndStep == EndStepIf(got = Want \/ Overdue)

(* A pass of run_ramp's loop in which the commanded speed has moved. *)
RampTick ==
    /\ phase = "gather" /\ Ramping /\ cmd < Len(Period)
    /\ cmd' = cmd + 1 /\ pending' = cmd + 1
    /\ UNCHANGED <<patternVars, left, spent, lineVars, alignVars, phase, step_rev0, sampleVars>>

EndRamp ==
    /\ phase = "gather" /\ Ramping /\ cmd = Len(Period)
    /\ phase' = "done"
    /\ UNCHANGED <<patternVars, left, spent, lineVars, alignVars, cmd, pending, step_rev0,
                   sampleVars>>

Next ==
    \/ Emit \/ Miss \/ Spurious \/ Process
    \/ BeginStep \/ EndStep \/ RampTick \/ EndRamp

(* The alarm interrupt fires, and core 1 runs a busy loop. *)
Fairness == /\ WF_vars(Emit) /\ WF_vars(Process)
            /\ WF_vars(BeginStep) /\ WF_vars(EndStep) /\ WF_vars(EndRamp)

Spec == Init /\ [][Next]_vars
FairSpec == Spec /\ Fairness

-----------------------------------------------------------------------------
(* What the properties below need of a schedule.  MCSyncAlign says that    *)
(* its schedules have it, and the shipped sweep; for every schedule that   *)
(* has, SyncProofs proves them.                                            *)

(* The emitter follows the schedule: an edge processed under the threshold *)
(* of step q comes from a revolution of step k at most q, and the next one *)
(* from one between them.  If they are no more than D steps apart, the     *)
(* threshold separates the sync gap from the others.                       *)
Tracks(D) ==
    \A q \in Steps : \A k \in q - D .. q : \A next \in k .. q : \A i \in Edges :
        k > 0 => (2 * GapTime(i, k, next) >= TwiceThreshold * Period[q] <=> i = E)

(* The schedule is no more than D steps ahead of the edge processed last.  *)
Within(D) == cmd <= pk.edge.speed + D

(* Two revolutions, of which all but the part from tooth 0 on of the       *)
(* second are at the speed before, end before either deadline of a step.   *)
TakenInTime ==
    \A q \in Steps \ {1} :
        \A revs \in {Settle + NoFireRevs, 2 * (Settle + Want + SpareRevs)} :
            Wheel * Period[q - 1] + (Wheel - Angle[E]) * Period[q - 1] + Angle[E] * Period[q]
                < revs * (Wheel * Period[q])

(* In a sweep neighbouring steps are so close that the threshold tells the *)
(* sync gap at either's speed, a step is longer than the emitter takes to  *)
(* adopt its speed, and core 1 is less than a revolution behind.  Nothing  *)
(* is asked of steps further apart.                                        *)
SweepHypotheses == Tracks(1) /\ TakenInTime /\ MaxLag + 1 < E /\ Settle >= 2

-----------------------------------------------------------------------------
(* core1_main.cpp:150-157: whatever was captured before, E + 1 edges       *)
(* without a fault align tooth 0 again, so that a spurious or a missed     *)
(* edge spoils no more than the revolution it falls into and the next.     *)
Healed == clean > E => pk.intra = pk.edge.idx

NoFaults == faults = 0      \* the line has been faultless so far

(* The angle of a row is interpolated between the two edges' own angles,   *)
(* one wheel turn apart exactly if tooth 0 lies between them.              *)
RowTrue ==
    row # NoRow =>
        LET b == row[1]
            a == row[2] IN
        /\ b.intra = b.edge.idx /\ a.intra = a.edge.idx
        /\ a.rev - b.rev = IF a.edge.idx <= b.edge.idx THEN 1 ELSE 0
AnglesTrue == NoFaults => RowTrue

(* The samples of a step were measured at its speed, after at least        *)
(* Settle - 2 whole revolutions at it: set_rpm comes too late for the      *)
(* coming revolution when the sync gap has begun, and the revolution in    *)
(* progress is counted as a settled one.  It takes Settle > 1 and core 1   *)
(* less than a revolution behind: with SWEEP_SETTLE_REVS = 1, which        *)
(* config.cpp:136 accepts, a sample may be of the speed before.            *)
SettledButTwo ==
    row # NoRow /\ ~Ramping /\ NoFaults =>
        row[1].edge.speed = cmd /\ row[1].edge.age + 2 >= Settle

(* A sweep ends, whether the ignitor fires or not (core1_main.cpp:533-541).*)
SweepEnds == <>(phase = "done")

-----------------------------------------------------------------------------
(* A statement of the documents that fails: "At each step it lets the      *)
(* ignitor settle SWEEP_SETTLE_REVS revs, then averages" (docs/            *)
(* architecture.md:53-54).  Two of the revolutions counted may be none.    *)
SettledFully ==
    row # NoRow /\ ~Ramping => row[1].edge.speed = cmd /\ row[1].edge.age >= Settle
=============================================================================
