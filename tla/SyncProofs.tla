----------------------------- MODULE SyncProofs -----------------------------
(***************************************************************************)
(* Theorems about SyncAlign, for every wheel, schedule and lag.  The       *)
(* invariant follows the captured edges from the one processed last        *)
(* through the queue to the one that is due: neighbours between which      *)
(* nothing was spurious or missed are successive edges of the wheel, as    *)
(* far apart as the pattern puts them.  A second one, of sweeps, follows   *)
(* the age of the speed along the same edges: an edge with r tooth zeros   *)
(* between the start of the step and it is at least r - 2 revolutions old. *)
(***************************************************************************)
EXTENDS SyncAlign, TLAPS

Succ(i) == IF i < E THEN i + 1 ELSE 1

(* Edge e comes right after edge b of the pattern. *)
Follows(b, e) ==
    b.idx # None /\ e.idx # None /\ e.whole =>
        e.idx = Succ(b.idx) /\ e.dt = GapTime(b.idx, b.speed, e.speed)

(* The edge that is due comes right after edge b. *)
Due(b) ==
    b.idx # None /\ whole =>
        edge_i = Succ(b.idx) /\ since + left = GapTime(b.idx, b.speed, speed)

Chain ==
    /\ queue = <<>> => Due(pk.edge)
    /\ queue # <<>> => /\ Follows(pk.edge, queue[1])
                       /\ Due(queue[Len(queue)])
    /\ \A j \in 1 .. Len(queue) - 1 : Follows(queue[j], queue[j + 1])

(* Speeds only go on: the emitter is behind the schedule, core 1 behind the *)
(* emitter.                                                                 *)
Ordered ==
    /\ pending = cmd /\ speed <= cmd /\ pk.edge.speed <= speed
    /\ \A j \in 1 .. Len(queue) : pk.edge.speed <= queue[j].speed /\ queue[j].speed <= speed
    /\ \A i, j \in 1 .. Len(queue) : i <= j => queue[i].speed <= queue[j].speed

-----------------------------------------------------------------------------
(* There are at least two edges, so every edge has a successor. *)
LEMMA Geometry ==
    /\ E \in Nat /\ E > 1
    /\ \A i \in Edges : Succ(i) \in Edges /\ (Succ(i) = 1 <=> i = E) /\ (Succ(i) <= i <=> i = E)
    /\ \A i \in Edges : i # E => Succ(i) = i + 1
    /\ None \notin Edges
<1>1. E \in Nat /\ E > 1
  BY GeometryAssumption DEF E
<1> QED
  BY <1>1 DEF Edges, Succ, None

(* The time from an edge to the next is a natural number. *)
LEMMA GapTimeNat ==
    ASSUME NEW i \in Edges, NEW k \in Steps, NEW next \in Steps
    PROVE  GapTime(i, k, next) \in Nat
<1>0. \A a, b \in Nat : a * b \in Nat
  OBVIOUS
<1>1. Period[k] \in Nat /\ Period[next] \in Nat
  BY ScheduleAssumption DEF Steps
<1>2. \A j \in Edges : Angle[j] \in Nat
  BY GeometryAssumption DEF Edges, E
<1>3. CASE i < E
  <2>1. i \in 1 .. E - 1 /\ i + 1 \in Edges
    BY <1>3, Geometry DEF Edges
  <2>2. Angle[i + 1] - Angle[i] \in Nat
    BY <2>1, <1>2, GeometryAssumption DEF Edges
  <2> QED
    BY <1>0, <1>1, <1>3, <2>2, Zenon DEF GapTime, GapDeg
<1>4. CASE ~(i < E)
  <2>1. E \in Edges /\ 1 \in Edges
    BY Geometry DEF Edges
  <2>2. Wheel - Angle[E] \in Nat /\ Angle[1] \in Nat
    BY <1>2, <2>1, GeometryAssumption
  <2>3. (Wheel - Angle[E]) * Period[k] \in Nat /\ Angle[1] * Period[next] \in Nat
    BY <1>0, <1>1, <2>2, Zenon
  <2>4. \A a, b \in Nat : a + b \in Nat
    OBVIOUS
  <2> QED
    BY <1>4, <2>3, <2>4, Zenon DEF GapTime
<1> QED
  BY <1>3, <1>4

(* What is captured is well formed. *)
LEMMA CapturedEdge ==
    ASSUME NEW d \in Nat, NEW i \in Edges \union {None}, TypeOK
    PROVE  [dt |-> d, idx |-> i, speed |-> speed, age |-> age, whole |-> whole] \in Captured
<1>1. speed \in Steps /\ age \in Nat
  BY Zenon DEF TypeOK
<1>2. whole \in BOOLEAN
  BY Zenon DEF TypeOK
<1> QED
  BY <1>1, <1>2, Zenon DEF Captured

(* What an edge is taken for is well formed. *)
LEMMA AlignedEdge ==
    ASSUME pk \in PkEdge, NEW e \in Captured
    PROVE  Aligned(e) \in PkEdge /\ Aligned(e).rev >= pk.rev
<1> DEFINE i == IF IsSync(e) THEN 1
                ELSE IF pk.intra \in 1 .. E - 1 THEN pk.intra + 1 ELSE None
           r == IF IsSync(e) /\ synced THEN pk.rev + 1 ELSE pk.rev
<1>1. i \in Edges \union {None}
  BY Geometry DEF Edges
<1>2. r \in Nat /\ r >= pk.rev
  <2>1. r = pk.rev + 1 \/ r = pk.rev
    BY Zenon
  <2>2. pk.rev \in Nat
    BY DEF PkEdge
  <2> QED
    BY <2>1, <2>2
<1>3. Aligned(e) = [edge |-> e, intra |-> i, rev |-> r]
  BY Zenon DEF Aligned
<1> HIDE DEF i, r
<1>4. Aligned(e) \in PkEdge
  BY <1>1, <1>2, <1>3 DEF PkEdge
<1>5. Aligned(e).rev = r
  <2>1. [edge |-> e, intra |-> i, rev |-> r].rev = r
    OBVIOUS
  <2> QED
    BY <1>3, <2>1, Zenon
<1> QED
  BY <1>2, <1>4, <1>5

-----------------------------------------------------------------------------
(* The lag of core 1, the samples of a step and the counters of the        *)
(* reducer stay within their bounds.                                       *)
THEOREM TypeCorrect == Spec => []TypeOK
<1> USE ScheduleAssumption, BoundsAssumption
<1>0. 1 \in Steps /\ 1 \in Edges
  BY Geometry DEF Steps, Edges
<1>1. Init => TypeOK
  <2> SUFFICES ASSUME Init PROVE TypeOK
    OBVIOUS
  <2>1. whole \in BOOLEAN /\ have_last \in BOOLEAN /\ synced \in BOOLEAN /\ saw_spark \in BOOLEAN
    BY Zenon DEF Init
  <2>2. NoEdge \in Captured
    <3>1. FALSE \in BOOLEAN /\ 0 \in Nat /\ None \in Edges \union {None}
      OBVIOUS
    <3> QED
      BY <1>0, <3>1, Zenon DEF NoEdge, Captured
  <2>3. pk \in PkEdge /\ pk.rev = 0
    <3>1. pk = [edge |-> NoEdge, intra |-> None, rev |-> 0]
      BY Zenon DEF Init
    <3> HIDE DEF NoEdge
    <3> QED
      BY <2>2, <3>1 DEF PkEdge
  <2>4. clean \in 0 .. E + 1
    BY Geometry DEF Init
  <2> QED
    BY <1>0, <2>1, <2>3, <2>4 DEF Init, TypeOK
<1>2. TypeOK /\ [Next]_vars => TypeOK'
  <2> SUFFICES ASSUME TypeOK, [Next]_vars PROVE TypeOK'
    OBVIOUS
  <2>f. ASSUME Fire
        PROVE  /\ edge_i' \in Edges /\ speed' \in Steps /\ left' \in Nat /\ age' \in Nat
               /\ turn' \in 0 .. Turns /\ spent' \in Nat
    <3>1. edge_i \in Edges /\ speed \in Steps /\ pending \in Steps
      BY Zenon DEF TypeOK
    <3>2. left' \in Nat /\ spent' \in Nat
      <4>1. left' = GapTime(edge_i, speed, pending) /\ spent' = spent + left
        BY <2>f, Zenon DEF Fire
      <4>2. left \in Nat /\ spent \in Nat
        BY Zenon DEF TypeOK
      <4> QED
        BY <3>1, <4>1, <4>2, GapTimeNat
    <3>3. CASE edge_i < E
      <4>1. edge_i' = edge_i + 1 /\ speed' = speed /\ age' = age /\ turn' = turn
        BY <2>f, <3>3, Zenon DEF Fire
      <4> QED
        BY <3>1, <3>2, <3>3, <4>1, Geometry DEF TypeOK, Edges
    <3>4. CASE ~(edge_i < E)
      <4>1. edge_i' = 1 /\ speed' = pending /\ turn' = turn + 1
            /\ age' = IF pending = speed THEN age + 1 ELSE 0
        BY <2>f, <3>4, Zenon DEF Fire
      <4>2. edge_i = E
        BY <3>1, <3>4, Geometry DEF Edges
      <4>3. turn < Turns
        BY <2>f, <4>2, Zenon DEF Fire
      <4>4. turn' \in 0 .. Turns /\ age' \in Nat
        BY <4>1, <4>3 DEF TypeOK
      <4> QED
        BY <1>0, <3>1, <3>2, <4>1, <4>4
    <3> QED
      BY <3>3, <3>4
  <2>1. CASE Emit
    <3> DEFINE e == [dt |-> since + left, idx |-> edge_i, speed |-> speed,
                     age |-> age, whole |-> whole]
    <3>1. queue' \in Seq(Captured) /\ Len(queue') <= MaxLag + 1
      <4>1. e \in Captured
        <5>1. since + left \in Nat /\ edge_i \in Edges \union {None}
          BY DEF TypeOK
        <5> QED
          BY <5>1, CapturedEdge
      <4>2. queue' = Append(queue, e) /\ Len(queue) <= MaxLag
        BY <2>1, Zenon DEF Emit
      <4>3. queue \in Seq(Captured)
        BY Zenon DEF TypeOK
      <4> HIDE DEF e
      <4> QED
        BY <4>1, <4>2, <4>3
    <3>2. whole' \in BOOLEAN /\ since' \in Nat
      <4>1. whole' = TRUE /\ since' = 0
        BY <2>1, Zenon DEF Emit
      <4> QED
        BY <4>1
    <3>3. UNCHANGED <<faults, alignVars, stepVars, sampleVars>> /\ Fire
      BY <2>1, Zenon DEF Emit
    <3> QED
      BY <2>f, <3>1, <3>2, <3>3, Zenon DEF TypeOK, alignVars, stepVars, sampleVars
  <2>2. CASE Miss
    <3>1. faults' \in 0 .. Faults /\ since' \in Nat
      BY <2>2 DEF Miss, TypeOK
    <3>2. whole' \in BOOLEAN
      BY <2>2, Zenon DEF Miss
    <3>3. UNCHANGED <<queue, alignVars, stepVars, sampleVars>> /\ Fire
      BY <2>2, Zenon DEF Miss
    <3> QED
      BY <2>f, <3>1, <3>2, <3>3, Zenon DEF TypeOK, alignVars, stepVars, sampleVars
  <2>3. CASE Spurious
    <3>1. PICK d \in 1 .. left - 1 :
             /\ left' = left - d /\ spent' = spent + d
             /\ queue' = Append(queue, [dt |-> since + d, idx |-> None, speed |-> speed,
                                        age |-> age, whole |-> whole])
      BY <2>3, Zenon DEF Spurious
    <3>2. left' \in Nat /\ spent' \in Nat /\ since + d \in Nat
      BY <3>1 DEF TypeOK
    <3>3. queue' \in Seq(Captured) /\ Len(queue') <= MaxLag + 1
      <4> DEFINE e == [dt |-> since + d, idx |-> None, speed |-> speed,
                       age |-> age, whole |-> whole]
      <4>1. e \in Captured
        BY <3>2, CapturedEdge
      <4>2. queue' = Append(queue, e) /\ Len(queue) <= MaxLag
        BY <2>3, <3>1, Zenon DEF Spurious
      <4>3. queue \in Seq(Captured)
        BY Zenon DEF TypeOK
      <4> HIDE DEF e
      <4> QED
        BY <4>1, <4>2, <4>3
    <3>4. faults' \in 0 .. Faults /\ since' \in Nat
      <4>1. faults' = faults + 1 /\ since' = 0 /\ faults < Faults
        BY <2>3, Zenon DEF Spurious
      <4> QED
        BY <4>1 DEF TypeOK
    <3>5. whole' \in BOOLEAN
      BY <2>3, Zenon DEF Spurious
    <3>6. UNCHANGED <<patternVars, alignVars, stepVars, sampleVars>>
      BY <2>3, Zenon DEF Spurious
    <3> QED
      BY <3>2, <3>3, <3>4, <3>5, <3>6, Zenon
         DEF TypeOK, patternVars, alignVars, stepVars, sampleVars
  <2>4. CASE Process
    <3>0. /\ queue \in Seq(Captured) /\ queue # <<>> /\ pk \in PkEdge
          /\ queue' = Tail(queue)
      BY <2>4, Zenon DEF Process, TypeOK
    <3> DEFINE e == Head(queue)
    <3>1. e \in Captured /\ queue' \in Seq(Captured) /\ Len(queue') <= MaxLag + 1
      BY <3>0 DEF TypeOK
    <3>2. PICK spark \in BOOLEAN :
             /\ pk' = Aligned(e) /\ have_last' = TRUE /\ synced' = (synced \/ IsSync(e))
             /\ clean' = IF e.idx = None THEN 0
                         ELSE IF ~e.whole THEN 1
                         ELSE IF clean > E THEN clean ELSE clean + 1
             /\ saw_spark' = (saw_spark \/ spark)
             /\ IF spark /\ Bracketed(pk, Aligned(e)) /\ Accepts(pk)
                THEN row' = <<pk, Aligned(e)>> /\ got' = IF Ramping THEN got ELSE got + 1
                ELSE row' = NoRow /\ got' = got
      BY <2>4, Zenon DEF Process
    <3>3. Aligned(e) \in PkEdge /\ Aligned(e).rev >= pk.rev
      BY <3>0, <3>1, AlignedEdge
    <3> HIDE DEF e
    <3>4. have_last' \in BOOLEAN /\ synced' \in BOOLEAN /\ saw_spark' \in BOOLEAN
      BY <3>2, Zenon
    <3>5. clean' \in 0 .. E + 1
      <4>1. clean \in 0 .. E + 1
        BY Zenon DEF TypeOK
      <4>2. clean' = 0 \/ clean' = 1 \/ (clean > E /\ clean' = clean)
            \/ (~(clean > E) /\ clean' = clean + 1)
        BY <3>2, Zenon
      <4> QED
        BY <4>1, <4>2, Geometry
    <3>6. row' \in {NoRow} \union (PkEdge \X PkEdge) /\ got' \in 0 .. Want
      <4>1. CASE spark /\ Bracketed(pk, Aligned(e)) /\ Accepts(pk)
        <5>1. row' = <<pk, Aligned(e)>> /\ got' = IF Ramping THEN got ELSE got + 1
          BY <3>2, <4>1, Zenon
        <5>2. row' \in PkEdge \X PkEdge
          BY <3>0, <3>3, <5>1, Zenon
        <5>3. got \in 0 .. Want
          BY Zenon DEF TypeOK
        <5>4. CASE Ramping
          BY <5>1, <5>2, <5>3, <5>4, Zenon
        <5>5. CASE ~Ramping
          <6>1. got' = got + 1 /\ got < Want
            BY <4>1, <5>1, <5>5, Zenon DEF Accepts
          <6> QED
            BY <5>2, <5>3, <6>1
        <5> QED
          BY <5>4, <5>5
      <4>2. CASE ~(spark /\ Bracketed(pk, Aligned(e)) /\ Accepts(pk))
        <5>1. row' = NoRow /\ got' = got
          BY <3>2, <4>2, Zenon
        <5> QED
          BY <5>1, Zenon DEF TypeOK
      <4> QED
        BY <4>1, <4>2
    <3>7. pk' \in PkEdge /\ step_rev0' \in Nat /\ step_rev0' <= pk'.rev
      <4>1. pk' = Aligned(e) /\ step_rev0' = step_rev0
        BY <2>4, <3>2, Zenon DEF Process, stepVars
      <4>2. step_rev0 \in Nat /\ step_rev0 <= pk.rev /\ pk.rev \in Nat
        BY <3>0 DEF TypeOK, PkEdge
      <4>3. Aligned(e).rev \in Nat
        BY <3>3 DEF PkEdge
      <4>4. step_rev0 <= Aligned(e).rev
        BY <4>2, <4>3, <3>3
      <4> QED
        BY <3>3, <4>1, <4>2, <4>4, Zenon
    <3>8. UNCHANGED <<patternVars, left, spent, since, whole, faults, stepVars>>
      BY <2>4, Zenon DEF Process
    <3> QED
      BY <3>1, <3>4, <3>5, <3>6, <3>7, <3>8, Zenon DEF TypeOK, patternVars, stepVars
  <2>5. CASE BeginStep
    <3>1. /\ phase' = "gather" /\ step_rev0' = pk.rev /\ got' = 0 /\ spent' = 0 /\ row' = NoRow
          /\ UNCHANGED <<patternVars, left, lineVars, alignVars, cmd, pending>>
      BY <2>5, Zenon DEF BeginStep
    <3>2. saw_spark' \in BOOLEAN
      BY <2>5, Zenon DEF BeginStep
    <3>3. got' \in 0 .. Want /\ spent' \in Nat /\ pk.rev \in Nat /\ pk.rev <= pk.rev
      BY <3>1 DEF TypeOK, PkEdge
    <3> QED
      BY <3>1, <3>2, <3>3, Zenon DEF TypeOK, patternVars, lineVars, alignVars
  <2>6. CASE EndStep
    <3>1. /\ row' = NoRow
          /\ UNCHANGED <<patternVars, left, spent, lineVars, alignVars, step_rev0, got, saw_spark>>
          /\ \/ cmd < Len(Period) /\ cmd' = cmd + 1 /\ pending' = cmd + 1 /\ phase' = "start"
             \/ phase' = "done" /\ UNCHANGED <<cmd, pending>>
      BY <2>6, Zenon DEF EndStep, EndStepIf
    <3>2. cmd' \in Steps /\ pending' \in Steps
      BY <3>1 DEF TypeOK, Steps
    <3> QED
      BY <3>1, <3>2, Zenon DEF TypeOK, patternVars, lineVars, alignVars
  <2>7. CASE RampTick
    <3>1. /\ cmd < Len(Period) /\ cmd' = cmd + 1 /\ pending' = cmd + 1
          /\ UNCHANGED <<patternVars, left, spent, lineVars, alignVars, phase, step_rev0, sampleVars>>
      BY <2>7, Zenon DEF RampTick
    <3>2. cmd' \in Steps /\ pending' \in Steps
      BY <3>1 DEF TypeOK, Steps
    <3> QED
      BY <3>1, <3>2, Zenon DEF TypeOK, patternVars, lineVars, alignVars, sampleVars
  <2>8. CASE EndRamp
    BY <2>8, Zenon DEF EndRamp, TypeOK, patternVars, lineVars, alignVars, sampleVars
  <2>9. CASE UNCHANGED vars
    BY <2>9, Zenon DEF vars, TypeOK, patternVars, lineVars, alignVars, stepVars, sampleVars
  <2> QED
    BY <2>1, <2>2, <2>3, <2>4, <2>5, <2>6, <2>7, <2>8, <2>9, Zenon DEF Next
<1> QED
  BY <1>1, <1>2, PTL DEF Spec

-----------------------------------------------------------------------------
(* Capturing one more edge. *)
LEMMA ChainAppend ==
    ASSUME TypeOK, Chain, NEW e \in Captured,
           queue' = Append(queue, e), pk' = pk,
           \A b \in Captured : Due(b) => Follows(b, e),
           Due(e)'
    PROVE  Chain'
<1> DEFINE q == queue
           r == Append(q, e)
<1>1. q \in Seq(Captured) /\ pk.edge \in Captured
  BY DEF TypeOK, PkEdge
<1>2. /\ Len(q) \in Nat /\ Len(r) = Len(q) + 1 /\ r[Len(q) + 1] = e /\ r # <<>>
      /\ \A i \in 1 .. Len(q) : r[i] = q[i] /\ q[i] \in Captured
      /\ q = <<>> <=> Len(q) = 0
  BY <1>1
<1> HIDE DEF r
<1>3. queue' = r
  BY DEF r
<1>4. Follows(pk.edge, r[1])
  <2>1. CASE q = <<>>
    <3>1. Due(pk.edge) /\ r[1] = e
      BY <1>2, <2>1 DEF Chain
    <3> QED
      BY <1>1, <3>1
  <2>2. CASE q # <<>>
    <3>1. r[1] = q[1]
      BY <1>2, <2>2
    <3> QED
      BY <2>2, <3>1, Zenon DEF Chain
  <2> QED
    BY <2>1, <2>2
<1>5. ASSUME NEW j \in 1 .. Len(r) - 1 PROVE Follows(r[j], r[j + 1])
  <2>1. CASE j = Len(q)
    <3>1. q # <<>> /\ r[j] = q[Len(q)] /\ r[j + 1] = e /\ q[Len(q)] \in Captured
      BY <1>2, <2>1
    <3>2. Due(q[Len(q)])
      BY <3>1, Zenon DEF Chain
    <3> QED
      BY <3>1, <3>2, Zenon
  <2>2. CASE j # Len(q)
    <3>1. j \in 1 .. Len(q) - 1 /\ r[j] = q[j] /\ r[j + 1] = q[j + 1]
      BY <1>2, <2>2
    <3> QED
      BY <3>1, Zenon DEF Chain
  <2> QED
    BY <2>1, <2>2
<1>6. r # <<>> /\ r[Len(r)] = e
  BY <1>2
<1> QED
  BY <1>3, <1>4, <1>5, <1>6, Zenon DEF Chain

(* The edge that was just emitted or missed has its successor due. *)
LEMMA FiredDue ==
    ASSUME TypeOK, Fire, since' = 0, NEW b, b.idx = edge_i, b.speed = speed
    PROVE  Due(b)'
<1>1. edge_i \in Edges /\ speed \in Steps /\ pending \in Steps
  BY Zenon DEF TypeOK
<1>2. left' = GapTime(edge_i, speed, speed')
  <2>1. left' = GapTime(edge_i, speed, pending)
    BY Zenon DEF Fire
  <2>2. CASE edge_i < E
    BY <2>1, <2>2, Zenon DEF GapTime
  <2>3. CASE ~(edge_i < E)
    BY <2>1, <2>3, Zenon DEF Fire
  <2> QED
    BY <2>2, <2>3
<1>5. speed' \in Steps
  BY <1>1, Zenon DEF Fire
<1>3. since' + left' = GapTime(edge_i, b.speed, speed')
  BY <1>1, <1>2, <1>5, GapTimeNat
<1>4. edge_i' = Succ(edge_i)
  BY Zenon DEF Fire, Succ
<1> QED
  BY <1>1, <1>3, <1>4, Zenon DEF Due

(* Every step keeps the captured edges one gap apart, except where one was *)
(* spurious or missed in between.                                          *)
LEMMA ChainStep ==
    ASSUME TypeOK, Chain, [Next]_vars
    PROVE  Chain'
<1>1. CASE Emit
  <2> DEFINE e == [dt |-> since + left, idx |-> edge_i, speed |-> speed,
                   age |-> age, whole |-> whole]
  <2>1. /\ queue' = Append(queue, e) /\ pk' = pk /\ Fire /\ since' = 0
    BY <1>1, Zenon DEF Emit, alignVars
  <2>2. e \in Captured
    <3>1. since + left \in Nat /\ edge_i \in Edges \union {None}
      BY DEF TypeOK
    <3> QED
      BY <3>1, CapturedEdge
  <2>3. e.idx = edge_i /\ e.dt = since + left /\ e.speed = speed
    OBVIOUS
  <2>4. e.whole = whole
    BY Zenon
  <2> HIDE DEF e
  <2>5. PICK c \in Captured : c = e
    BY <2>2
  <2>6. \A b \in Captured : Due(b) => Follows(b, c)
    BY <2>3, <2>4, <2>5, Zenon DEF Due, Follows
  <2>7. c.idx = edge_i /\ c.speed = speed /\ queue' = Append(queue, c)
    BY <2>1, <2>3, <2>5
  <2>8. Due(c)'
    BY <2>1, <2>7, FiredDue
  <2> QED
    BY <2>1, <2>6, <2>7, <2>8, ChainAppend
<1>2. CASE Miss
  <2>1. /\ ~whole' /\ queue' = queue /\ pk' = pk
    BY <1>2, Zenon DEF Miss, alignVars
  <2> QED
    BY <2>1, Zenon DEF Chain, Due
<1>3. CASE Spurious
  <2>1. PICK d \in 1 .. left - 1 :
           queue' = Append(queue, [dt |-> since + d, idx |-> None, speed |-> speed,
                                   age |-> age, whole |-> whole])
    BY <1>3, Zenon DEF Spurious
  <2> DEFINE e == [dt |-> since + d, idx |-> None, speed |-> speed,
                   age |-> age, whole |-> whole]
  <2>2. e \in Captured
    <3>1. since + d \in Nat
      BY <2>1 DEF TypeOK
    <3> QED
      BY <3>1, CapturedEdge
  <2>3. e.idx = None
    OBVIOUS
  <2>4. queue' = Append(queue, e) /\ pk' = pk
    BY <1>3, <2>1, Zenon DEF Spurious, alignVars
  <2> HIDE DEF e
  <2>5. PICK c \in Captured : c = e
    BY <2>2
  <2>6. \A b \in Captured : Due(b) => Follows(b, c)
    BY <2>3, <2>5, Zenon DEF Follows
  <2>7. c.idx = None /\ queue' = Append(queue, c)
    BY <2>3, <2>4, <2>5
  <2>8. Due(c)'
    BY <2>7, Zenon DEF Due
  <2> QED
    BY <2>4, <2>6, <2>7, <2>8, ChainAppend
<1>4. CASE Process
  <2> DEFINE q == queue
             r == Tail(q)
  <2>1. /\ queue # <<>> /\ queue' = r /\ UNCHANGED <<edge_i, speed, since, left, whole>>
        /\ pk' = Aligned(Head(queue))
    BY <1>4, Zenon DEF Process, patternVars
  <2>2. /\ Len(q) \in Nat /\ Len(q) > 0 /\ Len(r) = Len(q) - 1 /\ Head(q) = q[1]
        /\ \A i \in 1 .. Len(r) : r[i] = q[i + 1]
        /\ r = <<>> <=> Len(r) = 0
    <3>1. q \in Seq(Captured) /\ q # <<>>
      BY <2>1, Zenon DEF TypeOK
    <3> HIDE DEF q
    <3>2. Len(q) \in Nat /\ Len(q) > 0
      BY <3>1
    <3>3. Head(q) = q[1] /\ Len(r) = Len(q) - 1 /\ r \in Seq(Captured)
      BY <3>1
    <3>4. \A i \in 1 .. Len(r) : r[i] = q[i + 1]
      BY <3>1, <3>2
    <3>5. r = <<>> <=> Len(r) = 0
      BY <3>3
    <3> QED
      BY <3>2, <3>3, <3>4, <3>5, Zenon
  <2>3. pk'.edge = q[1]
    BY <2>1, <2>2 DEF Aligned
  <2>4. \A b : Due(b)' <=> Due(b)
    BY <2>1, Zenon DEF Due
  <2> HIDE DEF r
  <2>5. CASE r = <<>>
    <3>1. Len(q) = 1 /\ Due(q[Len(q)])
      BY <2>1, <2>2, <2>5 DEF Chain
    <3>2. Due(pk'.edge)
      BY <2>3, <3>1
    <3>3. \A j \in 1 .. Len(r) - 1 : FALSE
      <4>1. Len(r) = 0
        BY <2>2, <2>5, Zenon
      <4> QED
        BY <4>1
    <3> QED
      BY <2>1, <2>4, <2>5, <3>2, <3>3, Zenon DEF Chain, Due
  <2>6. CASE r # <<>>
    <3>1. /\ Len(r) > 0 /\ r[1] = q[2] /\ r[Len(r)] = q[Len(q)]
          /\ 1 \in 1 .. Len(q) - 1
          /\ \A j \in 1 .. Len(r) - 1 : r[j] = q[j + 1] /\ r[j + 1] = q[(j + 1) + 1]
                                        /\ j + 1 \in 1 .. Len(q) - 1
      BY <2>2, <2>6
    <3>2. Follows(q[1], q[2])
      <4>1. Follows(q[1], q[1 + 1])
        BY <3>1, Zenon DEF Chain
      <4> QED
        BY <4>1
    <3>3. Due(q[Len(q)])
      BY <2>1, Zenon DEF Chain
    <3>4. ASSUME NEW j \in 1 .. Len(r) - 1 PROVE Follows(r[j], r[j + 1])
      <4>1. Follows(q[j + 1], q[(j + 1) + 1])
        BY <3>1, Zenon DEF Chain
      <4> QED
        BY <3>1, <4>1, Zenon
    <3>5. Follows(pk'.edge, r[1]) /\ Due(r[Len(r)])
      BY <2>3, <3>1, <3>2, <3>3, Zenon
    <3> QED
      BY <2>1, <2>4, <2>6, <3>4, <3>5, Zenon DEF Chain, Due
  <2> QED
    BY <2>5, <2>6
<1>5. CASE BeginStep \/ EndStep \/ RampTick \/ EndRamp \/ UNCHANGED vars
  <2>1. UNCHANGED <<edge_i, speed, since, left, whole, queue, pk>>
    BY <1>5, Zenon DEF BeginStep, EndStep, EndStepIf, RampTick, EndRamp,
       vars, patternVars, lineVars, alignVars
  <2> QED
    BY <2>1, Zenon DEF Chain, Due
<1> QED
  BY <1>1, <1>2, <1>3, <1>4, <1>5, Zenon DEF Next

(* A run begins with one speed. *)
LEMMA OrderedStart == ASSUME Init PROVE Ordered
<1>1. speed = 1 /\ cmd = 1 /\ pending = 1 /\ queue = <<>> /\ pk.edge = NoEdge
  BY DEF Init
<1>2. NoEdge.speed = 1
  BY DEF NoEdge
<1> QED
  BY <1>1, <1>2 DEF Ordered

(* No step lets a speed overtake the one that is ahead of it. *)
LEMMA OrderedStep ==
    ASSUME TypeOK, Ordered, [Next]_vars
    PROVE  Ordered'
<1>0. /\ speed \in Nat /\ cmd \in Nat /\ pk.edge.speed \in Nat /\ queue \in Seq(Captured)
      /\ \A c \in Captured : c.speed \in Nat
  BY DEF TypeOK, PkEdge, Captured, Steps
<1>n. PICK n \in Nat : n = Len(queue)
  BY <1>0
<1>q. \A j \in 1 .. n : queue[j] \in Captured /\ queue[j].speed \in Nat
  BY <1>0, <1>n
(* The emitter's speed goes on to what was asked for or not at all, and an *)
(* edge that is captured has the speed it was emitted with.                *)
<1>1. ASSUME NEW e \in Captured, e.speed = speed, queue' = Append(queue, e), pk' = pk,
             cmd' = cmd, pending' = pending, speed' = speed \/ speed' = pending
      PROVE  Ordered'
  <2>1. /\ Len(queue') = n + 1 /\ queue'[n + 1] = e
        /\ \A j \in 1 .. n : queue'[j] = queue[j]
    BY <1>0, <1>1, <1>n
  <2>2. speed <= speed' /\ speed' <= cmd /\ speed' \in Nat
    BY <1>0, <1>1 DEF Ordered
  <2>3. ASSUME NEW j \in 1 .. n + 1
        PROVE  pk.edge.speed <= queue'[j].speed /\ queue'[j].speed <= speed
    <3>1. CASE j = n + 1
      BY <1>0, <1>1, <2>1, <3>1 DEF Ordered
    <3>2. CASE j # n + 1
      BY <1>n, <2>1, <3>2 DEF Ordered
    <3> QED
      BY <3>1, <3>2
  <2>4. \A j \in 1 .. n + 1 : queue'[j].speed \in Nat
    BY <1>0, <1>1, <1>q, <2>1
  <2>5. ASSUME NEW i \in 1 .. n + 1, NEW j \in 1 .. n + 1, i <= j
        PROVE  queue'[i].speed <= queue'[j].speed
    <3>1. CASE j = n + 1
      BY <1>1, <2>1, <2>3, <3>1
    <3>2. CASE j # n + 1
      <4>1. i \in 1 .. n /\ j \in 1 .. n
        BY <2>5, <3>2
      <4> QED
        BY <1>n, <2>1, <2>5, <4>1 DEF Ordered
    <3> QED
      BY <3>1, <3>2
  <2>6. \A j \in 1 .. n + 1 : queue'[j].speed <= speed'
    BY <1>0, <2>2, <2>3, <2>4
  <2>7. pk.edge.speed <= speed'
    BY <1>0, <2>2 DEF Ordered
  <2> QED
    BY <1>1, <2>1, <2>2, <2>3, <2>5, <2>6, <2>7 DEF Ordered
<1>2. CASE Emit
  <2> DEFINE e == [dt |-> since + left, idx |-> edge_i, speed |-> speed,
                   age |-> age, whole |-> whole]
  <2>1. e \in Captured
    <3>1. since + left \in Nat /\ edge_i \in Edges \union {None}
      BY DEF TypeOK
    <3> QED
      BY <3>1, CapturedEdge
  <2>2. e.speed = speed
    OBVIOUS
  <2>3. /\ queue' = Append(queue, e) /\ pk' = pk /\ cmd' = cmd /\ pending' = pending
        /\ (speed' = speed \/ speed' = pending)
    BY <1>2, Zenon DEF Emit, Fire, alignVars, stepVars
  <2> HIDE DEF e
  <2> QED
    BY <1>1, <2>1, <2>2, <2>3
<1>3. CASE Spurious
  <2>1. PICK d \in 1 .. left - 1 :
           queue' = Append(queue, [dt |-> since + d, idx |-> None, speed |-> speed,
                                   age |-> age, whole |-> whole])
    BY <1>3, Zenon DEF Spurious
  <2> DEFINE e == [dt |-> since + d, idx |-> None, speed |-> speed,
                   age |-> age, whole |-> whole]
  <2>2. e \in Captured
    <3>1. since + d \in Nat
      BY <2>1 DEF TypeOK
    <3> QED
      BY <3>1, CapturedEdge
  <2>3. e.speed = speed
    OBVIOUS
  <2>4. /\ queue' = Append(queue, e) /\ pk' = pk /\ cmd' = cmd /\ pending' = pending
        /\ speed' = speed
    BY <1>3, <2>1, Zenon DEF Spurious, alignVars, stepVars, patternVars
  <2> HIDE DEF e
  <2> QED
    BY <1>1, <2>2, <2>3, <2>4
<1>4. CASE Miss
  <2>1. /\ UNCHANGED <<queue, pk, cmd, pending>> /\ (speed' = speed \/ speed' = pending)
    BY <1>4, Zenon DEF Miss, Fire, alignVars, stepVars
  <2>2. speed <= speed' /\ speed' <= cmd /\ speed' \in Nat
    BY <1>0, <2>1 DEF Ordered
  <2>3. \A j \in 1 .. n : queue[j].speed <= speed'
    BY <1>0, <1>n, <1>q, <2>2 DEF Ordered
  <2>4. pk.edge.speed <= speed'
    BY <1>0, <2>2 DEF Ordered
  <2> QED
    BY <1>n, <2>1, <2>2, <2>3, <2>4 DEF Ordered
<1>5. CASE Process
  <2>1. /\ queue # <<>> /\ pk' = Aligned(Head(queue)) /\ queue' = Tail(queue)
        /\ UNCHANGED <<speed, cmd, pending>>
    BY <1>5, Zenon DEF Process, patternVars, stepVars
  <2>2. /\ Head(queue) = queue[1] /\ n >= 1 /\ Len(queue') = n - 1
        /\ \A j \in 1 .. n - 1 : queue'[j] = queue[j + 1]
    BY <1>0, <1>n, <2>1
  <2>3. pk'.edge = queue[1]
    BY <2>1, <2>2 DEF Aligned
  <2>4. \A j \in 1 .. n : queue[1].speed <= queue[j].speed
    BY <1>n, <2>2 DEF Ordered
  <2> QED
    BY <1>n, <2>1, <2>2, <2>3, <2>4 DEF Ordered
<1>6. CASE EndStep \/ RampTick
  <2>1. /\ UNCHANGED <<speed, pk, queue>>
        /\ \/ cmd' = cmd + 1 /\ pending' = cmd + 1
           \/ cmd' = cmd /\ pending' = pending
    BY <1>6, Zenon DEF EndStep, EndStepIf, RampTick, patternVars, lineVars, alignVars
  <2> QED
    BY <1>0, <2>1 DEF Ordered
<1>7. CASE BeginStep \/ EndRamp \/ UNCHANGED vars
  <2>1. UNCHANGED <<speed, pk, queue, cmd, pending>>
    BY <1>7, Zenon DEF BeginStep, EndRamp, vars, patternVars, lineVars, alignVars, stepVars
  <2> QED
    BY <2>1 DEF Ordered
<1> QED
  BY <1>2, <1>3, <1>4, <1>5, <1>6, <1>7, Zenon DEF Next

-----------------------------------------------------------------------------
(* What Aligned() makes of an edge, field by field. *)
LEMMA AlignedFields ==
    ASSUME NEW e
    PROVE  /\ Aligned(e).edge = e
           /\ Aligned(e).intra = IF IsSync(e) THEN 1
                                 ELSE IF pk.intra \in 1 .. E - 1 THEN pk.intra + 1 ELSE None
           /\ Aligned(e).rev = IF IsSync(e) /\ synced THEN pk.rev + 1 ELSE pk.rev
<1>1. Aligned(e).edge = e
  BY DEF Aligned
<1>2. Aligned(e).intra = IF IsSync(e) THEN 1
                         ELSE IF pk.intra \in 1 .. E - 1 THEN pk.intra + 1 ELSE None
  BY DEF Aligned
<1>3. Aligned(e).rev = IF IsSync(e) /\ synced THEN pk.rev + 1 ELSE pk.rev
  BY DEF Aligned
<1> QED
  BY <1>1, <1>2, <1>3, Zenon

(* Between successive edges of the wheel the threshold finds the sync gap. *)
LEMMA SyncGap ==
    ASSUME NEW D \in Nat, Tracks(D), Within(D), TypeOK, Chain, Ordered,
           have_last, NEW e, queue # <<>>, e = queue[1],
           pk.edge.idx # None, e.idx # None, e.whole
    PROVE  /\ pk.edge.idx \in Edges /\ e.idx = Succ(pk.edge.idx)
           /\ IsSync(e) <=> pk.edge.idx = E
<1>1. pk.edge.idx \in Edges /\ cmd \in Steps /\ pk.edge.speed \in Steps
  BY DEF TypeOK, PkEdge, Captured
<1>2. e \in Captured /\ 1 \in 1 .. Len(queue)
  BY DEF TypeOK
<1>3. Follows(pk.edge, e)
  BY Zenon DEF Chain
<1>4. e.idx = Succ(pk.edge.idx) /\ e.dt = GapTime(pk.edge.idx, pk.edge.speed, e.speed)
  BY <1>3, Zenon DEF Follows
<1>5. pk.edge.speed <= e.speed /\ e.speed <= speed /\ speed <= cmd
  BY <1>2, Zenon DEF Ordered
<1>6. e.speed \in Steps /\ speed \in Steps
  BY <1>2 DEF Captured, TypeOK
<1>7. e.speed <= cmd /\ cmd <= pk.edge.speed + D
  BY <1>1, <1>5, <1>6 DEF Within, Steps
<1>8. 2 * e.dt >= TwiceThreshold * Period[cmd] <=> pk.edge.idx = E
  <2>1. /\ pk.edge.speed \in cmd - D .. cmd /\ e.speed \in pk.edge.speed .. cmd
        /\ pk.edge.speed > 0
    BY <1>1, <1>5, <1>6, <1>7 DEF Steps
  <2>2. \A k \in cmd - D .. cmd : \A next \in k .. cmd : \A i \in Edges :
            k > 0 => (2 * GapTime(i, k, next) >= TwiceThreshold * Period[cmd] <=> i = E)
    BY <1>1, Zenon DEF Tracks
  <2>3. 2 * GapTime(pk.edge.idx, pk.edge.speed, e.speed) >= TwiceThreshold * Period[cmd]
            <=> pk.edge.idx = E
    BY <1>1, <2>1, <2>2, Zenon
  <2> QED
    BY <1>4, <2>3, Zenon
<1>9. IsSync(e) <=> pk.edge.idx = E
  BY <1>8, Zenon DEF IsSync, LongGap
<1> QED
  BY <1>1, <1>4, <1>9, Zenon

(* An edge is taken for what it is as soon as tooth 0 has been passed with *)
(* nothing wrong since the edge before it.                                 *)
HealInv ==
    /\ clean > 0 => have_last /\ pk.edge.idx # None
    /\ clean > 0 /\ clean > pk.edge.idx => pk.intra = pk.edge.idx

(* Before the first edge nothing is known. *)
LEMMA HealStart == Init => Chain /\ Ordered /\ HealInv
<1> SUFFICES ASSUME Init PROVE Chain /\ Ordered /\ HealInv
  OBVIOUS
<1>1. queue = <<>> /\ pk.edge = NoEdge /\ clean = 0
  BY DEF Init
<1>2. NoEdge.idx = None
  BY DEF NoEdge
<1>3. Due(pk.edge)
  BY <1>1, <1>2, Zenon DEF Due
<1>4. \A j \in 1 .. Len(queue) - 1 : FALSE
  BY <1>1
<1>5. Ordered
  BY OrderedStart
<1> QED
  BY <1>1, <1>3, <1>4, <1>5 DEF Chain, HealInv

(* An edge within D steps of the speed commanded tells the threshold. *)
LEMMA HealStep ==
    ASSUME NEW D \in Nat, Tracks(D)
    PROVE  TypeOK /\ Chain /\ Ordered /\ Within(D) /\ HealInv /\ [Next]_vars
             => Chain' /\ Ordered' /\ HealInv'
<1> SUFFICES ASSUME TypeOK, Chain, Ordered, Within(D), HealInv, [Next]_vars PROVE HealInv'
  BY ChainStep, OrderedStep
<1>1. CASE Process
  <2> DEFINE e == Head(queue)
  <2>1. /\ pk' = Aligned(e) /\ have_last' = TRUE
        /\ clean' = IF e.idx = None THEN 0
                    ELSE IF ~e.whole THEN 1
                    ELSE IF clean > E THEN clean ELSE clean + 1
        /\ queue # <<>>
    BY <1>1, Zenon DEF Process
  <2>2. e \in Captured /\ e = queue[1]
    BY <2>1 DEF TypeOK
  <2> HIDE DEF e
  <2>3. e.idx \in Edges \union {None} /\ clean \in Nat
    BY <2>2 DEF Captured, TypeOK
  <2>4. have_last' /\ pk'.edge = e
    BY <2>1, AlignedFields, Zenon
  <2>5. CASE e.idx = None
    <3>1. clean' = 0
      BY <2>1, <2>5, Zenon
    <3> QED
      BY <3>1 DEF HealInv
  <2>6. CASE e.idx # None /\ ~e.whole
    <3>1. clean' = 1
      BY <2>1, <2>6, Zenon
    <3>2. e.idx \in Nat /\ e.idx >= 1
      BY <2>3, <2>6 DEF Edges
    <3>3. ~(clean' > pk'.edge.idx)
      BY <2>4, <3>1, <3>2
    <3> QED
      BY <2>4, <2>6, <3>3, Zenon DEF HealInv
  <2>7. CASE e.idx # None /\ e.whole
    <3>1. clean' = IF clean > E THEN clean ELSE clean + 1
      BY <2>1, <2>7, Zenon
    <3>2. e.idx \in Nat /\ e.idx >= 1
      BY <2>3, <2>7 DEF Edges
    <3>3. ASSUME clean' > e.idx PROVE pk'.intra = e.idx
      <4>1. clean > 0
        BY <2>3, <3>1, <3>2, <3>3, Geometry
      <4>2. /\ pk.edge.idx \in Edges /\ e.idx = Succ(pk.edge.idx)
            /\ IsSync(e) <=> pk.edge.idx = E
        <5>1. have_last /\ pk.edge.idx # None
          BY <4>1, Zenon DEF HealInv
        <5> QED
          BY <2>1, <2>2, <2>7, <5>1, SyncGap, Zenon
      <4>3. pk'.intra = IF IsSync(e) THEN 1
                        ELSE IF pk.intra \in 1 .. E - 1 THEN pk.intra + 1 ELSE None
        BY <2>1, AlignedFields, Zenon
      <4>4. CASE pk.edge.idx = E
        <5>1. e.idx = 1
          BY <4>2, <4>4, Geometry
        <5> QED
          BY <4>2, <4>3, <4>4, <5>1, Zenon
      <4>5. CASE pk.edge.idx # E
        <5>1. e.idx = pk.edge.idx + 1
          BY <4>2, <4>5, Geometry
        <5>2. clean > pk.edge.idx /\ pk.edge.idx \in 1 .. E - 1
          BY <2>3, <3>1, <3>3, <4>2, <4>5, <5>1, Geometry DEF Edges
        <5>3. pk.intra = pk.edge.idx
          BY <4>1, <5>2, Zenon DEF HealInv
        <5> QED
          BY <4>2, <4>3, <4>5, <5>1, <5>2, <5>3, Zenon
      <4> QED
        BY <4>4, <4>5
    <3> QED
      BY <2>4, <2>7, <3>3, Zenon DEF HealInv
  <2> QED
    BY <2>5, <2>6, <2>7
<1>2. CASE Emit \/ Miss \/ Spurious \/ BeginStep \/ EndStep \/ RampTick \/ EndRamp
           \/ UNCHANGED vars
  <2>1. UNCHANGED alignVars
    BY <1>2, Zenon DEF Emit, Miss, Spurious, BeginStep, EndStep, EndStepIf,
       RampTick, EndRamp, vars
  <2> QED
    BY <2>1, Zenon DEF alignVars, HealInv
<1> QED
  BY <1>1, <1>2, Zenon DEF Next

(* After E + 1 edges tooth 0 has been passed. *)
LEMMA HealEnds == TypeOK /\ HealInv => Healed
<1> SUFFICES ASSUME TypeOK, HealInv, clean > E PROVE pk.intra = pk.edge.idx
  BY Zenon DEF Healed
<1>1. clean \in Nat /\ pk.edge.idx \in Edges \union {None}
  BY DEF TypeOK, PkEdge, Captured
<1>2. clean > 0 /\ clean > pk.edge.idx
  BY <1>1, Geometry DEF Edges, None
<1> QED
  BY <1>2, Zenon DEF HealInv

(* E + 1 edges without a fault align tooth 0 again, whatever was captured  *)
(* before, as long as the speed commanded does not run away from the one   *)
(* being processed by more than the threshold bears.                       *)
THEOREM HealedHolds ==
    ASSUME NEW D \in Nat, Tracks(D)
    PROVE  Spec /\ []Within(D) => []Healed
BY HealStart, HealStep, HealEnds, TypeCorrect, PTL DEF Spec

(* It never does if the threshold bears the whole schedule. *)
LEMMA WithinAll == TypeOK => Len(Period) \in Nat /\ Within(Len(Period))
BY ScheduleAssumption DEF TypeOK, PkEdge, Captured, Steps, Within

(* Then the alignment heals always. *)
COROLLARY HealedOnAll ==
    ASSUME Tracks(Len(Period))
    PROVE  Spec => []Healed
<1>1. TypeOK /\ Chain /\ Ordered /\ HealInv /\ [Next]_vars => Chain' /\ Ordered' /\ HealInv'
  BY WithinAll, HealStep
<1> QED
  BY <1>1, HealStart, HealEnds, TypeCorrect, PTL DEF Spec

-----------------------------------------------------------------------------
(* What is captured is the pattern, and tooth 0 is known or nothing is     *)
(* bracketed.                                                              *)
AngleInv ==
    /\ whole
    /\ \A j \in 1 .. Len(queue) : queue[j].whole /\ queue[j].idx # None
    /\ have_last => pk.edge.idx # None
    /\ ~have_last => ~synced
    /\ ~synced => pk.intra = None
    /\ synced => pk.intra = pk.edge.idx
    /\ RowTrue

(* Before the first edge there is nothing to be wrong about. *)
LEMMA AngleStart == Init => Chain /\ AngleInv
<1> SUFFICES ASSUME Init PROVE Chain /\ AngleInv
  OBVIOUS
<1>1. queue = <<>> /\ pk.edge = NoEdge /\ pk.intra = None
  BY DEF Init
<1>2. NoEdge.idx = None
  BY DEF NoEdge
<1>3. Due(pk.edge)
  BY <1>1, <1>2, Zenon DEF Due
<1>4. /\ \A j \in 1 .. Len(queue) - 1 : FALSE
      /\ \A j \in 1 .. Len(queue) : FALSE
  BY <1>1
<1>5. whole /\ ~have_last /\ ~synced /\ row = NoRow
  BY Zenon DEF Init
<1> QED
  BY <1>1, <1>3, <1>4, <1>5, Zenon DEF Chain, AngleInv, RowTrue

(* Without a fault every step keeps AngleInv. *)
LEMMA AngleStep ==
    ASSUME NEW D \in Nat, Tracks(D)
    PROVE  TypeOK /\ Chain /\ Ordered /\ Within(D) /\ AngleInv /\ NoFaults' /\ [Next]_vars
             => AngleInv'
<1> SUFFICES ASSUME TypeOK, Chain, Ordered, Within(D), AngleInv, NoFaults', [Next]_vars
             PROVE  AngleInv'
  OBVIOUS
<1>0. faults \in Nat /\ faults' = 0
  BY DEF TypeOK, NoFaults
<1>1. CASE Emit
  <2> DEFINE e == [dt |-> since + left, idx |-> edge_i, speed |-> speed,
                   age |-> age, whole |-> whole]
  <2>1. /\ queue' = Append(queue, e) /\ whole' = TRUE /\ UNCHANGED <<alignVars, sampleVars>>
    BY <1>1, Zenon DEF Emit
  <2>2. e.idx # None
    <3>1. edge_i \in Edges /\ e.idx = edge_i
      BY DEF TypeOK
    <3> QED
      BY <3>1, Geometry
  <2>3. e.whole
    BY Zenon DEF AngleInv
  <2>4. e \in Captured
    <3>1. since + left \in Nat /\ edge_i \in Edges \union {None}
      BY DEF TypeOK
    <3> QED
      BY <3>1, CapturedEdge
  <2> HIDE DEF e
  <2>5. \A j \in 1 .. Len(queue') : queue'[j] = e \/ \E i \in 1 .. Len(queue) : queue'[j] = queue[i]
    <3>1. queue \in Seq(Captured)
      BY Zenon DEF TypeOK
    <3> QED
      BY <2>1, <2>4, <3>1
  <2>6. \A j \in 1 .. Len(queue') : queue'[j].whole /\ queue'[j].idx # None
    BY <2>2, <2>3, <2>5, Zenon DEF AngleInv
  <2> QED
    BY <2>1, <2>6, Zenon DEF AngleInv, RowTrue, alignVars, sampleVars
<1>2. CASE Process
  <2> DEFINE e == Head(queue)
  <2>1. PICK spark \in BOOLEAN :
           /\ pk' = Aligned(e) /\ have_last' = TRUE /\ synced' = (synced \/ IsSync(e))
           /\ IF spark /\ Bracketed(pk, Aligned(e)) /\ Accepts(pk)
              THEN row' = <<pk, Aligned(e)>> /\ got' = IF Ramping THEN got ELSE got + 1
              ELSE row' = NoRow /\ got' = got
           /\ queue # <<>> /\ queue' = Tail(queue) /\ whole' = whole
    BY <1>2, Zenon DEF Process
  <2>2. e \in Captured /\ e = queue[1] /\ 1 \in 1 .. Len(queue)
    BY <2>1 DEF TypeOK
  <2>3. \A j \in 1 .. Len(queue') : queue'[j].whole /\ queue'[j].idx # None
    <3>1. \A j \in 1 .. Len(queue') : \E i \in 1 .. Len(queue) : queue'[j] = queue[i]
      <4>1. queue \in Seq(Captured)
        BY Zenon DEF TypeOK
      <4>2. \A j \in 1 .. Len(queue') : queue'[j] = queue[j + 1] /\ j + 1 \in 1 .. Len(queue)
        BY <2>1, <4>1
      <4> QED
        BY <4>2, Zenon
    <3> QED
      BY <3>1, Zenon DEF AngleInv
  <2> HIDE DEF e
  <2>4. e.whole /\ e.idx # None
    BY <2>2, Zenon DEF AngleInv
  <2>5. e.idx \in Edges /\ pk.edge.idx \in Edges \union {None} /\ pk.rev \in Nat
    BY <2>2, <2>4 DEF Captured, TypeOK, PkEdge
  <2>6. /\ pk'.edge = e
        /\ pk'.intra = IF IsSync(e) THEN 1
                       ELSE IF pk.intra \in 1 .. E - 1 THEN pk.intra + 1 ELSE None
        /\ pk'.rev = IF IsSync(e) /\ synced THEN pk.rev + 1 ELSE pk.rev
    BY <2>1, AlignedFields, Zenon
  <2>7. CASE ~have_last
    <3>1. ~synced /\ pk.intra = None /\ ~IsSync(e)
      BY <2>7, Zenon DEF AngleInv, IsSync, LongGap
    <3>2. pk.intra \notin 1 .. E - 1
      BY <3>1 DEF None
    <3>3. pk'.intra = None /\ ~synced' /\ row' = NoRow
      BY <2>1, <2>6, <3>1, <3>2, Zenon DEF Bracketed
    <3> QED
      BY <2>1, <2>3, <2>4, <2>6, <3>3, Zenon DEF AngleInv, RowTrue
  <2>8. CASE have_last
    <3>1. /\ pk.edge.idx \in Edges /\ e.idx = Succ(pk.edge.idx)
          /\ IsSync(e) <=> pk.edge.idx = E
      <4>1. pk.edge.idx # None
        BY <2>8, Zenon DEF AngleInv
      <4> QED
        BY <2>1, <2>2, <2>4, <2>8, <4>1, SyncGap, Zenon
    <3>2. synced' => pk'.intra = e.idx
      <4>1. CASE pk.edge.idx = E
        <5>1. e.idx = 1
          BY <3>1, <4>1, Geometry
        <5> QED
          BY <2>6, <3>1, <4>1, <5>1, Zenon
      <4>2. CASE pk.edge.idx # E /\ synced
        <5>1. e.idx = pk.edge.idx + 1 /\ pk.edge.idx \in 1 .. E - 1
          BY <3>1, <4>2, Geometry DEF Edges
        <5>2. pk.intra = pk.edge.idx
          BY <4>2, Zenon DEF AngleInv
        <5> QED
          BY <2>6, <3>1, <4>2, <5>1, <5>2, Zenon
      <4>3. CASE pk.edge.idx # E /\ ~synced
        BY <2>1, <3>1, <4>3, Zenon
      <4> QED
        BY <4>1, <4>2, <4>3, Zenon
    <3>3. ~synced' => pk'.intra = None
      <4>1. None \notin 1 .. E - 1
        BY DEF None
      <4>2. ~synced' => ~IsSync(e) /\ pk.intra = None
        BY <2>1, Zenon DEF AngleInv
      <4> QED
        BY <2>6, <4>1, <4>2, Zenon
    <3>4. RowTrue'
      <4>1. CASE row' = NoRow
        BY <4>1, Zenon DEF RowTrue
      <4>2. CASE row' # NoRow
        <5>1. row' = <<pk, pk'>> /\ pk.intra # None
          BY <2>1, <4>2, Zenon DEF Bracketed
        <5>2. row'[1] = pk /\ row'[2] = pk'
          BY <5>1
        <5>3. synced /\ pk.intra = pk.edge.idx
          BY <5>1, Zenon DEF AngleInv
        <5>4. pk'.intra = pk'.edge.idx
          BY <2>1, <2>6, <3>2, <5>3, Zenon
        <5>5. e.idx <= pk.edge.idx <=> pk.edge.idx = E
          BY <3>1, Geometry
        <5>6. pk'.rev - pk.rev = IF pk'.edge.idx <= pk.edge.idx THEN 1 ELSE 0
          <6>1. CASE pk.edge.idx = E
            <7>1. pk'.rev = pk.rev + 1
              BY <2>6, <3>1, <5>3, <6>1, Zenon
            <7> QED
              BY <2>5, <2>6, <5>5, <6>1, <7>1
          <6>2. CASE pk.edge.idx # E
            <7>1. pk'.rev = pk.rev
              BY <2>6, <3>1, <6>2, Zenon
            <7> QED
              BY <2>5, <2>6, <5>5, <6>2, <7>1
          <6> QED
            BY <6>1, <6>2
        <5> QED
          BY <5>2, <5>3, <5>4, <5>6, Zenon DEF RowTrue
      <4> QED
        BY <4>1, <4>2
    <3> QED
      BY <2>1, <2>3, <2>4, <2>6, <3>2, <3>3, <3>4, Zenon DEF AngleInv
  <2> QED
    BY <2>7, <2>8
<1>3. CASE BeginStep \/ EndStep \/ RampTick \/ EndRamp \/ UNCHANGED vars
  <2>1. UNCHANGED <<lineVars, alignVars>> /\ (row' = NoRow \/ row' = row)
    BY <1>3, Zenon DEF BeginStep, EndStep, EndStepIf, RampTick, EndRamp, vars,
       sampleVars
  <2>2. RowTrue'
    BY <2>1, Zenon DEF RowTrue, AngleInv
  <2> QED
    BY <2>1, <2>2, Zenon DEF lineVars, alignVars, AngleInv
<1>4. ~Miss /\ ~Spurious
  <2>1. faults' # faults + 1
    BY <1>0
  <2> QED
    BY <2>1, Zenon DEF Miss, Spurious
<1> QED
  BY <1>1, <1>2, <1>3, <1>4, Zenon DEF Next

(* A fault is not taken back. *)
LEMMA StillQuiet == TypeOK /\ NoFaults' /\ [Next]_vars => NoFaults
<1> SUFFICES ASSUME TypeOK, NoFaults', [Next]_vars PROVE faults = 0
  BY DEF NoFaults
<1>1. faults' = faults \/ faults' = faults + 1
  <2>1. CASE Miss \/ Spurious
    BY <2>1, Zenon DEF Miss, Spurious
  <2>2. CASE Emit
    BY <2>2, Zenon DEF Emit
  <2>3. CASE Process
    BY <2>3, Zenon DEF Process
  <2>4. CASE BeginStep \/ EndStep \/ RampTick \/ EndRamp \/ UNCHANGED vars
    BY <2>4, Zenon DEF BeginStep, EndStep, EndStepIf, RampTick, EndRamp, vars, lineVars
  <2> QED
    BY <2>1, <2>2, <2>3, <2>4, Zenon DEF Next
<1> QED
  BY <1>1 DEF TypeOK, NoFaults

QuietInv == NoFaults => AngleInv

(* What AnglesTrue rests on holds at the start, *)
LEMMA QuietStart == Init => Chain /\ Ordered /\ QuietInv
BY AngleStart, OrderedStart DEF QuietInv

(* and is kept while the speed commanded is within D steps. *)
LEMMA QuietStep ==
    ASSUME NEW D \in Nat, Tracks(D)
    PROVE  TypeOK /\ Chain /\ Ordered /\ Within(D) /\ QuietInv /\ [Next]_vars
             => Chain' /\ Ordered' /\ QuietInv'
BY AngleStep, StillQuiet, ChainStep, OrderedStep DEF QuietInv

(* It means that rows are true. *)
LEMMA QuietEnds == QuietInv => AnglesTrue
BY Zenon DEF QuietInv, AngleInv, AnglesTrue

(* Until a fault on the line, every row of a sweep or a ramp is             *)
(* interpolated between the true angles of its edges, as long as the speed  *)
(* commanded does not run away from the one being processed.                *)
THEOREM AnglesTrueHolds ==
    ASSUME NEW D \in Nat, Tracks(D)
    PROVE  Spec /\ []Within(D) => []AnglesTrue
BY QuietStart, QuietStep, QuietEnds, TypeCorrect, PTL DEF Spec

(* It never does if the threshold bears the whole schedule. *)
COROLLARY AnglesTrueOnAll ==
    ASSUME Tracks(Len(Period))
    PROVE  Spec => []AnglesTrue
<1>1. TypeOK /\ Chain /\ Ordered /\ QuietInv /\ [Next]_vars => Chain' /\ Ordered' /\ QuietInv'
  BY WithinAll, QuietStep
<1> QED
  BY <1>1, QuietStart, QuietEnds, TypeCorrect, PTL DEF Spec

-----------------------------------------------------------------------------
(* The revolution a step is counted from. *)
Base == IF phase = "start" THEN pk.rev ELSE step_rev0

(* An edge of speed s and age a, with r tooth zeros passed, is old enough. *)
Aged(s, a, r) == r >= Base + 2 => s = cmd /\ a + 2 >= r - Base

(* The tooth zeros that may have been passed at the edge at place j of the *)
(* queue, and at the one that is due.                                      *)
Zero(j) == \E i \in 1 .. j : queue[i].idx = 1
RevAt(j) == IF Zero(j) THEN pk.rev + 1 ELSE pk.rev
RevDue == IF edge_i = 1 \/ Zero(Len(queue)) THEN pk.rev + 1 ELSE pk.rev

(* Core 1 is less than a revolution behind: there is one tooth 0 from the  *)
(* edge processed last to the one that is due.                             *)
Spaced ==
    \A i \in 1 .. Len(queue) : queue[i].idx = 1 =>
        /\ edge_i = Len(queue) - i + 2
        /\ \A j \in i .. Len(queue) : queue[j].idx = j - i + 1

AgeInv ==
    /\ pending = cmd
    /\ Aged(pk.edge.speed, pk.edge.age, pk.rev)
    /\ \A j \in 1 .. Len(queue) : Aged(queue[j].speed, queue[j].age, RevAt(j))
    /\ Aged(speed, age, RevDue)
    /\ Spaced

(* The numbers AgeInv compares are natural. *)
LEMMA AgeTypes ==
    ASSUME TypeOK
    PROVE  /\ Base \in Nat /\ Base <= pk.rev /\ pk.rev \in Nat /\ step_rev0 \in Nat
           /\ pk.edge.age \in Nat /\ age \in Nat /\ speed \in Steps /\ pk.edge.speed \in Steps
           /\ edge_i \in Edges /\ Len(queue) \in Nat
           /\ \A j \in 1 .. Len(queue) : queue[j] \in Captured /\ queue[j].age \in Nat
           /\ RevDue \in Nat /\ \A j : RevAt(j) \in Nat
<1>1. pk \in PkEdge /\ step_rev0 \in Nat /\ step_rev0 <= pk.rev /\ queue \in Seq(Captured)
  BY DEF TypeOK
<1>2. pk.edge \in Captured /\ pk.rev \in Nat
  BY <1>1 DEF PkEdge
<1>3. pk.edge.age \in Nat /\ pk.edge.speed \in Steps
  BY <1>2 DEF Captured
<1>4. Len(queue) \in Nat /\ \A j \in 1 .. Len(queue) : queue[j] \in Captured
  BY <1>1
<1>5. \A c \in Captured : c.age \in Nat
  BY DEF Captured
<1>6. age \in Nat /\ speed \in Steps /\ edge_i \in Edges
  BY DEF TypeOK
<1> QED
  BY <1>1, <1>2, <1>3, <1>4, <1>5, <1>6 DEF Base, RevDue, RevAt

(* Fewer tooth zeros ask for less. *)
LEMMA AgedLess ==
    ASSUME Base \in Nat, NEW s, NEW a \in Nat, NEW r \in Nat, NEW q \in Nat, q <= r, Aged(s, a, r)
    PROVE  Aged(s, a, q)
BY DEF Aged

(* An edge that is emitted is as old as it should be: the revolution it *)
(* begins is one more at its speed.                                     *)
LEMMA AgeEmit ==
    ASSUME TypeOK, AgeInv, MaxLag + 1 < E, Emit
    PROVE  AgeInv'
<1> DEFINE e == [dt |-> since + left, idx |-> edge_i, speed |-> speed,
                 age |-> age, whole |-> whole]
<1>0. PICK n \in Nat : n = Len(queue)
  BY DEF TypeOK
<1>1. /\ queue' = Append(queue, e) /\ Len(queue) <= MaxLag /\ Fire
      /\ UNCHANGED <<alignVars, stepVars>>
  BY Zenon DEF Emit
<1>2. e \in Captured
  <2>1. since + left \in Nat /\ edge_i \in Edges \union {None}
    BY DEF TypeOK
  <2> QED
    BY <2>1, CapturedEdge
<1>3. e.idx = edge_i /\ e.speed = speed /\ e.age = age
  OBVIOUS
<1> HIDE DEF e
<1>4. queue \in Seq(Captured) /\ n \in Nat
  BY DEF TypeOK
<1>5. /\ Len(queue') = n + 1 /\ queue'[n + 1] = e
      /\ \A j \in 1 .. n : queue'[j] = queue[j]
  BY <1>0, <1>1, <1>2, <1>4
<1>6. pk' = pk /\ phase' = phase /\ step_rev0' = step_rev0 /\ cmd' = cmd /\ pending' = pending
  BY <1>1, Zenon DEF alignVars, stepVars
<1>7. Base' = Base /\ \A s, a, r : Aged(s, a, r)' <=> Aged(s, a, r)
  BY <1>6 DEF Base, Aged
<1>8. \A j \in 1 .. n : Zero(j)' <=> Zero(j)
  BY <1>0, <1>4, <1>5 DEF Zero
<1>9. Zero(n + 1)' <=> Zero(n) \/ edge_i = 1
  BY <1>0, <1>3, <1>4, <1>5 DEF Zero
<1>10. \A j \in 1 .. n : RevAt(j)' = RevAt(j)
  BY <1>0, <1>6, <1>8 DEF RevAt
<1>11. RevAt(n + 1)' = RevDue
  BY <1>0, <1>6, <1>9 DEF RevAt, RevDue
<1>t. /\ Base \in Nat /\ Base <= pk.rev /\ pk.rev \in Nat /\ age \in Nat /\ edge_i \in Edges
      /\ RevDue \in Nat /\ E \in Nat /\ E > 1 /\ MaxLag \in Nat
  BY AgeTypes, Geometry, BoundsAssumption
<1>12. \A j \in 1 .. Len(queue') : Aged(queue[j].speed, queue[j].age, RevAt(j))'
  <2> SUFFICES ASSUME NEW j \in 1 .. n + 1
               PROVE  Aged(queue'[j].speed, queue'[j].age, RevAt(j)')
    BY <1>0, <1>5, <1>7
  <2>1. CASE j = n + 1
    <3>1. queue'[j] = e /\ RevAt(j)' = RevDue
      BY <1>0, <2>1, <1>5, <1>11
    <3> QED
      BY <1>3, <3>1 DEF AgeInv
  <2>2. CASE j # n + 1
    <3>1. j \in 1 .. n
      BY <1>0, <2>2, <1>4
    <3>2. queue'[j] = queue[j] /\ RevAt(j)' = RevAt(j)
      BY <1>0, <3>1, <1>5, <1>10
    <3> QED
      BY <1>0, <3>1, <3>2 DEF AgeInv
  <2> QED
    BY <2>1, <2>2
<1>13. CASE edge_i < E
  <2>1. edge_i' = edge_i + 1 /\ speed' = speed /\ age' = age
    BY <1>1, <1>13, Zenon DEF Fire
  <2>2. edge_i' # 1 /\ RevDue' = RevDue
    <3>1. edge_i' # 1
      BY <2>1, <1>t DEF Edges
    <3> QED
      BY <1>0, <3>1, <1>5, <1>6, <1>9 DEF RevDue
  <2>3. Aged(speed, age, RevDue)'
    BY <1>7, <2>1, <2>2 DEF AgeInv
  <2>4. Spaced'
    <3> SUFFICES ASSUME NEW i \in 1 .. n + 1, queue'[i].idx = 1
                 PROVE  /\ edge_i' = (n + 1) - i + 2
                        /\ \A j \in i .. n + 1 : queue'[j].idx = j - i + 1
      BY <1>0, <1>5 DEF Spaced
    <3>1. CASE i = n + 1
      BY <1>0, <3>1, <2>1, <1>3, <1>4, <1>5
    <3>2. CASE i # n + 1
      <4>1. i \in 1 .. n /\ queue[i].idx = 1
        BY <1>0, <3>2, <1>4, <1>5
      <4>2. edge_i = n - i + 2 /\ \A j \in i .. n : queue[j].idx = j - i + 1
        BY <1>0, <4>1 DEF AgeInv, Spaced
      <4>3. \A j \in i .. n + 1 : queue'[j].idx = j - i + 1
        <5> SUFFICES ASSUME NEW j \in i .. n + 1 PROVE queue'[j].idx = j - i + 1
          OBVIOUS
        <5>1. CASE j = n + 1
          BY <1>0, <5>1, <1>3, <1>4, <1>5, <4>2
        <5>2. CASE j # n + 1
          BY <1>0, <5>2, <1>4, <1>5, <4>1, <4>2
        <5> QED
          BY <5>1, <5>2
      <4> QED
        BY <1>0, <4>1, <4>2, <4>3, <2>1, <1>4
    <3> QED
      BY <3>1, <3>2
  <2> QED
    BY <1>0, <1>5, <1>6, <1>7, <1>12, <2>3, <2>4 DEF AgeInv
<1>14. CASE ~(edge_i < E)
  <2>1. /\ edge_i' = 1 /\ speed' = pending
        /\ age' = IF pending = speed THEN age + 1 ELSE 0
    BY <1>1, <1>14, Zenon DEF Fire
  <2>2. edge_i = E
    BY <1>14, <1>t DEF Edges
  <2>3. ~Zero(n)
    <3> SUFFICES ASSUME NEW i \in 1 .. n, queue[i].idx = 1 PROVE FALSE
      BY DEF Zero
    <3>1. edge_i = n - i + 2
      BY <1>0 DEF AgeInv, Spaced
    <3> QED
      BY <3>1, <2>2, <1>1, <1>4, <1>t, <1>0
  <2>4. RevDue = pk.rev /\ RevDue' = pk.rev + 1
    BY <1>0, <2>1, <2>2, <2>3, <1>6, <1>t, Geometry DEF RevDue
  <2>5. Aged(speed', age', RevDue')
    <3>1. RevDue >= Base + 2 => speed = cmd /\ age + 2 >= RevDue - Base
      BY DEF AgeInv, Aged
    <3>2. speed' = cmd /\ (speed = cmd => age' = age + 1) /\ age' \in Nat
      BY <2>1, <1>t DEF AgeInv
    <3>3. pk.rev + 1 >= Base + 2 => age' + 2 >= (pk.rev + 1) - Base
      BY <1>t, <2>4, <3>1, <3>2
    <3> QED
      BY <2>4, <3>2, <3>3 DEF Aged
  <2>6. Spaced'
    <3> SUFFICES ASSUME NEW i \in 1 .. n + 1, queue'[i].idx = 1 PROVE FALSE
      BY <1>0, <1>5 DEF Spaced
    <3>1. CASE i = n + 1
      BY <1>0, <3>1, <2>2, <1>3, <1>5, <1>t
    <3>2. CASE i # n + 1
      <4>1. i \in 1 .. n /\ queue[i].idx = 1
        BY <1>0, <3>2, <1>4, <1>5
      <4> QED
        BY <1>0, <4>1, <2>3, <1>4 DEF Zero
    <3> QED
      BY <3>1, <3>2
  <2> QED
    BY <1>0, <1>5, <1>6, <1>7, <1>12, <2>5, <2>6 DEF AgeInv
<1> QED
  BY <1>13, <1>14

(* Only tooth 0 is taken for tooth 0. *)
LEMMA SyncIsZero ==
    ASSUME Tracks(1), Within(1), TypeOK, Chain, Ordered, AngleInv,
           queue # <<>>, IsSync(queue[1])
    PROVE  queue[1].idx = 1
<1>1. queue \in Seq(Captured) /\ 1 \in 1 .. Len(queue)
  BY DEF TypeOK
<1>2. have_last /\ pk.edge.idx # None /\ queue[1].idx # None /\ queue[1].whole
  BY <1>1, Zenon DEF IsSync, LongGap, AngleInv
<1>3. pk.edge.idx = E /\ queue[1].idx = Succ(pk.edge.idx)
  BY <1>2, SyncGap, Zenon
<1> QED
  BY <1>3, Geometry DEF Succ

(* Only a tooth 0 is counted as a revolution, and the queue tells how old it *)
(* is.                                                                       *)
LEMMA AgeProcess ==
    ASSUME Tracks(1), Within(1), TypeOK, Chain, Ordered, AngleInv, AgeInv, Process
    PROVE  AgeInv'
<1> DEFINE e == queue[1]
<1>0. PICK n \in Nat : n = Len(queue)
  BY DEF TypeOK
<1>1. /\ phase = "gather" /\ queue # <<>> /\ pk' = Aligned(Head(queue)) /\ queue' = Tail(queue)
      /\ UNCHANGED <<patternVars, stepVars>>
  BY Zenon DEF Process
<1>2. queue \in Seq(Captured) /\ n >= 1 /\ Head(queue) = e
  BY <1>0, <1>1 DEF TypeOK
<1>3. Len(queue') = n - 1 /\ \A j \in 1 .. n - 1 : queue'[j] = queue[j + 1]
  BY <1>0, <1>1, <1>2
<1>4. /\ phase' = phase /\ step_rev0' = step_rev0 /\ cmd' = cmd /\ pending' = pending
      /\ speed' = speed /\ age' = age /\ edge_i' = edge_i
  BY <1>1, Zenon DEF patternVars, stepVars
<1>5. Base' = Base /\ \A s, a, r : Aged(s, a, r)' <=> Aged(s, a, r)
  BY <1>1, <1>4 DEF Base, Aged
<1>6. pk'.edge = e /\ pk'.rev = IF IsSync(e) /\ synced THEN pk.rev + 1 ELSE pk.rev
  BY <1>1, <1>2, AlignedFields, Zenon
<1>7. IsSync(e) => e.idx = 1
  BY <1>1, SyncIsZero, Zenon
<1>t. /\ Base \in Nat /\ Base <= pk.rev /\ pk.rev \in Nat /\ age \in Nat /\ edge_i \in Edges
      /\ RevDue \in Nat /\ \A j \in 1 .. n : queue[j].age \in Nat
      /\ \A j : RevAt(j) \in Nat
  BY <1>0, AgeTypes
<1>8. e.idx = 1 <=> Zero(1)
  BY DEF Zero
<1> HIDE DEF e
(* Either tooth 0 is still to come, or it is the edge processed. *)
<1>9. /\ \A j \in 1 .. n - 1 : RevAt(j)' <= RevAt(j + 1) /\ RevAt(j)' \in Nat
      /\ RevDue' <= RevDue /\ RevDue' \in Nat
  <2>1. CASE pk'.rev = pk.rev
    <3>1. \A j \in 1 .. n - 1 : Zero(j)' => Zero(j + 1)
      <4> SUFFICES ASSUME NEW j \in 1 .. n - 1, NEW i \in 1 .. j, queue'[i].idx = 1
                   PROVE  Zero(j + 1)
        BY DEF Zero
      <4>1. i + 1 \in 1 .. j + 1 /\ queue[i + 1].idx = 1
        BY <1>3
      <4> QED
        BY <4>1, Zenon DEF Zero
    <3>2. \A j \in 1 .. n - 1 : RevAt(j)' <= RevAt(j + 1) /\ RevAt(j)' \in Nat
      BY <2>1, <1>t, <3>1 DEF RevAt
    <3>3. RevDue' <= RevDue /\ RevDue' \in Nat
      <4>1. Zero(n - 1)' => Zero(n)
        <5>1. CASE n - 1 \in 1 .. n - 1
          <6>1. (n - 1) + 1 = n
            OBVIOUS
          <6> QED
            BY <3>1, <5>1, <6>1
        <5>2. CASE n - 1 \notin 1 .. n - 1
          BY <1>2, <5>2 DEF Zero
        <5> QED
          BY <5>1, <5>2
      <4> QED
        BY <1>0, <1>3, <1>4, <2>1, <1>t, <4>1 DEF RevDue
    <3> QED
      BY <1>t, <3>2, <3>3
  <2>2. CASE pk'.rev # pk.rev
    <3>1. pk'.rev = pk.rev + 1 /\ e.idx = 1
      BY <1>6, <1>7, <2>2, Zenon
    <3>2. edge_i = n - 1 + 2 /\ \A j \in 1 .. n : queue[j].idx = j - 1 + 1
      BY <1>0, <1>2, <3>1 DEF AgeInv, Spaced, e
    <3>3. \A j \in 1 .. n - 1 : ~Zero(j)'
      <4> SUFFICES ASSUME NEW j \in 1 .. n - 1, NEW i \in 1 .. j, queue'[i].idx = 1
                   PROVE  FALSE
        BY DEF Zero
      <4>1. i + 1 \in 1 .. n /\ queue[i + 1].idx = 1
        BY <1>3
      <4> QED
        BY <3>2, <4>1
    <3>4. ~Zero(n - 1)' /\ edge_i # 1
      <4>1. CASE n - 1 \in 1 .. n - 1
        BY <3>2, <3>3, <4>1
      <4>2. CASE n - 1 \notin 1 .. n - 1
        BY <1>2, <3>2, <4>2 DEF Zero
      <4> QED
        BY <4>1, <4>2
    <3>5. Zero(n) /\ \A j \in 1 .. n : Zero(j)
      BY <1>2, <3>1 DEF Zero, e
    <3>6. \A j \in 1 .. n - 1 : RevAt(j)' = RevAt(j + 1)
      BY <3>1, <3>3, <3>5 DEF RevAt
    <3>7. RevDue' = RevDue
      BY <1>0, <1>3, <1>4, <3>1, <3>4, <3>5 DEF RevDue
    <3> QED
      BY <1>t, <3>6, <3>7
  <2> QED
    BY <2>1, <2>2
<1>10. pk'.rev <= RevAt(1) /\ pk'.rev \in Nat
  BY <1>6, <1>7, <1>8, <1>t DEF RevAt
<1>11. Aged(e.speed, e.age, pk'.rev)
  <2>1. Aged(e.speed, e.age, RevAt(1)) /\ e.age \in Nat /\ RevAt(1) \in Nat
    BY <1>0, <1>2, <1>t DEF AgeInv, e
  <2> QED
    BY <1>10, <1>t, <2>1, AgedLess
<1>12. \A j \in 1 .. n - 1 : Aged(queue'[j].speed, queue'[j].age, RevAt(j)')
  <2> SUFFICES ASSUME NEW j \in 1 .. n - 1
               PROVE  Aged(queue'[j].speed, queue'[j].age, RevAt(j)')
    OBVIOUS
  <2>1. j + 1 \in 1 .. n /\ queue'[j] = queue[j + 1]
    BY <1>2, <1>3
  <2>2. Aged(queue[j + 1].speed, queue[j + 1].age, RevAt(j + 1)) /\ queue[j + 1].age \in Nat
    BY <1>0, <1>t, <2>1 DEF AgeInv
  <2>3. RevAt(j)' <= RevAt(j + 1) /\ RevAt(j)' \in Nat /\ RevAt(j + 1) \in Nat
    BY <1>9, <1>t
  <2> QED
    BY <1>t, <2>1, <2>2, <2>3, AgedLess
<1>13. Aged(speed, age, RevDue')
  BY <1>9, <1>t, AgedLess DEF AgeInv
<1>14. Spaced'
  <2> SUFFICES ASSUME NEW i \in 1 .. n - 1, queue'[i].idx = 1
               PROVE  /\ edge_i = (n - 1) - i + 2
                      /\ \A j \in i .. n - 1 : queue'[j].idx = j - i + 1
    BY <1>3, <1>4 DEF Spaced
  <2>1. i + 1 \in 1 .. n /\ queue[i + 1].idx = 1
    BY <1>2, <1>3
  <2>2. /\ edge_i = n - (i + 1) + 2
        /\ \A j \in i + 1 .. n : queue[j].idx = j - (i + 1) + 1
    BY <1>0, <2>1 DEF AgeInv, Spaced
  <2>3. ASSUME NEW j \in i .. n - 1 PROVE queue'[j].idx = j - i + 1
    <3>1. j + 1 \in i + 1 .. n /\ queue'[j] = queue[j + 1]
      BY <1>2, <1>3
    <3>2. queue[j + 1].idx = (j + 1) - (i + 1) + 1
      BY <2>2, <3>1
    <3> QED
      BY <3>1, <3>2
  <2> QED
    BY <1>2, <2>2, <2>3
<1>15. \A j \in 1 .. Len(queue') : Aged(queue[j].speed, queue[j].age, RevAt(j))'
  BY <1>3, <1>5, <1>12
<1>16. pending' = cmd' /\ Aged(pk.edge.speed, pk.edge.age, pk.rev)' /\ Aged(speed, age, RevDue)'
  BY <1>4, <1>5, <1>6, <1>11, <1>13 DEF AgeInv
<1> QED
  BY <1>14, <1>15, <1>16, Zenon DEF AgeInv

(* A new step starts counting at the revolution processed last. *)
LEMMA AgeNewStep ==
    ASSUME TypeOK, Base' = pk.rev, pending' = cmd', Spaced,
           UNCHANGED <<pk, queue, edge_i, speed, age>>
    PROVE  AgeInv'
<1>1. Base' \in Nat /\ pk.rev \in Nat /\ pk.rev = Base'
  BY AgeTypes
<1>2. \A s, a : \A r \in {pk.rev, pk.rev + 1} : Aged(s, a, r)'
  BY <1>1 DEF Aged
<1>3. /\ \A j : RevAt(j)' \in {pk.rev, pk.rev + 1}
      /\ RevDue' \in {pk.rev, pk.rev + 1}
  BY DEF RevAt, RevDue
<1>4. Spaced'
  BY DEF Spaced
<1>5. Aged(pk.edge.speed, pk.edge.age, pk.rev)' /\ Aged(speed, age, RevDue)'
  BY <1>2, <1>3 DEF Aged
<1>6. \A j \in 1 .. Len(queue') : Aged(queue[j].speed, queue[j].age, RevAt(j))'
  BY <1>2, <1>3 DEF Aged
<1> QED
  BY <1>4, <1>5, <1>6, Zenon DEF AgeInv

(* AgeInv holds when a sweep begins, *)
LEMMA AgeStart == ASSUME Init PROVE AgeInv
<1>1. Base = 0 /\ pk.rev = 0 /\ queue = <<>> /\ pending = cmd
  BY DEF Init, Base
<1>2. RevDue \in {0, 1}
  BY <1>1 DEF RevDue
<1>3. \A s, a : Aged(s, a, 0) /\ Aged(s, a, 1)
  BY <1>1 DEF Aged
<1>4. \A i \in 1 .. Len(queue) : FALSE
  BY <1>1
<1>5. Aged(speed, age, RevDue)
  BY <1>2, <1>3
<1> QED
  BY <1>1, <1>3, <1>4, <1>5 DEF AgeInv, Spaced

(* and every step without a fault keeps it. *)
LEMMA AgeStep ==
    ASSUME Tracks(1), MaxLag + 1 < E, ~Ramping,
           TypeOK, Chain, Ordered, Within(1), AngleInv, AgeInv, NoFaults', [Next]_vars
    PROVE  AgeInv'
<1>1. CASE Emit
  BY <1>1, AgeEmit
<1>2. CASE Process
  BY <1>2, AgeProcess
<1>3. CASE BeginStep
  <2>1. /\ phase' = "gather" /\ step_rev0' = pk.rev
        /\ UNCHANGED <<pk, queue, edge_i, speed, age, cmd, pending>>
    BY <1>3, Zenon DEF BeginStep, patternVars, lineVars, alignVars
  <2>2. Base' = pk.rev
    BY <2>1 DEF Base
  <2> QED
    BY <2>1, <2>2, AgeNewStep DEF AgeInv
<1>4. CASE EndStep
  <2>1. /\ phase = "gather" /\ UNCHANGED <<pk, queue, edge_i, speed, age, step_rev0>>
        /\ \/ cmd' = cmd + 1 /\ pending' = cmd + 1 /\ phase' = "start"
           \/ phase' = "done" /\ cmd' = cmd /\ pending' = pending
    BY <1>4, Zenon DEF EndStep, EndStepIf, patternVars, lineVars, alignVars
  <2>2. CASE phase' = "start" /\ cmd' = cmd + 1 /\ pending' = cmd + 1
    <3>1. Base' = pk.rev
      BY <2>1, <2>2 DEF Base
    <3> QED
      BY <2>1, <2>2, <3>1, AgeNewStep DEF AgeInv
  <2>3. CASE phase' = "done" /\ cmd' = cmd /\ pending' = pending
    <3>1. Base' = Base
      BY <2>1, <2>3 DEF Base
    <3> QED
      BY <2>1, <2>3, <3>1 DEF AgeInv, Aged, Spaced, RevAt, RevDue, Zero
  <2> QED
    BY <2>1, <2>2, <2>3
<1>5. CASE UNCHANGED vars
  <2>1. UNCHANGED <<pk, queue, edge_i, speed, age, cmd, pending, phase, step_rev0>>
    BY <1>5 DEF vars, patternVars, lineVars, alignVars, stepVars
  <2> QED
    BY <2>1 DEF AgeInv, Aged, Spaced, RevAt, RevDue, Zero, Base
<1>6. ~Miss /\ ~Spurious
  <2>1. faults \in Nat /\ faults' = 0
    BY DEF TypeOK, NoFaults
  <2>2. faults' # faults + 1
    BY <2>1
  <2> QED
    BY <2>2, Zenon DEF Miss, Spurious
<1>7. ~RampTick /\ ~EndRamp
  BY DEF RampTick, EndRamp
<1> QED
  BY <1>1, <1>2, <1>3, <1>4, <1>5, <1>6, <1>7, Zenon DEF Next

(* The row accepted last is a settled one. *)
RowAged == row # NoRow => row[1].edge.speed = cmd /\ row[1].edge.age + 2 >= Settle

(* A row that is accepted comes from edges old enough. *)
LEMMA RowAgedStep ==
    ASSUME Settle >= 2, ~Ramping, TypeOK, AgeInv, RowAged, NoFaults', [Next]_vars
    PROVE  RowAged'
<1>1. CASE Process
  <2>1. cmd' = cmd /\ phase = "gather"
    BY <1>1, Zenon DEF Process, stepVars
  <2>2. row' = NoRow \/ (row' = <<pk, Aligned(Head(queue))>> /\ Accepts(pk))
    BY <1>1, Zenon DEF Process
  <2>3. CASE row' = NoRow
    BY <2>3, Zenon DEF RowAged
  <2>4. CASE row' = <<pk, Aligned(Head(queue))>> /\ Accepts(pk)
    <3>1. row'[1] = pk
      BY <2>4
    <3>2. pk.rev >= Base + Settle
      BY <2>1, <2>4 DEF Accepts, Settled, Base
    <3>3. Settle \in Nat /\ Base \in Nat /\ pk.rev \in Nat /\ pk.edge.age \in Nat
      BY ScheduleAssumption, AgeTypes
    <3>4. pk.edge.speed = cmd /\ pk.edge.age + 2 >= pk.rev - Base
      BY <3>2, <3>3 DEF AgeInv, Aged
    <3>5. pk.edge.age + 2 >= Settle
      BY <3>2, <3>3, <3>4
    <3> QED
      BY <2>1, <3>1, <3>4, <3>5, Zenon DEF RowAged
  <2> QED
    BY <2>2, <2>3, <2>4
<1>2. CASE Emit \/ UNCHANGED vars
  <2>1. row' = row /\ cmd' = cmd
    BY <1>2, Zenon DEF Emit, vars, stepVars, sampleVars
  <2> QED
    BY <2>1, Zenon DEF RowAged
<1>3. CASE BeginStep \/ EndStep
  <2>1. row' = NoRow
    BY <1>3, Zenon DEF BeginStep, EndStep, EndStepIf
  <2> QED
    BY <2>1, Zenon DEF RowAged
<1>4. ~Miss /\ ~Spurious
  <2>1. faults \in Nat /\ faults' = 0
    BY DEF TypeOK, NoFaults
  <2>2. faults' # faults + 1
    BY <2>1
  <2> QED
    BY <2>2, Zenon DEF Miss, Spurious
<1>5. ~RampTick /\ ~EndRamp
  BY DEF RampTick, EndRamp
<1> QED
  BY <1>1, <1>2, <1>3, <1>4, <1>5, Zenon DEF Next

-----------------------------------------------------------------------------
(* How far the emitter of a sweep can be behind.  Core 1 is less than a    *)
(* revolution behind, so an edge that was emitted in the revolution in     *)
(* progress or after one at the same speed has its speed; a step lasts     *)
(* longer than it takes to get there.                                      *)

(* Edge i was emitted m edges before the one that is due. *)
Back(i, m) == i = edge_i - m \/ i = edge_i - m + E

Place ==
    /\ have_last => Back(pk.edge.idx, Len(queue) + 1)
    /\ \A j \in 1 .. Len(queue) : Back(queue[j].idx, Len(queue) + 1 - j)

SameRev ==
    /\ have_last /\ (pk.edge.idx < edge_i \/ age > 0) => pk.edge.speed = speed
    /\ \A j \in 1 .. Len(queue) : queue[j].idx < edge_i \/ age > 0 => queue[j].speed = speed

Fresh ==
    ~have_last =>
        /\ edge_i = Len(queue) + 1 /\ age = 0 /\ pk.rev = 0
        /\ queue = <<>> /\ phase = "gather" => spent = 0

GotSettled == phase = "gather" /\ got > 0 => pk.rev >= step_rev0 + Settle

(* When the last edge of the revolution in progress is due, at latest. *)
Rest(i, k) == (Angle[E] - Angle[i]) * Period[k]
Spent == IF phase = "start" THEN 0 ELSE spent
ToLast == Spent + left + Rest(edge_i, speed)
LateRev(q) == Wheel * Period[q - 1] + (Wheel - Angle[E]) * Period[q - 1] + Angle[E] * Period[q]

Pace ==
    phase # "done" =>
        /\ speed # cmd => ToLast <= Wheel * Period[speed]
        /\ speed = cmd /\ age = 0 /\ cmd > 1 => ToLast <= LateRev(cmd)

PaceInv == Within(1) /\ Place /\ SameRev /\ Fresh /\ GotSettled /\ Pace

(* The wheel has a length and every speed is one. *)
LEMMA Sizes ==
    /\ Wheel \in Nat /\ Wheel > 0 /\ Angle[E] \in Nat /\ Angle[E] < Wheel
    /\ \A k \in Steps : Period[k] \in Nat /\ Period[k] > 0
<1>1. Wheel \in Nat /\ Angle[E] < Wheel
  BY GeometryAssumption
<1>2. Angle[E] \in Nat
  BY GeometryAssumption, Geometry DEF E
<1>3. \A k \in Steps : Period[k] \in Nat /\ Period[k] > 0
  BY ScheduleAssumption DEF Steps
<1> QED
  BY <1>1, <1>2, <1>3

(* What is left of a revolution after edge i, edge by edge. *)
LEMMA RestOf ==
    /\ \A i \in Edges : \A k \in Steps : Rest(i, k) \in Nat /\ Wheel * Period[k] \in Nat
    /\ \A k \in Steps : Rest(E, k) = 0
    /\ \A i \in Edges : \A k, n \in Steps :
         i < E => GapTime(i, k, n) + Rest(i + 1, k) = Rest(i, k)
    /\ \A k, n \in Steps :
         GapTime(E, k, n) + Rest(1, n) = (Wheel - Angle[E]) * Period[k] + Angle[E] * Period[n]
    /\ \A i \in Edges : \A k \in Steps :
         GapTime(i, k, k) + Rest(Succ(i), k) <= Wheel * Period[k]
<1>1. /\ \A i \in Edges : Angle[i] \in Nat
      /\ Wheel \in Nat /\ Angle[E] < Wheel /\ E \in Edges /\ 1 \in Edges
  BY GeometryAssumption, Geometry DEF Edges, E
<1>2. \A i \in Edges : Angle[i] <= Angle[E]
  <2> SUFFICES ASSUME NEW i \in Edges PROVE Angle[i] <= Angle[E]
    OBVIOUS
  <2>1. i < E \/ i = E
    BY Geometry DEF Edges
  <2>2. i < E => Angle[i] < Angle[E]
    BY <1>1, GeometryAssumption, Zenon
  <2> QED
    BY <1>1, <2>1, <2>2
<1>3. \A k \in Steps : Period[k] \in Nat
  BY ScheduleAssumption DEF Steps
<1>4. \A a, b, c, p \in Int : (b - a) * p + (c - b) * p = (c - a) * p
  OBVIOUS
<1>5. \A a, b \in Nat : a * b \in Nat
  OBVIOUS
<1>6. ASSUME NEW i \in Edges, NEW k \in Steps
      PROVE  Rest(i, k) \in Nat /\ Wheel * Period[k] \in Nat
  <2>1. Angle[E] - Angle[i] \in Nat
    BY <1>1, <1>2
  <2> QED
    BY <1>1, <1>3, <1>5, <2>1, Zenon DEF Rest
<1>7. ASSUME NEW k \in Steps PROVE Rest(E, k) = 0
  <2>1. Angle[E] - Angle[E] = 0
    BY <1>1
  <2>2. Period[k] \in Nat
    BY <1>3
  <2> QED
    BY <2>1, <2>2 DEF Rest
<1>8. ASSUME NEW i \in Edges, NEW k \in Steps, NEW n \in Steps, i < E
      PROVE  GapTime(i, k, n) + Rest(i + 1, k) = Rest(i, k)
  <2>1. i + 1 \in Edges
    BY <1>8, Geometry DEF Edges
  <2>2. Angle[i] \in Int /\ Angle[i + 1] \in Int /\ Angle[E] \in Int /\ Period[k] \in Int
    BY <1>1, <1>3, <2>1
  <2>3. GapTime(i, k, n) = (Angle[i + 1] - Angle[i]) * Period[k]
    BY <1>8, Zenon DEF GapTime, GapDeg
  <2>4. (Angle[i + 1] - Angle[i]) * Period[k] + (Angle[E] - Angle[i + 1]) * Period[k]
          = (Angle[E] - Angle[i]) * Period[k]
    BY <1>4, <2>2
  <2> QED
    BY <2>3, <2>4, Zenon DEF Rest
<1>9. ASSUME NEW k \in Steps, NEW n \in Steps
       PROVE  GapTime(E, k, n) + Rest(1, n)
                = (Wheel - Angle[E]) * Period[k] + Angle[E] * Period[n]
  <2>1. GapTime(E, k, n) = (Wheel - Angle[E]) * Period[k] + Angle[1] * Period[n]
    <3>1. ~(E < E)
      BY Geometry
    <3> QED
      BY <3>1, Zenon DEF GapTime
  <2> DEFINE x == (Wheel - Angle[E]) * Period[k]
  <2>2. /\ Angle[1] \in Int /\ Angle[E] \in Int /\ Period[n] \in Int
        /\ Wheel - Angle[E] \in Int /\ Period[k] \in Int
    BY <1>1, <1>3
  <2>3. x \in Int
    BY <2>2
  <2> HIDE DEF x
  <2>4. (Angle[E] - Angle[1]) * Period[n] + Angle[1] * Period[n] = Angle[E] * Period[n]
    BY <2>2
  <2>5. /\ (Angle[E] - Angle[1]) * Period[n] \in Int /\ Angle[1] * Period[n] \in Int
        /\ Angle[E] * Period[n] \in Int
    BY <2>2
  <2>6. GapTime(E, k, n) = x + Angle[1] * Period[n]
        /\ Rest(1, n) = (Angle[E] - Angle[1]) * Period[n]
    BY <2>1, Zenon DEF Rest, x
  <2>7. GapTime(E, k, n) + Rest(1, n) = x + Angle[E] * Period[n]
    BY <2>3, <2>4, <2>5, <2>6
  <2> QED
    BY <2>7, Zenon DEF x
<1>10. ASSUME NEW i \in Edges, NEW k \in Steps
       PROVE  GapTime(i, k, k) + Rest(Succ(i), k) <= Wheel * Period[k]
  <2>1. /\ Angle[i] \in Nat /\ Angle[E] \in Nat /\ Wheel \in Nat /\ Period[k] \in Nat
        /\ Angle[E] < Wheel
    BY <1>1, <1>3
  <2>2. CASE i < E
    <3>1. Succ(i) = i + 1
      BY <2>2 DEF Succ
    <3>2. GapTime(i, k, k) + Rest(Succ(i), k) = Rest(i, k)
      BY <1>8, <2>2, <3>1
    <3>3. \A a, b, c \in Nat : a <= b => a * c <= b * c
      OBVIOUS
    <3>4. Angle[E] - Angle[i] \in Nat /\ Angle[E] - Angle[i] <= Wheel
      BY <1>2, <2>1
    <3>5. Rest(i, k) <= Wheel * Period[k]
      BY <2>1, <3>3, <3>4, Zenon DEF Rest
    <3> QED
      BY <3>2, <3>5
  <2>3. CASE i = E
    <3>1. Succ(i) = 1
      BY <2>3, Geometry
    <3>2. GapTime(i, k, k) + Rest(1, k) = (Wheel - Angle[E]) * Period[k] + Angle[E] * Period[k]
      BY <1>9, <2>3
    <3>3. (Wheel - Angle[E]) * Period[k] + Angle[E] * Period[k] = Wheel * Period[k]
      BY <2>1
    <3>4. Wheel * Period[k] \in Int
      BY <2>1
    <3> QED
      BY <3>1, <3>2, <3>3, <3>4
  <2> QED
    BY <2>2, <2>3, Geometry DEF Edges
<1> QED
  BY <1>6, <1>7, <1>8, <1>9, <1>10

(* The numbers in LateRev are whole. *)
LEMMA LateInt ==
    ASSUME NEW q \in Steps, q > 1
    PROVE  /\ Wheel * Period[q - 1] \in Int /\ (Wheel - Angle[E]) * Period[q - 1] \in Int
           /\ Angle[E] * Period[q] \in Int /\ LateRev(q) \in Int
<1>1. q - 1 \in Steps
  BY ScheduleAssumption DEF Steps
<1>2. Period[q] \in Int /\ Period[q - 1] \in Int
  BY <1>1, ScheduleAssumption DEF Steps
<1>3. Angle[E] \in Int /\ Wheel \in Int
  BY GeometryAssumption, Geometry DEF Edges, E
<1>4. \A a, b \in Int : a * b \in Int /\ a + b \in Int /\ a - b \in Int
  OBVIOUS
<1> QED
  BY <1>2, <1>3, <1>4, Zenon DEF LateRev

(* A bound that holds for the edge that is due holds for the one after it. *)
LEMMA PaceEmit ==
    ASSUME TypeOK, Ordered, PaceInv, Emit
    PROVE  Pace'
<1>1. /\ Fire /\ UNCHANGED <<phase, cmd>> /\ pending = cmd /\ phase # "done"
      /\ spent' = spent + left /\ left' = GapTime(edge_i, speed, pending)
  BY Zenon DEF Emit, Fire, TimePasses, stepVars, Ordered
<1>2. /\ edge_i \in Edges /\ speed \in Steps /\ cmd \in Steps /\ age \in Nat
      /\ left \in Nat /\ spent \in Nat
  BY DEF TypeOK
<1>3. GapTime(edge_i, speed, pending) \in Nat
  BY <1>1, <1>2, GapTimeNat
<1>4. Spent \in Nat /\ Spent' \in Nat /\ Spent' <= Spent + left
  BY <1>1, <1>2 DEF Spent
<1>5. CASE edge_i < E
  <2>1. edge_i' = edge_i + 1 /\ speed' = speed /\ age' = age
    BY <1>1, <1>5, Zenon DEF Fire
  <2>2. /\ left' + Rest(edge_i + 1, speed) = Rest(edge_i, speed) /\ Rest(edge_i, speed) \in Nat
        /\ Rest(edge_i + 1, speed) \in Nat
    <3>1. edge_i + 1 \in Edges
      BY <1>2, <1>5, Geometry DEF Edges
    <3> QED
      BY <1>1, <1>2, <1>5, <3>1, RestOf
  <2>3. ToLast' = Spent' + left' + Rest(edge_i + 1, speed)
    BY <2>1 DEF ToLast, Rest
  <2>4. ToLast' <= ToLast /\ ToLast' \in Nat /\ ToLast \in Nat
    BY <1>1, <1>2, <1>3, <1>4, <2>2, <2>3 DEF ToLast
  <2>5. Wheel * Period[speed] \in Nat
    BY <1>2, RestOf
  <2>6. speed # cmd => ToLast' <= Wheel * Period[speed]
    BY <1>1, <2>4, <2>5 DEF PaceInv, Pace
  <2>7. ASSUME speed = cmd, age = 0, cmd > 1 PROVE ToLast' <= LateRev(cmd)
    <3>1. ToLast <= LateRev(cmd)
      BY <1>1, <2>7, Zenon DEF PaceInv, Pace
    <3>2. LateRev(cmd) \in Int
      BY <1>2, <2>7, LateInt
    <3> QED
      BY <2>4, <3>1, <3>2
  <2> QED
    BY <1>1, <2>1, <2>6, <2>7 DEF Pace, LateRev
<1>6. CASE ~(edge_i < E)
  <2>1. /\ edge_i' = 1 /\ speed' = cmd /\ edge_i = E
        /\ age' = IF pending = speed THEN age + 1 ELSE 0
    <3>1. edge_i = E
      BY <1>2, <1>6, Geometry DEF Edges
    <3> QED
      BY <1>1, <1>6, <3>1, Zenon DEF Fire
  <2>2. ASSUME age' = 0, cmd > 1 PROVE ToLast' <= LateRev(cmd)
    <3>1. speed # cmd
      BY <1>1, <1>2, <2>1, <2>2
    <3>2. speed = cmd - 1
      <4>1. speed <= cmd /\ pk.edge.speed <= speed /\ cmd <= pk.edge.speed + 1
        BY DEF Ordered, PaceInv, Within
      <4>2. pk.edge.speed \in Nat /\ speed \in Nat /\ cmd \in Nat
        BY DEF TypeOK, PkEdge, Captured, Steps
      <4> QED
        BY <3>1, <4>1, <4>2
    <3>3. ToLast <= Wheel * Period[cmd - 1]
      BY <1>1, <3>1, <3>2 DEF PaceInv, Pace
    <3>4. ToLast = Spent + left
      <4>1. Rest(edge_i, speed) = 0
        BY <1>2, <2>1, RestOf, Zenon
      <4> QED
        BY <1>2, <1>4, <4>1 DEF ToLast
    <3>5. left' + Rest(1, cmd) = (Wheel - Angle[E]) * Period[cmd - 1] + Angle[E] * Period[cmd]
      <4>1. GapTime(E, speed, cmd) + Rest(1, cmd)
              = (Wheel - Angle[E]) * Period[speed] + Angle[E] * Period[cmd]
        BY <1>2, RestOf, Zenon
      <4> QED
        BY <1>1, <2>1, <3>2, <4>1
    <3>6. ToLast' = Spent' + left' + Rest(1, cmd)
      BY <1>1, <2>1 DEF ToLast, Rest
    <3>7. /\ Wheel * Period[cmd - 1] \in Int /\ (Wheel - Angle[E]) * Period[cmd - 1] \in Int
          /\ Angle[E] * Period[cmd] \in Int
      BY <1>2, <2>2, LateInt
    <3>8. Rest(1, cmd) \in Nat /\ left' \in Nat
      BY <1>1, <1>2, <1>3, RestOf, Geometry DEF Edges
    <3>9. LateRev(cmd) = Wheel * Period[cmd - 1]
            + ((Wheel - Angle[E]) * Period[cmd - 1] + Angle[E] * Period[cmd])
      BY <3>7 DEF LateRev
    <3> DEFINE a == Wheel * Period[cmd - 1]
               b == (Wheel - Angle[E]) * Period[cmd - 1] + Angle[E] * Period[cmd]
    <3>10. a \in Int /\ b \in Int
      BY <3>7
    <3>11. ToLast <= a /\ left' + Rest(1, cmd) = b /\ LateRev(cmd) = a + b
      BY <3>3, <3>5, <3>9
    <3> HIDE DEF a, b
    <3> QED
      BY <1>2, <1>4, <3>4, <3>6, <3>8, <3>10, <3>11
  <2> QED
    BY <1>1, <2>1, <2>2 DEF Pace, LateRev
<1> QED
  BY <1>5, <1>6

(* While core 1 is less than a revolution behind, an edge that is emitted *)
(* has no other of its place among those in flight.                       *)
LEMMA PlaceEmit ==
    ASSUME MaxLag + 1 < E, TypeOK, Ordered, PaceInv, Emit
    PROVE  Place' /\ SameRev' /\ Fresh'
<1> DEFINE e == [dt |-> since + left, idx |-> edge_i, speed |-> speed,
                 age |-> age, whole |-> whole]
<1>0. PICK n \in Nat : n = Len(queue)
  BY DEF TypeOK
<1>1. /\ queue' = Append(queue, e) /\ Len(queue) <= MaxLag /\ Fire
      /\ UNCHANGED <<pk, have_last, phase>>
  BY Zenon DEF Emit, alignVars, stepVars
<1>2. e \in Captured
  <2>1. since + left \in Nat /\ edge_i \in Edges \union {None}
    BY DEF TypeOK
  <2> QED
    BY <2>1, CapturedEdge
<1>3. e.idx = edge_i /\ e.speed = speed
  OBVIOUS
<1> HIDE DEF e
<1>4. /\ queue \in Seq(Captured) /\ edge_i \in Edges /\ age \in Nat /\ E \in Nat
      /\ n + 1 < E
  BY <1>0, <1>1, Geometry, BoundsAssumption DEF TypeOK
<1>5. /\ Len(queue') = n + 1 /\ queue'[n + 1] = e
      /\ \A j \in 1 .. n : queue'[j] = queue[j]
  BY <1>0, <1>1, <1>2, <1>4
<1>6. \A j \in 1 .. n : queue[j].idx \in Edges \union {None}
  <2>1. \A j \in 1 .. n : queue[j] \in Captured
    BY <1>0, <1>4
  <2>2. \A c \in Captured : c.idx \in Edges \union {None}
    BY DEF Captured
  <2> QED
    BY <2>1, <2>2
<1>7. pk.edge.idx \in Edges \union {None}
  BY DEF TypeOK, PkEdge, Captured
<1>8. /\ have_last => Back(pk.edge.idx, n + 1)
      /\ \A j \in 1 .. n : Back(queue[j].idx, n + 1 - j)
  BY <1>0 DEF PaceInv, Place
<1>9. /\ have_last /\ (pk.edge.idx < edge_i \/ age > 0) => pk.edge.speed = speed
      /\ \A j \in 1 .. n : queue[j].idx < edge_i \/ age > 0 => queue[j].speed = speed
  BY <1>0 DEF PaceInv, SameRev
<1>10. CASE edge_i < E
  <2>1. edge_i' = edge_i + 1 /\ speed' = speed /\ age' = age
    BY <1>1, <1>10, Zenon DEF Fire
  <2>2. have_last => Back(pk.edge.idx, n + 2)'
    BY <1>1, <1>4, <1>7, <1>8, <2>1 DEF Back, Edges, None
  <2>3. ASSUME NEW j \in 1 .. n + 1 PROVE Back(queue[j].idx, n + 2 - j)'
    <3>1. CASE j = n + 1
      BY <1>3, <1>4, <1>5, <2>1, <3>1 DEF Back, Edges
    <3>2. CASE j # n + 1
      <4>1. j \in 1 .. n /\ Back(queue[j].idx, n + 1 - j) /\ queue'[j] = queue[j]
        BY <1>5, <1>8, <3>2
      <4>2. queue[j].idx \in Int
        BY <1>6, <4>1 DEF Edges, None
      <4> QED
        BY <1>4, <2>1, <4>1, <4>2 DEF Back, Edges
    <3> QED
      BY <3>1, <3>2
  <2>4. have_last /\ (pk.edge.idx < edge_i + 1 \/ age > 0) => pk.edge.speed = speed
    BY <1>4, <1>7, <1>8, <1>9 DEF Back, Edges, None
  <2>5. ASSUME NEW j \in 1 .. n + 1, queue'[j].idx < edge_i + 1 \/ age > 0
        PROVE  queue'[j].speed = speed
    <3>1. CASE j = n + 1
      BY <1>3, <1>5, <3>1
    <3>2. CASE j # n + 1
      <4>1. /\ j \in 1 .. n /\ Back(queue[j].idx, n + 1 - j) /\ queue'[j] = queue[j]
            /\ queue[j].idx \in Edges \union {None}
        BY <1>5, <1>6, <1>8, <3>2
      <4>2. queue[j].idx < edge_i \/ age > 0
        BY <1>4, <2>5, <4>1 DEF Back, Edges, None
      <4> QED
        BY <1>9, <4>1, <4>2
    <3> QED
      BY <3>1, <3>2
  <2>6. Fresh'
    <3>1. queue' # <<>>
      BY <1>5
    <3> QED
      BY <1>0, <1>1, <1>4, <1>5, <2>1, <3>1 DEF PaceInv, Fresh
  <2> QED
    BY <1>1, <1>5, <2>1, <2>2, <2>3, <2>4, <2>5, <2>6 DEF Place, SameRev
<1>11. CASE ~(edge_i < E)
  <2>1. /\ edge_i' = 1 /\ speed' = pending /\ edge_i = E
        /\ age' = IF pending = speed THEN age + 1 ELSE 0
    <3>1. edge_i = E
      BY <1>4, <1>11 DEF Edges
    <3> QED
      BY <1>1, <1>11, <3>1, Zenon DEF Fire
  <2>2. have_last => Back(pk.edge.idx, n + 2)' /\ pk.edge.idx < edge_i
    BY <1>1, <1>4, <1>7, <1>8, <2>1 DEF Back, Edges, None
  <2>3. ASSUME NEW j \in 1 .. n
        PROVE  Back(queue[j].idx, n + 2 - j)' /\ queue[j].idx < edge_i
    <3>1. /\ Back(queue[j].idx, n + 1 - j) /\ queue'[j] = queue[j]
          /\ queue[j].idx \in Edges \union {None}
      BY <1>5, <1>6, <1>8
    <3> QED
      BY <1>4, <2>1, <3>1 DEF Back, Edges, None
  <2>4. Back(queue[n + 1].idx, 1)'
    BY <1>3, <1>4, <1>5, <2>1 DEF Back
  <2>5. ASSUME NEW j \in 1 .. n + 1 PROVE Back(queue[j].idx, n + 2 - j)'
    <3>1. CASE j = n + 1
      <4>1. n + 2 - j = 1
        BY <3>1
      <4> QED
        BY <2>4, <3>1, <4>1
    <3>2. CASE j # n + 1
      BY <2>3, <3>2
    <3> QED
      BY <3>1, <3>2
  <2>6. have_last /\ (pk.edge.idx < edge_i' \/ age' > 0) => pk.edge.speed = speed'
    <3>1. CASE pending = speed
      BY <1>9, <2>1, <2>2, <3>1
    <3>2. CASE pending # speed
      BY <1>4, <1>7, <2>1, <2>2, <3>2, <1>1 DEF Back, Edges, None
    <3> QED
      BY <3>1, <3>2
  <2>7. ASSUME NEW j \in 1 .. n + 1, queue'[j].idx < edge_i' \/ age' > 0
        PROVE  queue'[j].speed = speed'
    <3>1. CASE pending = speed
      BY <1>3, <1>5, <1>9, <2>1, <2>3, <3>1
    <3>2. CASE pending # speed
      <4>1. age' = 0 /\ queue'[j].idx < 1
        BY <2>1, <2>7, <3>2
      <4>2. CASE j = n + 1
        BY <1>3, <1>4, <1>5, <2>1, <4>1, <4>2
      <4>3. CASE j # n + 1
        <5>1. Back(queue[j].idx, n + 1 - j) /\ queue'[j] = queue[j] /\ j \in 1 .. n
          BY <1>5, <1>8, <4>3
        <5> QED
          BY <1>4, <2>1, <4>1, <5>1 DEF Back
      <4> QED
        BY <4>2, <4>3
    <3> QED
      BY <3>1, <3>2
  <2>8. Fresh'
    <3>1. ~have_last => edge_i = n + 1
      BY <1>0 DEF PaceInv, Fresh
    <3> QED
      BY <1>1, <1>4, <2>1, <3>1 DEF Fresh
  <2> QED
    BY <1>1, <1>5, <2>1, <2>2, <2>5, <2>6, <2>7, <2>8 DEF Place, SameRev
<1> QED
  BY <1>10, <1>11

(* Core 1 does not overtake the emitter, and takes a revolution for settled *)
(* only once it has been.                                                   *)
LEMMA PaceProcess ==
    ASSUME ~Ramping, TypeOK, Ordered, PaceInv, Process
    PROVE  PaceInv'
<1>0. PICK n \in Nat : n = Len(queue)
  BY DEF TypeOK
<1>1. /\ queue # <<>> /\ pk' = Aligned(Head(queue)) /\ queue' = Tail(queue) /\ have_last'
      /\ got' = got \/ (Accepts(pk) /\ got' = got + 1)
      /\ UNCHANGED <<edge_i, speed, age, left, spent, phase, cmd, step_rev0>>
  BY Zenon DEF Process, patternVars, stepVars
<1>2. /\ queue \in Seq(Captured) /\ Head(queue) = queue[1] /\ n >= 1 /\ Len(queue') = n - 1
      /\ \A j \in 1 .. n - 1 : queue'[j] = queue[j + 1]
  BY <1>0, <1>1 DEF TypeOK
<1>3. pk'.edge = queue[1] /\ pk'.rev >= pk.rev
  <2>1. queue[1] \in Captured /\ pk \in PkEdge
    BY <1>0, <1>2 DEF TypeOK
  <2> QED
    BY <1>1, <1>2, <2>1, AlignedEdge, AlignedFields
<1>4. Within(1)'
  <2>1. pk.edge.speed <= queue[1].speed /\ cmd <= pk.edge.speed + 1
    BY <1>0, <1>2 DEF Ordered, PaceInv, Within
  <2>2. pk.edge.speed \in Nat /\ queue[1].speed \in Nat /\ cmd \in Nat
    <3>1. pk.edge \in Captured /\ queue[1] \in Captured /\ cmd \in Nat
      BY <1>0, <1>2 DEF TypeOK, PkEdge, Steps
    <3> QED
      BY <3>1 DEF Captured, Steps
  <2> QED
    BY <1>1, <1>3, <2>1, <2>2 DEF Within
<1>5. \A j \in 1 .. n : Back(queue[j].idx, n + 1 - j)
  BY <1>0 DEF PaceInv, Place
<1>6. Place'
  <2>1. Back(queue[1].idx, n)
    <3>1. Back(queue[1].idx, n + 1 - 1) /\ n + 1 - 1 = n
      BY <1>2, <1>5
    <3> QED
      BY <3>1
  <2>2. ASSUME NEW j \in 1 .. n - 1 PROVE Back(queue'[j].idx, n - j)
    <3>1. Back(queue[j + 1].idx, n + 1 - (j + 1)) /\ n + 1 - (j + 1) = n - j
      BY <1>5
    <3> QED
      BY <1>2, <3>1
  <2> QED
    <3>1. Back(pk.edge.idx, Len(queue) + 1)'
      <4>1. Len(queue') + 1 = n
        BY <1>2
      <4> QED
        BY <1>1, <1>3, <2>1, <4>1 DEF Back
    <3>2. ASSUME NEW j \in 1 .. n - 1 PROVE Back(queue[j].idx, Len(queue) + 1 - j)'
      <4>1. Len(queue') + 1 - j = n - j
        BY <1>2
      <4>2. Back(queue'[j].idx, n - j)
        BY <2>2
      <4> QED
        BY <1>1, <4>1, <4>2 DEF Back
    <3>3. \A j \in 1 .. Len(queue') : j \in 1 .. n - 1
      BY <1>2
    <3> QED
      BY <3>1, <3>2, <3>3, Zenon DEF Place
<1>7. SameRev'
  <2>1. \A j \in 1 .. n : queue[j].idx < edge_i \/ age > 0 => queue[j].speed = speed
    BY <1>0 DEF PaceInv, SameRev
  <2> QED
    BY <1>1, <1>2, <1>3, <2>1 DEF SameRev
<1>8. Fresh'
  BY <1>1, Zenon DEF Fresh
<1>9. GotSettled'
  <2>1. pk.rev \in Nat /\ pk'.rev \in Nat /\ step_rev0 \in Nat /\ Settle \in Nat /\ got \in Nat
    <3>1. pk' \in PkEdge
      <4>1. queue[1] \in Captured /\ pk \in PkEdge
        BY <1>0, <1>2 DEF TypeOK
      <4> QED
        BY <1>1, <1>2, <4>1, AlignedEdge
    <3> QED
      BY <3>1, ScheduleAssumption DEF TypeOK, PkEdge
  <2>2. CASE got' = got
    BY <1>1, <1>3, <2>1, <2>2 DEF PaceInv, GotSettled
  <2>3. CASE Accepts(pk)
    BY <1>1, <1>3, <2>1, <2>3 DEF GotSettled, Accepts, Settled
  <2> QED
    BY <1>1, <2>2, <2>3
<1>10. Pace'
  BY <1>1 DEF PaceInv, Pace, ToLast, Spent, Rest, LateRev
<1> QED
  BY <1>4, <1>6, <1>7, <1>8, <1>9, <1>10 DEF PaceInv

(* A step ends by its deadlines only when the emitter has long been at its *)
(* speed, and by its samples only when core 1 has.                         *)
LEMMA Arrived ==
    ASSUME TakenInTime, Settle >= 2, ~Ramping, TypeOK, Ordered, AgeInv, PaceInv, EndStep
    PROVE  pk.edge.speed = cmd /\ (queue # <<>> \/ have_last)
<1>1. phase = "gather" /\ (got = Want \/ Overdue)
  BY Zenon DEF EndStep, EndStepIf
<1>2. /\ cmd \in Steps /\ speed \in Steps /\ age \in Nat /\ spent \in Nat /\ left \in Nat
      /\ edge_i \in Edges /\ got \in Nat /\ pk.rev \in Nat /\ step_rev0 \in Nat
      /\ pk.edge.speed \in Steps /\ Want \in Nat /\ Want > 0 /\ Settle \in Nat
  BY ScheduleAssumption DEF TypeOK, PkEdge, Captured
<1>3. /\ pk.edge.speed <= speed /\ speed <= cmd /\ cmd <= pk.edge.speed + 1
  BY DEF Ordered, PaceInv, Within
<1>4. CASE got = Want
  <2>1. pk.rev >= step_rev0 + Settle
    BY <1>1, <1>2, <1>4 DEF PaceInv, GotSettled
  <2>2. Base = step_rev0
    BY <1>1 DEF Base
  <2>3. pk.edge.speed = cmd
    BY <1>2, <2>1, <2>2 DEF AgeInv, Aged
  <2>4. have_last
    BY <1>2, <2>1 DEF PaceInv, Fresh
  <2> QED
    BY <2>3, <2>4
<1>5. CASE Overdue
  <2>1. PICK revs \in {Settle + NoFireRevs, 2 * (Settle + Want + SpareRevs)} :
          spent >= revs * (Wheel * Period[cmd])
    <3>1. /\ NoFireDeadline = (Settle + NoFireRevs) * (Wheel * Period[cmd])
          /\ SampleDeadline = 2 * (Settle + Want + SpareRevs) * (Wheel * Period[cmd])
      BY Zenon DEF NoFireDeadline, SampleDeadline, Rev
    <3>2. spent >= SampleDeadline \/ spent >= NoFireDeadline
      BY <1>5, Zenon DEF Overdue
    <3> QED
      BY <3>1, <3>2, Zenon
  <2>2. revs \in Nat /\ revs > 0
    BY ScheduleAssumption
  <2>3. revs * (Wheel * Period[cmd]) \in Nat /\ revs * (Wheel * Period[cmd]) > 0
    <3>1. \A a, b \in Nat \ {0} : a * b \in Nat \ {0}
      OBVIOUS
    <3>2. Wheel \in Nat \ {0} /\ Period[cmd] \in Nat \ {0} /\ revs \in Nat \ {0}
      BY <1>2, <2>2, Sizes
    <3>3. revs * (Wheel * Period[cmd]) \in Nat \ {0}
      BY <3>1, <3>2, Zenon
    <3> QED
      BY <3>3
  <2>4. queue # <<>> \/ have_last
    BY <1>1, <1>2, <2>1, <2>3 DEF PaceInv, Fresh
  <2>5. spent <= ToLast /\ ToLast \in Nat
    <3>1. Rest(edge_i, speed) \in Nat
      BY <1>2, RestOf
    <3> QED
      BY <1>1, <1>2, <3>1 DEF ToLast, Spent
  <2>6. ASSUME cmd > 1 PROVE LateRev(cmd) < revs * (Wheel * Period[cmd])
    <3>1. cmd \in Steps \ {1}
      BY <1>2, <2>6
    <3> QED
      BY <3>1, Zenon DEF TakenInTime, LateRev
  <2>7. ASSUME pk.edge.speed # cmd PROVE FALSE
    <3>1. cmd > 1 /\ pk.edge.speed = cmd - 1
      BY <1>2, <1>3, <2>7 DEF Steps
    <3>2. LateRev(cmd) \in Int /\ Wheel * Period[cmd - 1] \in Nat
          /\ Wheel * Period[cmd - 1] <= LateRev(cmd)
      <4>1. cmd - 1 \in Steps
        BY <1>2, <3>1
      <4>2. (Wheel - Angle[E]) * Period[cmd - 1] \in Nat /\ Angle[E] * Period[cmd] \in Nat
        <5>1. /\ Wheel - Angle[E] \in Nat /\ Angle[E] \in Nat
              /\ Period[cmd - 1] \in Nat /\ Period[cmd] \in Nat
          BY <1>2, <4>1, Sizes
        <5>2. \A a, b \in Nat : a * b \in Nat
          OBVIOUS
        <5> QED
          BY <5>1, <5>2, Zenon
      <4>3. Wheel * Period[cmd - 1] \in Nat
        BY <4>1, RestOf, Geometry DEF Edges
      <4> DEFINE a == Wheel * Period[cmd - 1]
                 b == (Wheel - Angle[E]) * Period[cmd - 1]
                 c == Angle[E] * Period[cmd]
      <4>4. LateRev(cmd) = a + b + c /\ a \in Nat /\ b \in Nat /\ c \in Nat
        BY <4>2, <4>3 DEF LateRev
      <4>5. a <= LateRev(cmd) /\ LateRev(cmd) \in Int
        <5> HIDE DEF a, b, c
        <5> QED
          BY <4>4
      <4> QED
        BY <4>3, <4>5
    <3>3. CASE speed # cmd
      <4>1. speed = cmd - 1
        BY <1>2, <1>3, <3>1, <3>3 DEF Steps
      <4>2. ToLast <= Wheel * Period[cmd - 1]
        BY <1>1, <3>3, <4>1 DEF PaceInv, Pace
      <4> QED
        BY <1>2, <2>1, <2>3, <2>5, <2>6, <3>1, <3>2, <4>2
    <3>4. CASE speed = cmd /\ age = 0
      <4>1. ToLast <= LateRev(cmd)
        BY <1>1, <3>1, <3>4, Zenon DEF PaceInv, Pace
      <4> QED
        BY <1>2, <2>1, <2>3, <2>5, <2>6, <3>1, <3>2, <4>1
    <3>5. CASE speed = cmd /\ age # 0
      <4>1. have_last
        BY <1>2, <3>5 DEF PaceInv, Fresh
      <4> QED
        BY <1>2, <2>7, <3>5, <4>1 DEF PaceInv, SameRev
    <3> QED
      BY <3>3, <3>4, <3>5
  <2> QED
    BY <2>4, <2>7
<1> QED
  BY <1>1, <1>4, <1>5

(* Then every edge in flight has the speed of the step that ends, and the  *)
(* next one has less than a revolution to go at it.                        *)
LEMMA PaceEnd ==
    ASSUME TakenInTime, Settle >= 2, ~Ramping, TypeOK, Chain, Ordered, AngleInv, AgeInv,
           PaceInv, EndStep
    PROVE  PaceInv'
<1>1. /\ UNCHANGED <<edge_i, speed, age, left, since, whole, queue, have_last, pk, step_rev0, got>>
      /\ \/ cmd' = cmd + 1 /\ phase' = "start"
         \/ cmd' = cmd /\ phase' = "done"
  BY Zenon DEF EndStep, EndStepIf, patternVars, lineVars, alignVars
<1>2. pk.edge.speed = cmd /\ (queue # <<>> \/ have_last)
  BY Arrived
<1>3. cmd \in Nat /\ cmd \in Steps /\ speed \in Steps /\ edge_i \in Edges
      /\ left \in Nat /\ since \in Nat
  BY DEF TypeOK, Steps
<1>4. speed = cmd
  BY <1>2, <1>3 DEF Ordered, Steps
<1>5. Within(1)'
  BY <1>1, <1>2, <1>3 DEF Within
<1>6. Place' /\ SameRev'
  BY <1>1 DEF PaceInv, Place, SameRev, Back
<1>7. Fresh' /\ GotSettled'
  BY <1>1 DEF PaceInv, Fresh, GotSettled
<1>8. Pace'
  <2>1. PICK c \in Captured : Due(c) /\ c.idx # None /\ c.speed = cmd
    <3>1. CASE queue = <<>>
      <4>1. pk.edge \in Captured
        BY DEF TypeOK, PkEdge
      <4> QED
        BY <1>2, <3>1, <4>1, Zenon DEF Chain, AngleInv
    <3>2. CASE queue # <<>>
      <4>1. queue[Len(queue)] \in Captured /\ Len(queue) \in 1 .. Len(queue)
        BY <3>2 DEF TypeOK
      <4>2. queue[Len(queue)].speed \in Steps
        BY <4>1 DEF Captured
      <4>3. queue[Len(queue)].speed = cmd
        BY <1>2, <1>3, <1>4, <4>1, <4>2 DEF Ordered, Steps
      <4> QED
        BY <3>2, <4>1, <4>3, Zenon DEF Chain, AngleInv
    <3> QED
      BY <3>1, <3>2
  <2>2. edge_i = Succ(c.idx) /\ since + left = GapTime(c.idx, cmd, cmd)
    <3>1. whole
      BY Zenon DEF AngleInv
    <3> QED
      BY <1>4, <2>1, <3>1, Zenon DEF Due
  <2>3. c.idx \in Edges
    BY <2>1 DEF Captured
  <2>4. GapTime(c.idx, cmd, cmd) + Rest(edge_i, cmd) <= Wheel * Period[cmd]
    BY <1>3, <2>2, <2>3, RestOf
  <2>5. Rest(edge_i, cmd) \in Nat /\ Wheel * Period[cmd] \in Nat
    BY <1>3, RestOf
  <2>6. left + Rest(edge_i, cmd) <= Wheel * Period[cmd]
    BY <1>3, <2>2, <2>4, <2>5
  <2>7. CASE phase' = "done"
    BY <2>7 DEF Pace
  <2>8. CASE cmd' = cmd + 1 /\ phase' = "start"
    <3>1. ToLast' = left + Rest(edge_i, cmd)
      BY <1>1, <1>3, <1>4, <2>5, <2>8 DEF ToLast, Spent, Rest
    <3>2. speed' = cmd /\ speed' # cmd'
      BY <1>1, <1>3, <1>4, <2>8
    <3> QED
      BY <2>6, <3>1, <3>2 DEF Pace
  <2> QED
    BY <1>1, <2>7, <2>8
<1> QED
  BY <1>5, <1>6, <1>7, <1>8 DEF PaceInv

(* PaceInv holds when a sweep begins, *)
LEMMA PaceStart == ASSUME Init PROVE PaceInv
<1>1. /\ queue = <<>> /\ ~have_last /\ cmd = 1 /\ speed = 1 /\ edge_i = 1 /\ age = 0
      /\ phase = "start" /\ got = 0
  BY Zenon DEF Init
<1>2. pk.edge = NoEdge /\ pk.rev = 0 /\ NoEdge.speed = 1
  BY DEF Init, NoEdge
<1>3. Within(1)
  BY <1>1, <1>2 DEF Within
<1>4. Place /\ SameRev
  <2>1. \A j \in 1 .. Len(queue) : FALSE
    BY <1>1
  <2> QED
    BY <1>1, <2>1, Zenon DEF Place, SameRev
<1>5. Fresh /\ GotSettled /\ Pace
  BY <1>1, <1>2 DEF Fresh, GotSettled, Pace
<1> QED
  BY <1>3, <1>4, <1>5 DEF PaceInv

(* and every step of one without a fault keeps it. *)
LEMMA PaceStep ==
    ASSUME TakenInTime, Settle >= 2, MaxLag + 1 < E, ~Ramping,
           TypeOK, Chain, Ordered, AngleInv, AgeInv, PaceInv, NoFaults', [Next]_vars
    PROVE  PaceInv'
<1>1. CASE Emit
  <2>1. UNCHANGED <<cmd, pk, phase, got, step_rev0>>
    BY <1>1, Zenon DEF Emit, alignVars, stepVars, sampleVars
  <2>2. Within(1)' /\ GotSettled'
    BY <2>1 DEF PaceInv, Within, GotSettled
  <2> QED
    BY <1>1, <2>2, PaceEmit, PlaceEmit DEF PaceInv
<1>2. CASE Process
  BY <1>2, PaceProcess
<1>3. CASE EndStep
  BY <1>3, PaceEnd
<1>4. CASE BeginStep
  <2>1. /\ phase = "start" /\ phase' = "gather" /\ got' = 0 /\ spent' = 0
        /\ UNCHANGED <<edge_i, speed, age, left, queue, have_last, pk, cmd>>
    BY <1>4, Zenon DEF BeginStep, patternVars, lineVars, alignVars
  <2>2. Within(1)' /\ Place' /\ SameRev'
    BY <2>1 DEF PaceInv, Within, Place, SameRev, Back
  <2>3. Fresh' /\ GotSettled'
    BY <2>1 DEF PaceInv, Fresh, GotSettled
  <2>4. ToLast' = ToLast
    BY <2>1 DEF ToLast, Spent, Rest
  <2>5. Pace'
    BY <2>1, <2>4 DEF PaceInv, Pace, LateRev
  <2> QED
    BY <2>2, <2>3, <2>5 DEF PaceInv
<1>5. CASE UNCHANGED vars
  <2>1. UNCHANGED <<edge_i, speed, age, left, queue, have_last, pk, cmd, phase, got, spent,
                    step_rev0>>
    BY <1>5, Zenon DEF vars, patternVars, lineVars, alignVars, stepVars, sampleVars
  <2>2. Within(1)' /\ Place' /\ SameRev'
    BY <2>1 DEF PaceInv, Within, Place, SameRev, Back
  <2>3. Fresh' /\ GotSettled'
    BY <2>1 DEF PaceInv, Fresh, GotSettled
  <2>4. Pace'
    BY <2>1 DEF PaceInv, Pace, LateRev, ToLast, Spent, Rest
  <2> QED
    BY <2>2, <2>3, <2>4 DEF PaceInv
<1>6. ~Miss /\ ~Spurious
  <2>1. faults \in Nat /\ faults' = 0
    BY DEF TypeOK, NoFaults
  <2>2. faults' # faults + 1
    BY <2>1
  <2> QED
    BY <2>2, Zenon DEF Miss, Spurious
<1>7. ~RampTick /\ ~EndRamp
  BY DEF RampTick, EndRamp
<1> QED
  BY <1>1, <1>2, <1>3, <1>4, <1>5, <1>6, <1>7, Zenon DEF Next

-----------------------------------------------------------------------------
SweepInv == ~Ramping /\ NoFaults => AngleInv /\ AgeInv /\ PaceInv /\ RowAged

(* A sweep starts with no rows, *)
LEMMA SweepStart == Init => Chain /\ Ordered /\ SweepInv
<1> SUFFICES ASSUME Init PROVE Chain /\ Ordered /\ SweepInv
  OBVIOUS
<1>1. RowAged
  BY Zenon DEF RowAged, Init
<1> QED
  BY <1>1, AngleStart, OrderedStart, AgeStart, PaceStart DEF SweepInv

(* and its steps keep their promises one by one. *)
LEMMA SweepStep ==
    ASSUME SweepHypotheses
    PROVE  TypeOK /\ Chain /\ Ordered /\ SweepInv /\ [Next]_vars => Chain' /\ Ordered' /\ SweepInv'
<1> SUFFICES ASSUME TypeOK, Chain, Ordered, SweepInv, [Next]_vars, ~Ramping, NoFaults'
             PROVE  AngleInv' /\ AgeInv' /\ PaceInv' /\ RowAged'
  BY ChainStep, OrderedStep DEF SweepInv
<1>1. NoFaults
  BY StillQuiet
<1>2. AngleInv /\ AgeInv /\ PaceInv /\ RowAged /\ Within(1)
  BY <1>1 DEF SweepInv, PaceInv
<1>3. AngleInv'
  BY <1>2, AngleStep DEF SweepHypotheses
<1>4. AgeInv'
  BY <1>2, AgeStep DEF SweepHypotheses
<1>5. PaceInv'
  BY <1>2, PaceStep DEF SweepHypotheses
<1>6. RowAged'
  BY <1>2, RowAgedStep DEF SweepHypotheses
<1> QED
  BY <1>3, <1>4, <1>5, <1>6

(* The samples of a step of a sweep were measured at the speed of the step *)
(* and after Settle - 2 whole revolutions at it, if at least two are       *)
(* waited for and core 1 is less than a revolution behind the emitter.     *)
THEOREM SettledHolds ==
    ASSUME SweepHypotheses
    PROVE  Spec => []SettledButTwo
<1>1. SweepInv => SettledButTwo
  BY Zenon DEF SweepInv, RowAged, SettledButTwo
<1> QED
  BY <1>1, SweepStart, SweepStep, TypeCorrect, PTL DEF Spec

(* And without a fault its rows are interpolated between the true angles,  *)
(* however far apart its first and its last speed are: core 1 is never     *)
(* more than a step ahead of the edges it processes.                       *)
THEOREM SweepAnglesTrue ==
    ASSUME SweepHypotheses, ~Ramping
    PROVE  Spec => []AnglesTrue
<1>1. SweepInv => AnglesTrue
  BY Zenon DEF SweepInv, AngleInv, AnglesTrue
<1> QED
  BY <1>1, SweepStart, SweepStep, TypeCorrect, PTL DEF Spec
=============================================================================
