---------------------------- MODULE SparksProofs ----------------------------
(***************************************************************************)
(* Proofs about Sparks: that brackets, dwells and latency samples are true *)
(* and that the queues move, for any number of cylinders, any sizes of     *)
(* history, queue and batch, any pause and any edges.                      *)
(***************************************************************************)
EXTENDS Sparks, TLAPS

Word == [raw : Int, at : Nat, rising : BOOLEAN, long : BOOLEAN, before : Nat \cup {None}]
PkEdge == [t : Nat, at : Nat, rising : BOOLEAN, intra : (1 .. E) \cup {None}, rev : Nat]
Sample == [at : Nat, t : Nat, tooth : Nat]

(* The types, with those of the records, which TypeOK does not tell. *)
Types ==
    /\ ramping \in BOOLEAN /\ synced \in BOOLEAN
    /\ now \in Nat /\ rev \in Nat /\ step_rev0 \in Nat
    /\ begun \in Nat \cup {None}
    /\ up \in [Lines -> BOOLEAN]
    /\ last \in [Lines -> Nat \cup {None}]
    /\ made \in [Lines -> Nat] /\ edges \in [Lines -> Nat]
    /\ line \in [Lines -> Seq(Word)]
    /\ phase \in {"idle", "drain", "resolve"} /\ pos \in Lines
    /\ todo \in Nat /\ room \in 0 .. BatchCap
    /\ fall \in [Ign -> Nat \cup {None}] /\ got \in [Ign -> 0 .. Want]
    /\ pend \in [Ign -> Seq(Spark)]
    /\ pk \in Seq(PkEdge)

Bounds ==
    /\ \A l \in Lines : Len(line[l]) <= Lag /\ made[l] = Thrown(l) + edges[l] + Len(line[l])
    /\ \A l \in Ign : Len(pend[l]) <= PendCap

(* What is left of those read is there. *)
Turns ==
    /\ phase = "idle" => todo = 0
    /\ phase = "drain" => room + todo <= BatchCap /\ todo <= Len(line[pos])
    /\ phase = "resolve" => pos \in Ign /\ todo <= Len(pend[pos])

(* Count and level that the i-th unread edge of a line comes after; of the *)
(* one still to come when i is past the end.                               *)
Before(l, i) == IF i \in DOMAIN line[l] THEN line[l][i].before ELSE last[l]
Rising(l, i) == IF i \in DOMAIN line[l] THEN line[l][i].rising ELSE ~up[l]

(* True times: after the reducer's start, and not yet to come. *)
Times ==
    /\ Start <= now
    /\ \A l \in Lines : last[l] # None => Start <= last[l] /\ last[l] <= now
    /\ \A l \in Lines : \A i \in DOMAIN line[l] :
         /\ Start <= line[l][i].at /\ line[l][i].at <= now
         /\ line[l][i].before # None => Start <= line[l][i].before

(* The edges of a line follow one another, and a count lies behind the     *)
(* true one by a pause for each edge since the capture's start.            *)
Chained ==
    \A l \in Lines : \A i \in DOMAIN line[l] :
        /\ Before(l, i + 1) = line[l][i].at
        /\ Rising(l, i + 1) = ~line[l][i].rising
        /\ line[l][i].before < line[l][i].at
        /\ line[l][i].raw + Pause * (edges[l] + i - 1) = line[l][i].at - Late(l)

(* A charge is pending exactly if the line's last edge that was read began *)
(* one.                                                                    *)
Charging ==
    \A l \in Ign :
        fall[l] = IF Rising(l, 1) /\ Before(l, 1) # None THEN Before(l, 1) - Late(l) ELSE None

LineInv == Types /\ Bounds /\ Turns /\ Times /\ Chained /\ Charging

-----------------------------------------------------------------------------
(* The constants. *)

LEMMA ConstantFacts ==
    /\ CylCount \in Nat \ {0} /\ E \in Nat /\ E > 1 /\ PkCap \in Nat /\ PkCap > 2
    /\ PendCap \in Nat /\ BatchCap \in Nat \ {0} /\ Pause \in Nat /\ Gap \in Nat /\ Gap > Pause
    /\ Lag \in Nat /\ Want \in Nat \ {0} /\ Start \in Nat
<1>1. {CylCount, PkCap, PendCap, BatchCap, Want, Lag} \subseteq Nat \ {0}
  BY SizesAssumption
<1>2. E \in Nat /\ E > 1 /\ Pause \in Nat /\ Gap \in Nat /\ Gap > Pause
  BY SizesAssumption
<1>3. Start \in Nat
  BY StartAssumption
<1>4. PkCap > Lag + 1
  BY HistoryAssumption
<1> QED
  BY <1>1, <1>2, <1>3, <1>4

LEMMA LineFacts ==
    /\ Pickup \in Lines /\ Tach \in Lines /\ Tach # Pickup
    /\ Ign \subseteq Lines \ {Pickup, Tach} /\ 1 \in Ign
    /\ Lines \subseteq Nat
BY ConstantFacts DEF Lines, Ign, Pickup, Tach

LEMMA LateFacts ==
    ASSUME NEW l \in Lines
    PROVE  Thrown(l) \in Nat /\ Late(l) \in Nat /\ Late(l) <= Start
<1>1. CASE l = Pickup
  BY <1>1, ConstantFacts DEF Thrown, Late
<1>2. CASE l # Pickup
  <2>1. Stale[l] \in Nat
    BY <1>2, SizesAssumption
  <2>2. Pause * Stale[l] \in Nat /\ Pause * Stale[l] <= Start
    BY <1>2, <2>1, ConstantFacts, StartAssumption
  <2> QED
    BY <1>2, <2>1, <2>2 DEF Thrown, Late
<1> QED
  BY <1>1, <1>2

LEMMA PickupNotLate == Late(Pickup) = 0
BY ConstantFacts DEF Thrown, Late

LEMMA Distribute ==
    ASSUME NEW p \in Nat, NEW a \in Nat, NEW b \in Nat
    PROVE  p * (a + b) = p * a + p * b
OBVIOUS

-----------------------------------------------------------------------------
(* Sequences. *)

LEMMA AppendFacts ==
    ASSUME NEW S, NEW s \in Seq(S), NEW e \in S
    PROVE  /\ Append(s, e) \in Seq(S) /\ Len(Append(s, e)) = Len(s) + 1
           /\ DOMAIN Append(s, e) = 1 .. Len(s) + 1
           /\ \A i \in 1 .. Len(s) : Append(s, e)[i] = s[i]
           /\ Append(s, e)[Len(s) + 1] = e
OBVIOUS

LEMMA TailFacts ==
    ASSUME NEW S, NEW s \in Seq(S), Len(s) > 0
    PROVE  /\ Tail(s) \in Seq(S) /\ Len(Tail(s)) = Len(s) - 1
           /\ DOMAIN Tail(s) = 1 .. Len(s) - 1
           /\ \A i \in 1 .. Len(s) - 1 : Tail(s)[i] = s[i + 1]
           /\ Head(s) = s[1] /\ Head(s) \in S
OBVIOUS

LEMMA SmallerOfFacts ==
    ASSUME NEW a \in Nat, NEW b \in Nat
    PROVE  SmallerOf(a, b) \in Nat /\ SmallerOf(a, b) <= a /\ SmallerOf(a, b) <= b
BY DEF SmallerOf

(* The count a line hands out next, corrected, is the true one but for     *)
(* what was thrown away.                                                   *)
LEMMA CorrectedIsTrue ==
    ASSUME Types, Times, Chained, NEW l \in Lines, Len(line[l]) > 0
    PROVE  /\ Head(line[l]) = line[l][1] /\ Head(line[l]) \in Word
           /\ Corrected(l) = Head(line[l]).at - Late(l) /\ Corrected(l) \in Nat
           /\ Head(line[l]).before = Before(l, 1) /\ Head(line[l]).rising = Rising(l, 1)
           /\ Before(l, 2) = Head(line[l]).at /\ Rising(l, 2) = ~Head(line[l]).rising
           /\ Before(l, 1) < Head(line[l]).at
           /\ Start <= Head(line[l]).at /\ Head(line[l]).at <= now
           /\ Before(l, 1) # None => Start <= Before(l, 1)
<1>1. line[l] \in Seq(Word) /\ edges[l] \in Nat
  BY DEF Types
<1>2. Head(line[l]) = line[l][1] /\ line[l][1] \in Word /\ 1 \in DOMAIN line[l]
  BY <1>1, TailFacts
<1>3. /\ Before(l, 1 + 1) = line[l][1].at /\ Rising(l, 1 + 1) = ~line[l][1].rising
      /\ line[l][1].before < line[l][1].at
      /\ line[l][1].raw + Pause * (edges[l] + 1 - 1) = line[l][1].at - Late(l)
  BY <1>2 DEF Chained
<1>4. /\ Start <= line[l][1].at /\ line[l][1].at <= now
      /\ line[l][1].before # None => Start <= line[l][1].before
  BY <1>2 DEF Times
<1>5. Before(l, 1) = line[l][1].before /\ Rising(l, 1) = line[l][1].rising
  BY <1>2 DEF Before, Rising
<1>6. line[l][1].raw \in Int /\ line[l][1].at \in Nat
  BY <1>2 DEF Word
<1>7. edges[l] + 1 - 1 = edges[l] /\ 1 + 1 = 2
  BY <1>1
<1>8. line[l][1].raw + Pause * edges[l] = line[l][1].at - Late(l)
  BY <1>3, <1>7
<1>9. Corrected(l) = line[l][1].at - Late(l) /\ Corrected(l) \in Nat
  BY <1>2, <1>4, <1>6, <1>8, LateFacts, ConstantFacts DEF Corrected
<1> QED
  BY <1>2, <1>3, <1>4, <1>5, <1>7, <1>9

-----------------------------------------------------------------------------
(* What the lines do to LineInv. *)

(* An edge becomes the last one; what was before the next edge to come is  *)
(* what was before it.                                                     *)
LEMMA EdgeAppends ==
    ASSUME LineInv, NEW l \in Lines, Edge(l)
    PROVE  \E e \in Word :
             /\ line' = [line EXCEPT ![l] = Append(@, e)]
             /\ e.raw = now - Pause * made[l] /\ e.at = now /\ e.rising = ~up[l]
             /\ e.before = last[l] /\ last[l] < now
<1> USE DEF LineInv
<1>1. PICK long \in BOOLEAN :
        line' = [line EXCEPT ![l] = Append(@,
                   [raw |-> now - Pause * made[l], at |-> now, rising |-> ~up[l],
                    long |-> long, before |-> last[l]])]
  BY DEF Edge
<1>2. now \in Nat /\ made[l] \in Nat /\ up[l] \in BOOLEAN /\ last[l] \in Nat \cup {None}
  BY DEF Types
<1>3. Pause * made[l] \in Nat
  BY <1>2, ConstantFacts
<1>4. last[l] < now
  <2>1. CASE last[l] = None
    BY <2>1, <1>2 DEF None
  <2>2. CASE last[l] # None /\ l = Pickup
    <3>1. now = last[l] + Gap
      BY <2>2 DEF Edge, Due
    <3> QED
      BY <3>1, <2>2, <1>2, ConstantFacts
  <2>3. CASE last[l] # None /\ l # Pickup
    <3>1. now - last[l] > Pause
      BY <2>3 DEF Edge
    <3> QED
      BY <3>1, <2>3, <1>2, ConstantFacts
  <2> QED
    BY <2>1, <2>2, <2>3
<1> DEFINE e == [raw |-> now - Pause * made[l], at |-> now, rising |-> ~up[l],
                 long |-> long, before |-> last[l]]
<1>5. now - Pause * made[l] \in Int
  BY <1>2, <1>3
<1>6. e \in Word
  BY <1>2, <1>5 DEF Word
<1> QED
  BY <1>1, <1>4, <1>6

LEMMA EdgeLines ==
    ASSUME LineInv, NEW l \in Lines, Edge(l)
    PROVE  /\ line' \in [Lines -> Seq(Word)] /\ Times' /\ Chained' /\ Bounds'
           /\ Len(line'[l]) = Len(line[l]) + 1
           /\ \A m \in Lines : m # l => line'[m] = line[m]
           /\ \A i \in DOMAIN line[l] : line'[l][i] = line[l][i]
           /\ \A m \in Lines : Before(m, 1)' = Before(m, 1) /\ Rising(m, 1)' = Rising(m, 1)
<1> USE DEF LineInv
<1>1. PICK e \in Word :
        /\ line' = [line EXCEPT ![l] = Append(@, e)]
        /\ e.raw = now - Pause * made[l] /\ e.at = now /\ e.rising = ~up[l]
        /\ e.before = last[l] /\ last[l] < now
  BY EdgeAppends
<1>2. /\ line \in [Lines -> Seq(Word)] /\ now \in Nat /\ made \in [Lines -> Nat]
      /\ edges \in [Lines -> Nat] /\ up \in [Lines -> BOOLEAN]
      /\ last \in [Lines -> Nat \cup {None}]
  BY DEF Types
<1>3. /\ up' = [up EXCEPT ![l] = ~@] /\ last' = [last EXCEPT ![l] = now]
      /\ made' = [made EXCEPT ![l] = @ + 1] /\ now' = now /\ edges' = edges
      /\ pend' = pend /\ Len(line[l]) < Lag
  BY DEF Edge
<1>0. PICK n \in Nat : n = Len(line[l])
  BY <1>2
<1>4. /\ line'[l] = Append(line[l], e) /\ line'[l] \in Seq(Word) /\ Len(line'[l]) = n + 1
      /\ DOMAIN line'[l] = 1 .. n + 1 /\ DOMAIN line[l] = 1 .. n /\ n \in Nat
      /\ \A i \in 1 .. n : line'[l][i] = line[l][i]
      /\ line'[l][n + 1] = e
  <2>1. line'[l] = Append(line[l], e) /\ line[l] \in Seq(Word)
    BY <1>1, <1>2
  <2> QED
    BY <2>1, <1>0, AppendFacts
<1>5. \A m \in Lines : m # l => line'[m] = line[m]
  BY <1>1, <1>2
<1>6. line' \in [Lines -> Seq(Word)]
  <2>1. Append(line[l], e) \in Seq(Word)
    BY <1>4
  <2> QED
    BY <1>1, <1>2, <2>1
<1>7. last'[l] = now /\ up'[l] = ~up[l] /\ made'[l] = made[l] + 1
  BY <1>2, <1>3
<1>8. \A m \in Lines : m # l => last'[m] = last[m] /\ up'[m] = up[m] /\ made'[m] = made[m]
  BY <1>2, <1>3
<1>9. \A m \in Lines : m # l => \A i : Before(m, i)' = Before(m, i) /\ Rising(m, i)' = Rising(m, i)
  <2>1. SUFFICES ASSUME NEW m \in Lines, m # l, NEW i
                 PROVE  Before(m, i)' = Before(m, i) /\ Rising(m, i)' = Rising(m, i)
    OBVIOUS
  <2>2. line'[m] = line[m] /\ last'[m] = last[m] /\ up'[m] = up[m]
    BY <1>5, <1>8, <2>1
  <2>3. Before(m, i)' = Before(m, i)
    BY <2>2 DEF Before
  <2>4. Rising(m, i)' = Rising(m, i)
    BY <2>2, Zenon DEF Rising
  <2> QED
    BY <2>3, <2>4
<1>10. \A i \in 1 .. n + 1 : Before(l, i)' = Before(l, i) /\ Rising(l, i)' = Rising(l, i)
  <2>1. SUFFICES ASSUME NEW i \in 1 .. n + 1
                 PROVE  Before(l, i)' = Before(l, i) /\ Rising(l, i)' = Rising(l, i)
    OBVIOUS
  <2>2. i \in DOMAIN line'[l]
    BY <1>4
  <2>3. CASE i \in 1 .. n
    <3>1. line'[l][i] = line[l][i] /\ i \in DOMAIN line[l]
      BY <2>3, <1>4
    <3> QED
      BY <3>1, <2>2, Zenon DEF Before, Rising
  <2>4. CASE i = n + 1
    <3>1. i \notin DOMAIN line[l] /\ line'[l][i] = e
      BY <2>4, <1>4
    <3>2. Before(l, i)' = e.before /\ Before(l, i) = last[l]
      BY <3>1, <2>2 DEF Before
    <3>3. Rising(l, i)' = e.rising /\ Rising(l, i) = ~up[l]
      BY <3>1, <2>2, Zenon DEF Rising
    <3> QED
      BY <3>2, <3>3, <1>1
  <2> QED
    BY <2>3, <2>4, <1>4
<1>11. Before(l, n + 2)' = now /\ Rising(l, n + 2)' = up[l]
  <2>1. n + 2 \notin DOMAIN line'[l]
    BY <1>4
  <2>2. Before(l, n + 2)' = now
    BY <2>1, <1>7 DEF Before
  <2>3. Rising(l, n + 2)' = ~up'[l]
    BY <2>1, Zenon DEF Rising
  <2> QED
    BY <2>2, <2>3, <1>7, <1>2
<1>12. Times'
  <2>1. Start <= now
    BY DEF Times
  <2>2. \A m \in Lines : last'[m] # None => Start <= last'[m] /\ last'[m] <= now'
    <3>1. \A m \in Lines : last[m] # None => Start <= last[m] /\ last[m] <= now
      BY DEF Times
    <3> QED
      BY <3>1, <2>1, <1>2, <1>3, <1>7, <1>8
  <2>3. ASSUME NEW m \in Lines, NEW i \in DOMAIN line'[m]
        PROVE  /\ Start <= line'[m][i].at /\ line'[m][i].at <= now'
               /\ line'[m][i].before # None => Start <= line'[m][i].before
    <3>1. CASE m # l \/ i \in 1 .. n
      <4>1. i \in DOMAIN line[m] /\ line'[m][i] = line[m][i]
        BY <3>1, <2>3, <1>4, <1>5
      <4> QED
        BY <4>1, <1>3 DEF Times
    <3>2. CASE m = l /\ i = n + 1
      <4>1. line'[m][i] = e
        BY <3>2, <1>4
      <4>2. last[l] # None => Start <= last[l]
        BY DEF Times
      <4> QED
        BY <4>1, <4>2, <2>1, <1>1, <1>2, <1>3
    <3> QED
      BY <3>1, <3>2, <2>3, <1>4
  <2> QED
    BY <2>1, <2>2, <2>3, <1>3 DEF Times
<1>13. Chained'
  <2>1. SUFFICES ASSUME NEW m \in Lines, NEW i \in DOMAIN line'[m]
                 PROVE  /\ Before(m, i + 1)' = line'[m][i].at
                        /\ Rising(m, i + 1)' = ~line'[m][i].rising
                        /\ line'[m][i].before < line'[m][i].at
                        /\ line'[m][i].raw + Pause * (edges'[m] + i - 1)
                             = line'[m][i].at - Late(m)
    BY DEF Chained, Late, Thrown
  <2>2. CASE m # l
    <3>1. line'[m] = line[m] /\ edges'[m] = edges[m]
      BY <2>2, <1>3, <1>5
    <3>2. Before(m, i + 1)' = Before(m, i + 1) /\ Rising(m, i + 1)' = Rising(m, i + 1)
      BY <2>2, <1>9
    <3>3. /\ Before(m, i + 1) = line[m][i].at
          /\ Rising(m, i + 1) = ~line[m][i].rising
          /\ line[m][i].before < line[m][i].at
          /\ line[m][i].raw + Pause * (edges[m] + i - 1) = line[m][i].at - Late(m)
      BY <2>1, <3>1 DEF Chained
    <3> QED
      BY <3>1, <3>2, <3>3
  <2>3. CASE m = l /\ i \in 1 .. n
    <3>1. line'[m][i] = line[m][i] /\ edges'[m] = edges[m] /\ i \in DOMAIN line[m]
      BY <2>3, <1>3, <1>4
    <3>2. Before(m, i + 1)' = Before(m, i + 1) /\ Rising(m, i + 1)' = Rising(m, i + 1)
      <4>1. i + 1 \in 1 .. n + 1
        BY <2>3, <1>4
      <4> QED
        BY <4>1, <2>3, <1>10
    <3>3. /\ Before(m, i + 1) = line[m][i].at
          /\ Rising(m, i + 1) = ~line[m][i].rising
          /\ line[m][i].before < line[m][i].at
          /\ line[m][i].raw + Pause * (edges[m] + i - 1) = line[m][i].at - Late(m)
      BY <3>1 DEF Chained
    <3> QED
      BY <3>1, <3>2, <3>3
  <2>4. CASE m = l /\ i = n + 1
    <3>1. line'[l][n + 1] = e
      BY <1>4
    <3>2. i + 1 = n + 2 /\ edges[l] + i - 1 = edges[l] + n /\ edges[l] + n \in Nat
      BY <2>4, <1>2, <1>4
    <3>3. Before(l, i + 1)' = now /\ Rising(l, i + 1)' = up[l]
      BY <3>2, <1>11
    <3>4. made[l] = Thrown(l) + (edges[l] + n)
      BY <1>0, <1>2, LateFacts DEF Bounds
    <3>5. Pause * made[l] = Late(l) + Pause * (edges[l] + n)
      BY <3>2, <3>4, LateFacts, ConstantFacts, Distribute DEF Late
    <3>6. Pause * (edges[l] + n) \in Int /\ Late(l) \in Int
      BY <3>2, LateFacts, ConstantFacts
    <3>7. e.raw + Pause * (edges[l] + n) = now - Late(l)
      BY <3>5, <3>6, <1>1, <1>2
    <3>8. line'[m][i].raw + Pause * (edges'[m] + i - 1) = line'[m][i].at - Late(m)
      BY <3>1, <3>2, <3>7, <2>4, <1>1, <1>3
    <3>9. Rising(m, i + 1)' = ~line'[m][i].rising
      BY <3>1, <3>3, <2>4, <1>1, <1>2, Zenon
    <3> QED
      BY <3>1, <3>3, <3>8, <3>9, <2>4, <1>1
  <2> QED
    BY <2>1, <2>2, <2>3, <2>4, <1>4
<1>14. Bounds'
  <2>1. \A m \in Lines : Len(line'[m]) <= Lag /\ made'[m] = Thrown(m) + edges'[m] + Len(line'[m])
    <3>1. \A m \in Lines : Len(line[m]) <= Lag /\ made[m] = Thrown(m) + edges[m] + Len(line[m])
      BY DEF Bounds
    <3>2. Len(line'[l]) <= Lag
      BY <1>0, <1>3, <1>4, ConstantFacts
    <3>3. made'[l] = Thrown(l) + edges'[l] + Len(line'[l])
      <4>1. made[l] = Thrown(l) + edges[l] + n
        BY <3>1, <1>0
      <4> QED
        BY <4>1, <1>2, <1>3, <1>4, <1>7, LateFacts
    <3> QED
      BY <3>1, <3>2, <3>3, <1>3, <1>5, <1>8
  <2>2. \A m \in Ign : Len(pend'[m]) <= PendCap
    BY <1>3 DEF Bounds
  <2> QED
    BY <2>1, <2>2 DEF Bounds, Thrown
<1>15. \A m \in Lines : Before(m, 1)' = Before(m, 1) /\ Rising(m, 1)' = Rising(m, 1)
  <2>1. 1 \in 1 .. n + 1
    BY <1>4
  <2> QED
    BY <2>1, <1>9, <1>10
<1> QED
  BY <1>0, <1>4, <1>5, <1>6, <1>12, <1>13, <1>14, <1>15

(* The edge after the one that is read comes first, and what is before it  *)
(* is the one read.                                                        *)
LEMMA ReadLines ==
    ASSUME LineInv, NEW l \in Lines, Read(l)
    PROVE  /\ line' \in [Lines -> Seq(Word)] /\ edges' \in [Lines -> Nat]
           /\ Len(line[l]) > 0 /\ Len(line'[l]) = Len(line[l]) - 1
           /\ \A i \in DOMAIN line'[l] : i + 1 \in DOMAIN line[l] /\ line'[l][i] = line[l][i + 1]
           /\ \A m \in Lines : m # l => line'[m] = line[m]
           /\ Times' /\ Chained'
           /\ \A m \in Lines : /\ Len(line'[m]) <= Lag
                               /\ made'[m] = Thrown(m) + edges'[m] + Len(line'[m])
           /\ Before(l, 1)' = Head(line[l]).at /\ Rising(l, 1)' = ~Head(line[l]).rising
           /\ \A m \in Lines : m # l =>
                  Before(m, 1)' = Before(m, 1) /\ Rising(m, 1)' = Rising(m, 1)
<1> USE DEF LineInv
<1>1. /\ line \in [Lines -> Seq(Word)] /\ now \in Nat /\ made \in [Lines -> Nat]
      /\ edges \in [Lines -> Nat] /\ up \in [Lines -> BOOLEAN] /\ todo \in Nat
      /\ last \in [Lines -> Nat \cup {None}]
  BY DEF Types
<1>2. /\ line' = [line EXCEPT ![l] = Tail(@)] /\ edges' = [edges EXCEPT ![l] = @ + 1]
      /\ now' = now /\ up' = up /\ last' = last /\ made' = made
  BY DEF Read
<1>3. PICK n \in Nat : n = Len(line[l]) /\ n > 0
  BY <1>1 DEF Read, Turns
<1>4. /\ line'[l] = Tail(line[l]) /\ line'[l] \in Seq(Word) /\ Len(line'[l]) = n - 1
      /\ DOMAIN line'[l] = 1 .. n - 1 /\ DOMAIN line[l] = 1 .. n
      /\ \A i \in 1 .. n - 1 : line'[l][i] = line[l][i + 1]
  <2>1. line'[l] = Tail(line[l]) /\ line[l] \in Seq(Word)
    BY <1>1, <1>2
  <2> QED
    BY <2>1, <1>3, TailFacts
<1>5. \A m \in Lines : m # l => line'[m] = line[m] /\ edges'[m] = edges[m]
  BY <1>1, <1>2
<1>6. edges'[l] = edges[l] + 1
  BY <1>1, <1>2
<1>7. line' \in [Lines -> Seq(Word)] /\ edges' \in [Lines -> Nat]
  BY <1>1, <1>2, <1>4
<1>8. \A m \in Lines : m # l => \A i : Before(m, i)' = Before(m, i) /\ Rising(m, i)' = Rising(m, i)
  <2>1. SUFFICES ASSUME NEW m \in Lines, m # l, NEW i
                 PROVE  Before(m, i)' = Before(m, i) /\ Rising(m, i)' = Rising(m, i)
    OBVIOUS
  <2>2. line'[m] = line[m] /\ last'[m] = last[m] /\ up'[m] = up[m]
    BY <1>2, <1>5, <2>1
  <2> QED
    BY <2>2, Zenon DEF Before, Rising
<1>9. \A i \in 1 .. n : Before(l, i)' = Before(l, i + 1) /\ Rising(l, i)' = Rising(l, i + 1)
  <2>1. SUFFICES ASSUME NEW i \in 1 .. n
                 PROVE  Before(l, i)' = Before(l, i + 1) /\ Rising(l, i)' = Rising(l, i + 1)
    OBVIOUS
  <2>2. CASE i \in 1 .. n - 1
    <3>1. i \in DOMAIN line'[l] /\ i + 1 \in DOMAIN line[l] /\ line'[l][i] = line[l][i + 1]
      BY <2>2, <1>4, <1>3
    <3> QED
      BY <3>1, Zenon DEF Before, Rising
  <2>3. CASE i = n
    <3>1. i \notin DOMAIN line'[l] /\ i + 1 \notin DOMAIN line[l]
      BY <2>3, <1>4, <1>3
    <3> QED
      BY <3>1, <1>2, Zenon DEF Before, Rising
  <2> QED
    BY <2>2, <2>3, <1>3
<1>10. Times'
  <2>1. ASSUME NEW m \in Lines, NEW i \in DOMAIN line'[m]
        PROVE  \E j \in DOMAIN line[m] : line'[m][i] = line[m][j]
    <3>1. CASE m = l
      <4>1. i \in 1 .. n - 1 /\ i + 1 \in DOMAIN line[l] /\ line'[l][i] = line[l][i + 1]
        BY <2>1, <3>1, <1>3, <1>4
      <4> QED
        BY <3>1, <4>1
    <3>2. CASE m # l
      BY <2>1, <3>2, <1>5
    <3> QED
      BY <3>1, <3>2
  <2>2. \A m \in Lines : last'[m] # None => Start <= last'[m] /\ last'[m] <= now'
    BY <1>2 DEF Times
  <2> QED
    BY <2>1, <2>2, <1>2 DEF Times
<1>11. Chained'
  <2>1. SUFFICES ASSUME NEW m \in Lines, NEW i \in DOMAIN line'[m]
                 PROVE  /\ Before(m, i + 1)' = line'[m][i].at
                        /\ Rising(m, i + 1)' = ~line'[m][i].rising
                        /\ line'[m][i].before < line'[m][i].at
                        /\ line'[m][i].raw + Pause * (edges'[m] + i - 1)
                             = line'[m][i].at - Late(m)
    BY DEF Chained, Late, Thrown
  <2>2. CASE m # l
    <3>1. line'[m] = line[m] /\ edges'[m] = edges[m]
      BY <2>2, <1>5
    <3>2. Before(m, i + 1)' = Before(m, i + 1) /\ Rising(m, i + 1)' = Rising(m, i + 1)
      BY <2>2, <1>8
    <3>3. /\ Before(m, i + 1) = line[m][i].at
          /\ Rising(m, i + 1) = ~line[m][i].rising
          /\ line[m][i].before < line[m][i].at
          /\ line[m][i].raw + Pause * (edges[m] + i - 1) = line[m][i].at - Late(m)
      BY <2>1, <3>1 DEF Chained
    <3> QED
      BY <3>1, <3>2, <3>3
  <2>3. CASE m = l
    <3>1. i \in 1 .. n - 1 /\ i + 1 \in 1 .. n /\ i + 1 \in DOMAIN line[l]
      BY <2>1, <2>3, <1>3, <1>4
    <3>2. line'[l][i] = line[l][i + 1]
      BY <3>1, <1>4
    <3>3. /\ Before(l, i + 1)' = Before(l, (i + 1) + 1)
          /\ Rising(l, i + 1)' = Rising(l, (i + 1) + 1)
      BY <3>1, <1>9
    <3>4. /\ Before(l, (i + 1) + 1) = line[l][i + 1].at
          /\ Rising(l, (i + 1) + 1) = ~line[l][i + 1].rising
          /\ line[l][i + 1].before < line[l][i + 1].at
          /\ line[l][i + 1].raw + Pause * (edges[l] + (i + 1) - 1) = line[l][i + 1].at - Late(l)
      BY <3>1 DEF Chained
    <3>5. edges'[l] + i - 1 = edges[l] + (i + 1) - 1
      BY <3>1, <1>1, <1>3, <1>6
    <3>6. line'[l][i].raw + Pause * (edges'[l] + i - 1) = line'[l][i].at - Late(l)
      BY <3>2, <3>4, <3>5
    <3> QED
      BY <2>3, <3>2, <3>3, <3>4, <3>6
  <2> QED
    BY <2>2, <2>3
<1>12. \A m \in Lines : Len(line'[m]) <= Lag /\ made'[m] = Thrown(m) + edges'[m] + Len(line'[m])
  <2>1. \A m \in Lines : Len(line[m]) <= Lag /\ made[m] = Thrown(m) + edges[m] + Len(line[m])
    BY DEF Bounds
  <2>2. Len(line'[l]) <= Lag
    BY <2>1, <1>3, <1>4, ConstantFacts
  <2>3. made'[l] = Thrown(l) + edges'[l] + Len(line'[l])
    <3>1. made[l] = Thrown(l) + edges[l] + n /\ Thrown(l) \in Nat /\ edges[l] \in Nat
      BY <2>1, <1>1, <1>3, LateFacts
    <3>2. made'[l] = made[l] /\ edges'[l] = edges[l] + 1 /\ Len(line'[l]) = n - 1
      BY <1>2, <1>4, <1>6
    <3> QED
      BY <3>1, <3>2
  <2> QED
    BY <2>1, <2>2, <2>3, <1>2, <1>5
<1>13. Before(l, 1)' = Head(line[l]).at /\ Rising(l, 1)' = ~Head(line[l]).rising
  <2>1. Before(l, 1)' = Before(l, 1 + 1) /\ Rising(l, 1)' = Rising(l, 1 + 1)
    BY <1>3, <1>9
  <2>2. Before(l, 2) = Head(line[l]).at /\ Rising(l, 2) = ~Head(line[l]).rising
    BY <1>3, CorrectedIsTrue
  <2> QED
    BY <2>1, <2>2
<1>14. \A i \in DOMAIN line'[l] : i + 1 \in DOMAIN line[l] /\ line'[l][i] = line[l][i + 1]
  BY <1>3, <1>4
<1> QED
  BY <1>3, <1>4, <1>5, <1>7, <1>8, <1>10, <1>11, <1>12, <1>13, <1>14

(* Without an edge and without a read the lines stay as they are. *)
LEMMA LinesStay ==
    ASSUME LineInv, UNCHANGED <<lineVars, edges>>, now' \in Nat, now <= now'
    PROVE  /\ Times' /\ Chained'
           /\ \A m \in Lines : /\ Len(line'[m]) <= Lag
                               /\ made'[m] = Thrown(m) + edges'[m] + Len(line'[m])
           /\ \A m \in Lines : Before(m, 1)' = Before(m, 1) /\ Rising(m, 1)' = Rising(m, 1)
<1> USE DEF LineInv, lineVars
<1>1. /\ line \in [Lines -> Seq(Word)] /\ now \in Nat /\ last \in [Lines -> Nat \cup {None}]
  BY DEF Types
<1>2. \A m \in Lines : \A i \in DOMAIN line[m] : line[m][i].at \in Nat
  <2>1. \A m \in Lines : line[m] \in Seq(Word)
    BY <1>1
  <2>2. \A m \in Lines : \A i \in DOMAIN line[m] : line[m][i] \in Word
    BY <2>1
  <2> QED
    BY <2>2 DEF Word
<1>3. Times'
  BY <1>1, <1>2, ConstantFacts DEF Times
<1>4. Chained'
  BY DEF Chained, Before, Rising, Late, Thrown
<1>5. \A m \in Lines : Before(m, 1)' = Before(m, 1) /\ Rising(m, 1)' = Rising(m, 1)
  BY DEF Before, Rising
<1>6. \A m \in Lines : Len(line'[m]) <= Lag /\ made'[m] = Thrown(m) + edges'[m] + Len(line'[m])
  BY DEF Bounds
<1> QED
  BY <1>3, <1>4, <1>5, <1>6

LEMMA ChargingStays ==
    ASSUME Charging, UNCHANGED fall,
           \A m \in Lines : Before(m, 1)' = Before(m, 1) /\ Rising(m, 1)' = Rising(m, 1)
    PROVE  Charging'
<1>1. \A m \in Ign : m \in Lines
  BY LineFacts
<1> QED
  BY <1>1, Zenon DEF Charging, Late, Thrown

LEMMA TurnFacts ==
    ASSUME NEW l \in Lines, NEW free \in 0 .. BatchCap, line[l] \in Seq(Word), Turn(l, free)
    PROVE  /\ pos' = l /\ todo' \in Nat /\ room' \in 0 .. BatchCap
           /\ room' + todo' = free /\ todo' <= Len(line[l])
           /\ room' > 0 => todo' = Len(line[l])
<1>1. free \in Nat /\ Len(line[l]) \in Nat /\ free <= BatchCap /\ BatchCap \in Nat
  BY ConstantFacts
<1> QED
  BY <1>1 DEF Turn, SmallerOf

-----------------------------------------------------------------------------
(* LineInv is inductive: one lemma per kind of step. *)

LEMMA LineInvInit == Init => LineInv
<1> SUFFICES ASSUME Init PROVE LineInv
  OBVIOUS
<1>1. \A l \in Lines : Thrown(l) \in Nat
  BY LateFacts
<1>2. \A l \in Lines : line[l] = <<>> /\ last[l] = None /\ made[l] = Thrown(l) /\ edges[l] = 0
  BY DEF Init
<1>3. \A l \in Ign : fall[l] = None /\ pend[l] = <<>>
  BY DEF Init
<1>4. Types
  <2>1. made \in [Lines -> Nat]
    BY <1>1 DEF Init
  <2>2. 0 \in Lines
    BY LineFacts DEF Pickup
  <2>3. 0 \in 0 .. BatchCap /\ 0 \in 0 .. Want
    BY ConstantFacts
  <2>4. ramping \in BOOLEAN /\ synced \in BOOLEAN
    BY Zenon DEF Init
  <2> QED
    BY <2>1, <2>2, <2>3, <2>4, ConstantFacts DEF Init, Types
<1>5. Bounds
  BY <1>1, <1>2, <1>3, ConstantFacts DEF Bounds
<1>6. Turns
  BY ConstantFacts DEF Init, Turns
<1>7. Times
  BY <1>2, ConstantFacts DEF Init, Times
<1>8. Chained
  BY <1>2 DEF Chained
<1>9. Charging
  <2>1. \A l \in Ign : Before(l, 1) = None
    BY <1>2, LineFacts DEF Before
  <2> QED
    BY <2>1, <1>3 DEF Charging
<1> QED
  BY <1>4, <1>5, <1>6, <1>7, <1>8, <1>9 DEF LineInv

LEMMA LineInvTick == LineInv /\ Tick => LineInv'
<1> SUFFICES ASSUME LineInv, Tick PROVE LineInv'
  OBVIOUS
<1> USE DEF LineInv
<1>1. now \in Nat /\ now' = now + 1
  BY DEF Types, Tick
<1>2. /\ UNCHANGED <<ramping, batchVars, wheelVars, stepVars>>
      /\ UNCHANGED <<lineVars, edges, fall, pend>>
  BY DEF Tick
<1>3. /\ Times' /\ Chained'
      /\ \A m \in Lines : Len(line'[m]) <= Lag /\ made'[m] = Thrown(m) + edges'[m] + Len(line'[m])
      /\ \A m \in Lines : Before(m, 1)' = Before(m, 1) /\ Rising(m, 1)' = Rising(m, 1)
  BY <1>1, <1>2, LinesStay
<1>4. Types'
  BY <1>1, <1>2 DEF Types, lineVars, batchVars, wheelVars, stepVars
<1>5. Bounds'
  BY <1>2, <1>3 DEF Bounds, Thrown
<1>6. Turns'
  BY <1>2 DEF Turns, lineVars, batchVars
<1>7. Charging'
  BY <1>2, <1>3, ChargingStays
<1> QED
  BY <1>3, <1>4, <1>5, <1>6, <1>7

LEMMA LineInvEdge ==
    ASSUME LineInv, NEW l \in Lines, Edge(l)
    PROVE  LineInv'
<1> USE DEF LineInv
<1>1. /\ line' \in [Lines -> Seq(Word)] /\ Times' /\ Chained' /\ Bounds'
      /\ Len(line'[l]) = Len(line[l]) + 1
      /\ \A m \in Lines : m # l => line'[m] = line[m]
      /\ \A m \in Lines : Before(m, 1)' = Before(m, 1) /\ Rising(m, 1)' = Rising(m, 1)
  BY EdgeLines
<1>2. /\ UNCHANGED <<ramping, now, batchVars, wheelVars, stepVars>>
      /\ UNCHANGED <<edges, fall, pend>>
      /\ up' = [up EXCEPT ![l] = ~@] /\ last' = [last EXCEPT ![l] = now]
      /\ made' = [made EXCEPT ![l] = @ + 1]
  BY DEF Edge
<1>3. Types'
  <2>1. up' \in [Lines -> BOOLEAN]
    BY <1>2, Zenon DEF Types
  <2>2. last' \in [Lines -> Nat \cup {None}] /\ made' \in [Lines -> Nat]
    BY <1>2 DEF Types
  <2> QED
    BY <1>1, <1>2, <2>1, <2>2 DEF Types, batchVars, wheelVars, stepVars
<1>4. Turns'
  <2>1. \A m \in Lines : Len(line[m]) \in Nat /\ Len(line'[m]) >= Len(line[m])
    <3>1. \A m \in Lines : line[m] \in Seq(Word)
      BY DEF Types
    <3>2. \A m \in Lines : Len(line[m]) \in Nat
      BY <3>1
    <3> QED
      BY <3>2, <1>1
  <2>2. todo \in Nat /\ pos \in Lines
    BY DEF Types
  <2> QED
    BY <1>2, <2>1, <2>2 DEF Turns, batchVars
<1>5. Charging'
  BY <1>1, <1>2, ChargingStays
<1> QED
  BY <1>1, <1>3, <1>4, <1>5

LEMMA LineInvDrain == LineInv /\ (Drain \/ NextLine) => LineInv'
<1> SUFFICES ASSUME LineInv, Drain \/ NextLine PROVE LineInv'
  OBVIOUS
<1> USE DEF LineInv
<1>1. /\ UNCHANGED <<ramping, now, wheelVars, stepVars>>
      /\ UNCHANGED <<lineVars, edges, fall, pend>>
  BY DEF Drain, NextLine
<1>2. now \in Nat /\ now' = now /\ line' = line /\ pend' = pend
  BY <1>1 DEF Types, lineVars
<1>3. /\ Times' /\ Chained'
      /\ \A m \in Lines : Len(line'[m]) <= Lag /\ made'[m] = Thrown(m) + edges'[m] + Len(line'[m])
      /\ \A m \in Lines : Before(m, 1)' = Before(m, 1) /\ Rising(m, 1)' = Rising(m, 1)
  BY <1>1, <1>2, LinesStay
<1>4. /\ begun' \in Nat \cup {None} /\ phase' \in {"idle", "drain", "resolve"} /\ pos' \in Lines
      /\ todo' \in Nat /\ room' \in 0 .. BatchCap
      /\ Turns'
  <2>0. \A m \in Lines : line[m] \in Seq(Word)
    BY DEF Types
  <2>1. CASE Drain
    <3>1. Turn(Pickup, BatchCap) /\ phase' = "drain" /\ begun' = now
      BY <2>1 DEF Drain
    <3>2. BatchCap \in 0 .. BatchCap
      BY ConstantFacts
    <3> QED
      BY <3>1, <3>2, <2>0, <1>2, TurnFacts, LineFacts DEF Turns
  <2>2. CASE NextLine /\ pos < Tach /\ room > 0
    <3>1. Turn(pos + 1, room) /\ phase' = "drain" /\ begun' = begun
      BY <2>2 DEF NextLine
    <3>2. room \in 0 .. BatchCap /\ pos \in Lines /\ begun \in Nat \cup {None}
      BY DEF Types
    <3>3. pos + 1 \in Lines
      BY <2>2, <3>2, ConstantFacts DEF Lines, Tach
    <3>4. /\ pos' = pos + 1 /\ todo' \in Nat /\ room' \in 0 .. BatchCap
          /\ room' + todo' = room /\ todo' <= Len(line[pos + 1])
      BY <3>1, <3>2, <3>3, <2>0, TurnFacts
    <3>5. room' + todo' <= BatchCap
      <4>1. room <= BatchCap
        BY <3>2, ConstantFacts
      <4> QED
        BY <3>4, <4>1
    <3>6. todo' <= Len(line'[pos'])
      BY <3>4, <1>2
    <3>7. Turns'
      BY <3>1, <3>5, <3>6 DEF Turns
    <3> QED
      BY <3>1, <3>2, <3>3, <3>4, <3>7
  <2>3. CASE NextLine /\ ~(pos < Tach /\ room > 0) /\ room = BatchCap
    <3>1. phase' = "idle" /\ pos' = 0 /\ room' = 0 /\ todo' = 0 /\ begun' = None
      BY <2>3 DEF NextLine
    <3> QED
      BY <3>1, ConstantFacts, LineFacts DEF Turns, Pickup
  <2>4. CASE NextLine /\ ~(pos < Tach /\ room > 0) /\ room # BatchCap
    <3>1. phase' = "resolve" /\ pos' = 1 /\ room' = 0 /\ todo' = Len(pend[1]) /\ begun' = None
      BY <2>4 DEF NextLine
    <3>2. 1 \in Ign /\ 1 \in Lines
      BY LineFacts
    <3>3. pend[1] \in Seq(Spark)
      BY <3>2 DEF Types
    <3>4. Len(pend[1]) \in Nat
      BY <3>3
    <3>6. todo' <= Len(pend'[pos'])
      BY <3>1, <3>4, <1>2
    <3>7. Turns'
      BY <3>1, <3>2, <3>6 DEF Turns
    <3> QED
      BY <3>1, <3>2, <3>4, <3>7, ConstantFacts
  <2> QED
    BY <2>1, <2>2, <2>3, <2>4
<1>5. Types'
  BY <1>1, <1>4 DEF Types, lineVars, wheelVars, stepVars
<1>6. Bounds'
  BY <1>1, <1>3 DEF Bounds, Thrown
<1>7. Charging'
  BY <1>1, <1>3, ChargingStays
<1> QED
  BY <1>3, <1>4, <1>5, <1>6, <1>7

(* What the four kinds of reads have in common. *)
LEMMA ReadCommon ==
    ASSUME LineInv, NEW l \in Lines, Read(l)
    PROVE  /\ Times' /\ Chained' /\ Turns'
           /\ line' \in [Lines -> Seq(Word)] /\ edges' \in [Lines -> Nat] /\ todo' \in Nat
           /\ UNCHANGED <<ramping, now, up, last, made, phase, pos, room, begun, stepVars>>
           /\ \A m \in Lines : /\ Len(line'[m]) <= Lag
                               /\ made'[m] = Thrown(m) + edges'[m] + Len(line'[m])
           /\ Before(l, 1)' = Head(line[l]).at /\ Rising(l, 1)' = ~Head(line[l]).rising
           /\ \A m \in Lines : m # l =>
                  Before(m, 1)' = Before(m, 1) /\ Rising(m, 1)' = Rising(m, 1)
           /\ Head(line[l]) \in Word /\ Len(line[l]) > 0
           /\ Corrected(l) = Head(line[l]).at - Late(l) /\ Corrected(l) \in Nat
           /\ Head(line[l]).before = Before(l, 1) /\ Head(line[l]).rising = Rising(l, 1)
           /\ Before(l, 1) < Head(line[l]).at
           /\ Start <= Head(line[l]).at
           /\ Before(l, 1) # None => Start <= Before(l, 1)
           /\ room < BatchCap
<1> USE DEF LineInv
<1>1. /\ line' \in [Lines -> Seq(Word)] /\ edges' \in [Lines -> Nat]
      /\ Len(line[l]) > 0 /\ Len(line'[l]) = Len(line[l]) - 1
      /\ Times' /\ Chained'
      /\ \A m \in Lines : /\ Len(line'[m]) <= Lag
                          /\ made'[m] = Thrown(m) + edges'[m] + Len(line'[m])
      /\ Before(l, 1)' = Head(line[l]).at /\ Rising(l, 1)' = ~Head(line[l]).rising
      /\ \A m \in Lines : m # l =>
             Before(m, 1)' = Before(m, 1) /\ Rising(m, 1)' = Rising(m, 1)
  BY ReadLines
<1>2. /\ phase = "drain" /\ pos = l /\ todo > 0 /\ todo' = todo - 1
      /\ UNCHANGED <<ramping, now, up, last, made, phase, pos, room, begun, stepVars>>
  BY DEF Read
<1>3. todo \in Nat /\ room \in Nat /\ Len(line[l]) \in Nat
  BY <1>1, ConstantFacts DEF Types
<1>4. todo' \in Nat /\ room < BatchCap /\ room' + todo' <= BatchCap /\ todo' <= Len(line'[pos'])
  BY <1>1, <1>2, <1>3, ConstantFacts DEF Turns
<1>5. Turns'
  BY <1>2, <1>4 DEF Turns
<1>6. /\ Head(line[l]) \in Word
      /\ Corrected(l) = Head(line[l]).at - Late(l) /\ Corrected(l) \in Nat
      /\ Head(line[l]).before = Before(l, 1) /\ Head(line[l]).rising = Rising(l, 1)
      /\ Before(l, 1) < Head(line[l]).at
      /\ Start <= Head(line[l]).at
      /\ Before(l, 1) # None => Start <= Before(l, 1)
  BY <1>1, CorrectedIsTrue
<1> QED
  BY <1>1, <1>2, <1>4, <1>5, <1>6

LEMMA LineInvPickup == LineInv /\ ReadPickup => LineInv'
<1> SUFFICES ASSUME LineInv, ReadPickup PROVE LineInv'
  OBVIOUS
<1> USE DEF LineInv
<1>0. Pickup \in Lines /\ Read(Pickup)
  BY LineFacts DEF ReadPickup
<1>1. /\ Times' /\ Chained' /\ Turns'
      /\ line' \in [Lines -> Seq(Word)] /\ edges' \in [Lines -> Nat] /\ todo' \in Nat
      /\ UNCHANGED <<ramping, now, up, last, made, phase, pos, room, begun, stepVars>>
      /\ \A m \in Lines : /\ Len(line'[m]) <= Lag
                          /\ made'[m] = Thrown(m) + edges'[m] + Len(line'[m])
      /\ \A m \in Lines : m # Pickup =>
             Before(m, 1)' = Before(m, 1) /\ Rising(m, 1)' = Rising(m, 1)
      /\ Head(line[Pickup]) \in Word /\ Corrected(Pickup) \in Nat
  BY <1>0, ReadCommon
<1>2. UNCHANGED <<fall, pend>>
  BY DEF ReadPickup
<1>3. rev' \in Nat /\ synced' \in BOOLEAN
  <2>1. rev \in Nat /\ synced \in BOOLEAN
    BY DEF Types
  <2>2. rev' \in Nat
    BY <2>1 DEF ReadPickup
  <2>3. synced' = (synced \/ IsSync)
    BY DEF ReadPickup
  <2> QED
    BY <2>2, <2>3, Zenon
<1>4. pk' \in Seq(PkEdge)
  <2>1. pk \in Seq(PkEdge)
    BY DEF Types
  <2>2. Intra \in (1 .. E) \cup {None}
    <3>1. CASE IsSync
      BY <3>1, ConstantFacts DEF Intra
    <3>2. CASE ~IsSync /\ pk # <<>> /\ pk[Len(pk)].intra \in 1 .. E - 1
      BY <3>2, ConstantFacts DEF Intra
    <3>3. CASE ~IsSync /\ ~(pk # <<>> /\ pk[Len(pk)].intra \in 1 .. E - 1)
      BY <3>3 DEF Intra
    <3> QED
      BY <3>1, <3>2, <3>3
  <2>3. [t |-> Corrected(Pickup), at |-> Head(line[Pickup]).at,
         rising |-> Head(line[Pickup]).rising, intra |-> Intra, rev |-> rev'] \in PkEdge
    BY <1>1, <1>3, <2>2 DEF PkEdge, Word
  <2>4. pk' = Append(pk, [t |-> Corrected(Pickup), at |-> Head(line[Pickup]).at,
                          rising |-> Head(line[Pickup]).rising, intra |-> Intra, rev |-> rev'])
    BY DEF ReadPickup
  <2> QED
    BY <2>1, <2>3, <2>4, AppendFacts
<1>5. Types'
  BY <1>1, <1>2, <1>3, <1>4 DEF Types, stepVars
<1>6. Bounds'
  BY <1>1, <1>2 DEF Bounds, Thrown
<1>7. Charging'
  <2>1. \A m \in Ign : m \in Lines /\ m # Pickup
    BY LineFacts
  <2>2. \A m \in Ign : Before(m, 1)' = Before(m, 1) /\ Rising(m, 1)' = Rising(m, 1)
    BY <2>1, <1>1
  <2> QED
    BY <2>2, <1>2, Zenon DEF Charging, Late, Thrown
<1> QED
  BY <1>1, <1>5, <1>6, <1>7

LEMMA LineInvTach == LineInv /\ ReadTach => LineInv'
<1> SUFFICES ASSUME LineInv, ReadTach PROVE LineInv'
  OBVIOUS
<1> USE DEF LineInv
<1>0. Tach \in Lines /\ Read(Tach)
  BY LineFacts DEF ReadTach
<1>1. /\ Times' /\ Chained' /\ Turns'
      /\ line' \in [Lines -> Seq(Word)] /\ edges' \in [Lines -> Nat] /\ todo' \in Nat
      /\ UNCHANGED <<ramping, now, up, last, made, phase, pos, room, begun, stepVars>>
      /\ \A m \in Lines : /\ Len(line'[m]) <= Lag
                          /\ made'[m] = Thrown(m) + edges'[m] + Len(line'[m])
      /\ \A m \in Lines : m # Tach =>
             Before(m, 1)' = Before(m, 1) /\ Rising(m, 1)' = Rising(m, 1)
  BY <1>0, ReadCommon
<1>2. UNCHANGED <<wheelVars, fall, pend>>
  BY DEF ReadTach
<1>3. Types'
  BY <1>1, <1>2 DEF Types, stepVars, wheelVars
<1>4. Bounds'
  BY <1>1, <1>2 DEF Bounds, Thrown
<1>5. Charging'
  <2>1. \A m \in Ign : m \in Lines /\ m # Tach
    BY LineFacts
  <2>2. \A m \in Ign : Before(m, 1)' = Before(m, 1) /\ Rising(m, 1)' = Rising(m, 1)
    BY <2>1, <1>1
  <2> QED
    BY <2>2, <1>2, Zenon DEF Charging, Late, Thrown
<1> QED
  BY <1>1, <1>3, <1>4, <1>5

(* A spark as it is queued: its dwell is the time since the edge before. *)
SparkTrue(l, s) ==
    /\ s.t = s.at - Late(l)
    /\ s.dwell = IF s.before = None THEN None ELSE s.at - s.before

LEMMA NewSparkTrue ==
    ASSUME LineInv, NEW l \in Ign, Read(l), Head(line[l]).rising
    PROVE  LET s == [t |-> Corrected(l), dwell |-> DwellOf(l), at |-> Head(line[l]).at,
                     before |-> Head(line[l]).before]
           IN  s \in Spark /\ SparkTrue(l, s)
<1> DEFINE h == Head(line[l])
<1>1. l \in Lines
  BY LineFacts
<1>2. /\ h \in Word /\ Corrected(l) = h.at - Late(l) /\ Corrected(l) \in Nat
      /\ h.before = Before(l, 1) /\ h.rising = Rising(l, 1) /\ Before(l, 1) < h.at
      /\ Before(l, 1) # None => Start <= Before(l, 1)
  BY <1>1, ReadCommon
<1>3. h.at \in Nat /\ h.before \in Nat \cup {None} /\ Late(l) \in Nat /\ Late(l) <= Start
  BY <1>1, <1>2, LateFacts DEF Word
<1>4. fall[l] = IF h.before # None THEN h.before - Late(l) ELSE None
  <2>1. fall[l] = IF Rising(l, 1) /\ Before(l, 1) # None THEN Before(l, 1) - Late(l) ELSE None
    BY DEF LineInv, Charging
  <2>2. Rising(l, 1)
    BY <1>2
  <2> QED
    BY <1>2, <2>1, <2>2
<1>5. CASE h.before = None
  BY <1>5, <1>2, <1>3, <1>4 DEF DwellOf, SparkTrue, Spark
<1>6. CASE h.before # None
  <2>1. fall[l] = h.before - Late(l) /\ fall[l] # None
    BY <1>6, <1>2, <1>3, <1>4, ConstantFacts DEF None
  <2>2. DwellOf(l) = h.at - h.before /\ DwellOf(l) \in Nat
    BY <1>2, <1>3, <1>6, <2>1 DEF DwellOf
  <2> QED
    BY <1>2, <1>3, <1>6, <2>2 DEF SparkTrue, Spark
<1> QED
  BY <1>5, <1>6

LEMMA LineInvIgn ==
    ASSUME LineInv, NEW l \in Ign, ReadFall(l) \/ ReadSpark(l)
    PROVE  LineInv'
<1> USE DEF LineInv
<1>0. l \in Lines /\ Read(l)
  BY LineFacts DEF ReadFall, ReadSpark
<1>1. /\ Times' /\ Chained' /\ Turns'
      /\ line' \in [Lines -> Seq(Word)] /\ edges' \in [Lines -> Nat] /\ todo' \in Nat
      /\ UNCHANGED <<ramping, now, up, last, made, phase, pos, room, begun, stepVars>>
      /\ \A m \in Lines : /\ Len(line'[m]) <= Lag
                          /\ made'[m] = Thrown(m) + edges'[m] + Len(line'[m])
      /\ Before(l, 1)' = Head(line[l]).at /\ Rising(l, 1)' = ~Head(line[l]).rising
      /\ \A m \in Lines : m # l =>
             Before(m, 1)' = Before(m, 1) /\ Rising(m, 1)' = Rising(m, 1)
      /\ Head(line[l]) \in Word
      /\ Corrected(l) = Head(line[l]).at - Late(l) /\ Corrected(l) \in Nat
  BY <1>0, ReadCommon
<1>2. UNCHANGED wheelVars
  BY DEF ReadFall, ReadSpark
<1>3. fall \in [Ign -> Nat \cup {None}] /\ pend \in [Ign -> Seq(Spark)]
  BY DEF Types
<1>4. /\ pend' \in [Ign -> Seq(Spark)] /\ \A m \in Ign : Len(pend'[m]) <= PendCap
  <2>0. \A m \in Ign : Len(pend[m]) <= PendCap
    BY DEF Bounds
  <2>1. CASE pend' = pend
    BY <2>0, <2>1, <1>3
  <2>2. CASE pend' # pend
    <3> DEFINE s == [t |-> Corrected(l), dwell |-> DwellOf(l), at |-> Head(line[l]).at,
                     before |-> Head(line[l]).before]
    <3>1. /\ Head(line[l]).rising /\ Len(pend[l]) < PendCap
          /\ pend' = [pend EXCEPT ![l] = Append(@, s)]
      BY <2>2 DEF ReadFall, ReadSpark
    <3>2. s \in Spark
      BY <3>1, <1>0, NewSparkTrue
    <3>3. Append(pend[l], s) \in Seq(Spark) /\ Len(Append(pend[l], s)) = Len(pend[l]) + 1
      BY <3>2, <1>3, AppendFacts
    <3> HIDE DEF s
    <3> QED
      BY <3>1, <3>3, <2>0, <1>3, ConstantFacts
  <2> QED
    BY <2>1, <2>2
<1>5. \A m \in Ign : m # l => fall'[m] = fall[m]
  BY <1>3 DEF ReadFall, ReadSpark
<1>6. /\ fall' \in [Ign -> Nat \cup {None}]
      /\ fall'[l] = IF Head(line[l]).rising THEN None ELSE Corrected(l)
  BY <1>1, <1>3 DEF ReadFall, ReadSpark
<1>7. Types'
  BY <1>1, <1>2, <1>4, <1>6 DEF Types, stepVars, wheelVars
<1>8. Bounds'
  BY <1>1, <1>4 DEF Bounds, Thrown
<1>9. Charging'
  <2>1. SUFFICES ASSUME NEW m \in Ign
                 PROVE  fall'[m] = IF Rising(m, 1)' /\ Before(m, 1)' # None
                                   THEN Before(m, 1)' - Late(m) ELSE None
    BY DEF Charging, Late, Thrown
  <2>2. CASE m # l
    <3>1. Before(m, 1)' = Before(m, 1) /\ Rising(m, 1)' = Rising(m, 1)
      BY <2>2, <1>1, LineFacts
    <3>2. fall[m] = IF Rising(m, 1) /\ Before(m, 1) # None THEN Before(m, 1) - Late(m) ELSE None
      BY DEF Charging
    <3> QED
      BY <3>1, <3>2, <2>2, <1>5, Zenon
  <2>3. CASE m = l
    <3>1. Head(line[l]).at # None
      BY <1>1 DEF Word, None
    <3> QED
      BY <3>1, <2>3, <1>1, <1>6, Zenon
  <2> QED
    BY <2>2, <2>3
<1> QED
  BY <1>1, <1>7, <1>8, <1>9

(* Looking at a spark takes the first of the queue away or puts it last. *)
LEMMA LookFacts ==
    ASSUME LineInv, NEW l \in Ign, Resolve(l) \/ Drop(l) \/ Keep(l)
    PROVE  /\ phase = "resolve" /\ pos = l /\ todo > 0 /\ todo' = todo - 1 /\ todo' \in Nat
           /\ UNCHANGED <<lineVars, edges, phase, pos, room, begun>>
           /\ UNCHANGED <<ramping, now, wheelVars, fall, step_rev0, latency>>
           /\ Len(pend[l]) > 0 /\ Head(pend[l]) = pend[l][1] /\ Head(pend[l]) \in Spark
           /\ pend[l] \in Seq(Spark) /\ Tail(pend[l]) \in Seq(Spark)
           /\ pend' \in [Ign -> Seq(Spark)]
           /\ \A m \in Ign : m # l => pend'[m] = pend[m]
           /\ ~Keep(l) => /\ pend'[l] = Tail(pend[l]) /\ Len(pend'[l]) = Len(pend[l]) - 1
                          /\ \A i \in 1 .. Len(pend'[l]) : pend'[l][i] = pend[l][i + 1]
           /\ Keep(l) => /\ Len(pend'[l]) = Len(pend[l])
                         /\ pend'[l][Len(pend[l])] = pend[l][1]
                         /\ \A i \in 1 .. Len(pend[l]) - 1 : pend'[l][i] = pend[l][i + 1]
           /\ got' \in [Ign -> 0 .. Want]
<1> USE DEF LineInv
<1>1. /\ phase = "resolve" /\ pos = l /\ todo > 0 /\ todo' = todo - 1
      /\ UNCHANGED <<lineVars, edges, phase, pos, room, begun>>
      /\ UNCHANGED <<ramping, now, wheelVars, fall, step_rev0, latency>>
  BY DEF Resolve, Drop, Keep, LookAt
<1>2. todo \in Nat /\ pend \in [Ign -> Seq(Spark)] /\ got \in [Ign -> 0 .. Want]
  BY DEF Types
<1>3. PICK s \in Seq(Spark) : s = pend[l] /\ Len(s) > 0
  <2>1. todo <= Len(pend[l]) /\ Len(pend[l]) \in Nat
    BY <1>1, <1>2 DEF Turns
  <2> QED
    BY <2>1, <1>1, <1>2
<1>4. /\ Tail(s) \in Seq(Spark) /\ Len(Tail(s)) = Len(s) - 1 /\ Len(s) \in Nat
      /\ \A i \in 1 .. Len(s) - 1 : Tail(s)[i] = s[i + 1]
      /\ Head(s) = s[1] /\ Head(s) \in Spark
  BY <1>3, TailFacts
<1>5. /\ Append(Tail(s), Head(s)) \in Seq(Spark)
      /\ Len(Append(Tail(s), Head(s))) = Len(s)
      /\ \A i \in 1 .. Len(s) - 1 : Append(Tail(s), Head(s))[i] = s[i + 1]
      /\ Append(Tail(s), Head(s))[Len(s)] = s[1]
  BY <1>4, AppendFacts
<1>6. ~Keep(l) => pend' = [pend EXCEPT ![l] = Tail(s)]
  BY <1>3 DEF Resolve, Drop
<1>7. Keep(l) => pend' = [pend EXCEPT ![l] = Append(Tail(s), Head(s))]
  BY <1>3 DEF Keep
<1>8. pend' \in [Ign -> Seq(Spark)] /\ \A m \in Ign : m # l => pend'[m] = pend[m]
  BY <1>2, <1>4, <1>5, <1>6, <1>7
<1>9. ~Keep(l) => /\ pend'[l] = Tail(pend[l]) /\ Len(pend'[l]) = Len(pend[l]) - 1
                  /\ \A i \in 1 .. Len(pend'[l]) : pend'[l][i] = pend[l][i + 1]
  <2> SUFFICES ASSUME ~Keep(l)
               PROVE  /\ pend'[l] = Tail(s) /\ Len(pend'[l]) = Len(s) - 1
                      /\ \A i \in 1 .. Len(pend'[l]) : pend'[l][i] = s[i + 1]
    BY <1>3
  <2>1. pend'[l] = Tail(s)
    BY <1>2, <1>6
  <2> QED
    BY <2>1, <1>4
<1>10. Keep(l) => /\ Len(pend'[l]) = Len(pend[l])
                  /\ pend'[l][Len(pend[l])] = pend[l][1]
                  /\ \A i \in 1 .. Len(pend[l]) - 1 : pend'[l][i] = pend[l][i + 1]
  <2> SUFFICES ASSUME Keep(l)
               PROVE  /\ Len(pend'[l]) = Len(s) /\ pend'[l][Len(s)] = s[1]
                      /\ \A i \in 1 .. Len(s) - 1 : pend'[l][i] = s[i + 1]
    BY <1>3
  <2>1. pend'[l] = Append(Tail(s), Head(s))
    BY <1>2, <1>7
  <2> QED
    BY <2>1, <1>5
<1>11. got' \in [Ign -> 0 .. Want]
  <2>1. CASE got' = got
    BY <2>1, <1>2
  <2>2. CASE got' # got
    <3>1. got' = [got EXCEPT ![l] = @ + 1] /\ got[l] < Want
      BY <2>2 DEF Resolve, Drop, Keep, Counts
    <3>2. got[l] + 1 \in 0 .. Want
      BY <3>1, <1>2, ConstantFacts
    <3> QED
      BY <3>1, <3>2, <1>2
  <2> QED
    BY <2>1, <2>2
<1>12. /\ Len(pend[l]) > 0 /\ Head(pend[l]) = pend[l][1] /\ Head(pend[l]) \in Spark
       /\ pend[l] \in Seq(Spark) /\ Tail(pend[l]) \in Seq(Spark)
  BY <1>3, <1>4
<1>13. todo' \in Nat
  BY <1>1, <1>2
<1> QED
  BY <1>1, <1>8, <1>9, <1>10, <1>11, <1>12, <1>13, Zenon

LEMMA LineInvLook ==
    ASSUME LineInv, NEW l \in Ign, Resolve(l) \/ Drop(l) \/ Keep(l)
    PROVE  LineInv'
<1> USE DEF LineInv
<1>1. /\ phase = "resolve" /\ pos = l /\ todo > 0 /\ todo' = todo - 1 /\ todo' \in Nat
      /\ UNCHANGED <<lineVars, edges, phase, pos, room, begun>>
      /\ UNCHANGED <<ramping, now, wheelVars, fall, step_rev0, latency>>
      /\ pend' \in [Ign -> Seq(Spark)] /\ got' \in [Ign -> 0 .. Want]
      /\ \A m \in Ign : m # l => pend'[m] = pend[m]
      /\ pend[l] \in Seq(Spark)
      /\ Len(pend'[l]) = Len(pend[l]) \/ Len(pend'[l]) = Len(pend[l]) - 1
  BY LookFacts
<1>2. now \in Nat /\ todo \in Nat /\ Len(pend[l]) \in Nat
  BY <1>1 DEF Types
<1>3. /\ Times' /\ Chained'
      /\ \A m \in Lines : Len(line'[m]) <= Lag /\ made'[m] = Thrown(m) + edges'[m] + Len(line'[m])
      /\ \A m \in Lines : Before(m, 1)' = Before(m, 1) /\ Rising(m, 1)' = Rising(m, 1)
  BY <1>1, <1>2, LinesStay
<1>4. Types'
  BY <1>1 DEF Types, lineVars, wheelVars
<1>5. Bounds'
  <2>1. \A m \in Ign : Len(pend[m]) <= PendCap
    BY DEF Bounds
  <2>2. Len(pend'[l]) <= PendCap
    BY <2>1, <1>1, <1>2, ConstantFacts
  <2> QED
    BY <2>1, <2>2, <1>1, <1>3 DEF Bounds, Thrown
<1>6. Turns'
  <2>1. todo <= Len(pend[l])
    BY <1>1 DEF Turns
  <2>2. todo' <= Len(pend'[l])
    BY <2>1, <1>1, <1>2
  <2> QED
    BY <2>2, <1>1 DEF Turns
<1>7. Charging'
  BY <1>1, <1>3, ChargingStays
<1> QED
  BY <1>3, <1>4, <1>5, <1>6, <1>7

LEMMA LineInvRest == LineInv /\ (NextCylinder \/ BeginStep \/ UNCHANGED vars) => LineInv'
<1> SUFFICES ASSUME LineInv, NextCylinder \/ BeginStep \/ UNCHANGED vars PROVE LineInv'
  OBVIOUS
<1> USE DEF LineInv
<1>1. UNCHANGED <<ramping, now, lineVars, room, begun, edges, wheelVars, fall, latency>>
  BY DEF NextCylinder, BeginStep, batchVars, vars
<1>2. now \in Nat /\ rev \in Nat
  BY DEF Types
<1>3. /\ Times' /\ Chained'
      /\ \A m \in Lines : Len(line'[m]) <= Lag /\ made'[m] = Thrown(m) + edges'[m] + Len(line'[m])
      /\ \A m \in Lines : Before(m, 1)' = Before(m, 1) /\ Rising(m, 1)' = Rising(m, 1)
  BY <1>1, <1>2, LinesStay
<1>4. /\ phase' \in {"idle", "drain", "resolve"} /\ pos' \in Lines /\ todo' \in Nat
      /\ Turns'
      /\ pend' \in [Ign -> Seq(Spark)] /\ got' \in [Ign -> 0 .. Want] /\ step_rev0' \in Nat
      /\ \A m \in Ign : Len(pend'[m]) <= PendCap
  <2>0. /\ pend \in [Ign -> Seq(Spark)] /\ got \in [Ign -> 0 .. Want] /\ step_rev0 \in Nat
        /\ \A m \in Ign : Len(pend[m]) <= PendCap
        /\ phase \in {"idle", "drain", "resolve"} /\ pos \in Lines /\ todo \in Nat
    BY DEF Types, Bounds
  <2>1. CASE NextCylinder /\ pos < CylCount
    <3>1. /\ phase = "resolve" /\ phase' = phase /\ pos' = pos + 1 /\ todo' = Len(pend[pos + 1])
          /\ UNCHANGED <<pend, stepVars>>
      BY <2>1 DEF NextCylinder
    <3>2. pos + 1 \in Ign /\ pos + 1 \in Lines
      BY <2>0, <2>1, <3>1, ConstantFacts DEF Turns, Ign, Lines, Tach
    <3>3. Len(pend[pos + 1]) \in Nat
      BY <3>2, <2>0
    <3>4. todo' <= Len(pend'[pos'])
      BY <3>1, <3>3
    <3>5. Turns'
      BY <3>1, <3>2, <3>4 DEF Turns
    <3> QED
      BY <3>1, <3>2, <3>3, <3>5, <2>0 DEF stepVars
  <2>2. CASE NextCylinder /\ ~(pos < CylCount)
    <3>1. /\ phase' = "idle" /\ pos' = 0 /\ todo' = 0 /\ UNCHANGED <<pend, stepVars>>
      BY <2>2 DEF NextCylinder
    <3>2. 0 \in Lines
      BY LineFacts DEF Pickup
    <3> QED
      BY <3>1, <3>2, <2>0 DEF Turns, stepVars
  <2>3. CASE BeginStep
    <3>1. /\ phase = "idle" /\ got' = [l \in Ign |-> 0] /\ pend' = [l \in Ign |-> <<>>]
          /\ step_rev0' = rev /\ UNCHANGED batchVars
      BY <2>3 DEF BeginStep
    <3>2. Turns'
      BY <3>1 DEF Turns, batchVars
    <3> QED
      BY <3>1, <3>2, <2>0, <1>2, ConstantFacts DEF batchVars
  <2>4. CASE UNCHANGED vars
    <3>1. UNCHANGED <<lineVars, batchVars, pend, stepVars>>
      BY <2>4 DEF vars
    <3>2. Turns'
      BY <3>1 DEF Turns, lineVars, batchVars
    <3> QED
      BY <3>1, <3>2, <2>0 DEF batchVars, stepVars
  <2> QED
    BY <2>1, <2>2, <2>3, <2>4
<1>5. Types'
  BY <1>1, <1>4 DEF Types, lineVars, wheelVars
<1>6. Bounds'
  BY <1>3, <1>4 DEF Bounds, Thrown
<1>7. Charging'
  BY <1>1, <1>3, ChargingStays
<1> QED
  BY <1>3, <1>4, <1>5, <1>6, <1>7

LEMMA LineInvStep == LineInv /\ [Next]_vars => LineInv'
<1> SUFFICES ASSUME LineInv, [Next]_vars PROVE LineInv'
  OBVIOUS
<1>1. CASE Tick
  BY <1>1, LineInvTick
<1>2. CASE \E l \in Lines : Edge(l)
  BY <1>2, LineInvEdge
<1>3. CASE Drain \/ NextLine
  BY <1>3, LineInvDrain
<1>4. CASE ReadPickup
  BY <1>4, LineInvPickup
<1>5. CASE \E l \in Ign : ReadFall(l) \/ ReadSpark(l)
  BY <1>5, LineInvIgn
<1>6. CASE ReadTach
  BY <1>6, LineInvTach
<1>7. CASE \E l \in Ign : Resolve(l) \/ Drop(l) \/ Keep(l)
  BY <1>7, LineInvLook
<1>8. CASE NextCylinder \/ BeginStep \/ UNCHANGED vars
  BY <1>8, LineInvRest
<1> QED
  BY <1>1, <1>2, <1>3, <1>4, <1>5, <1>6, <1>7, <1>8 DEF Next

LEMMA LineInvAlways == Spec => []LineInv
BY LineInvInit, LineInvStep, PTL DEF Spec

LEMMA LineInvTypes == LineInv => TypeOK
<1> SUFFICES ASSUME LineInv PROVE TypeOK
  OBVIOUS
<1>1. Types /\ Bounds
  BY DEF LineInv
<1>2. \A k \in DOMAIN pk : pk[k].t \in Nat /\ pk[k].intra \in (1 .. E) \cup {None}
  <2>1. pk \in Seq(PkEdge)
    BY <1>1 DEF Types
  <2>2. \A k \in DOMAIN pk : pk[k] \in PkEdge
    BY <2>1
  <2> QED
    BY <2>2 DEF PkEdge
<1>3. \A l \in Ign : Len(pend[l]) <= PendCap /\ pend[l] \in Seq(Spark)
  BY <1>1 DEF Types, Bounds
<1>4. ramping \in BOOLEAN /\ synced \in BOOLEAN
  BY <1>1, Zenon DEF Types
<1> QED
  BY <1>1, <1>2, <1>3, <1>4 DEF Types, Bounds, TypeOK

(* The types of the variables, and the bounds of the buffers. *)
THEOREM TypeCorrect == Spec => []TypeOK
BY LineInvAlways, LineInvTypes, PTL

-----------------------------------------------------------------------------
(* The pickup history. *)

Ordered ==
    /\ \A k \in DOMAIN pk : pk[k].t = pk[k].at
    /\ \A j, k \in DOMAIN pk : j < k => pk[j].t < pk[k].t
    /\ pk # <<>> => pk[Len(pk)].t = Before(Pickup, 1)

HasLastTooth0 == Tooth0s # {} => \E k \in Tooth0s : \A j \in Tooth0s : j <= k

(* Any time between the ends of the window lies between two neighbours. *)
Covered ==
    \A t \in Nat :
        \/ Len(pk) < 2 \/ t >= pk[Len(pk)].t \/ t < pk[Oldest].t
        \/ \E k \in Oldest .. Len(pk) - 1 : pk[k].t <= t /\ t < pk[k + 1].t

HistoryInv == LineInv /\ Ordered /\ HasLastTooth0 /\ Covered

(* Only ReadPickup moves the history. *)
LEMMA HistoryStays ==
    ASSUME LineInv, [Next]_vars, ~ReadPickup
    PROVE  pk' = pk /\ Before(Pickup, 1)' = Before(Pickup, 1)
<1>0. Pickup \in Lines
  BY LineFacts
<1>1. CASE \E l \in Lines : Edge(l)
  <2>1. PICK l \in Lines : Edge(l)
    BY <1>1
  <2>2. pk' = pk
    BY <2>1 DEF Edge, wheelVars
  <2> QED
    BY <2>1, <2>2, <1>0, EdgeLines
<1>2. CASE ReadTach \/ \E l \in Ign : ReadFall(l) \/ ReadSpark(l)
  <2>1. PICK l \in Lines : l # Pickup /\ Read(l) /\ pk' = pk
    BY <1>2, LineFacts DEF ReadTach, ReadFall, ReadSpark, wheelVars
  <2> QED
    BY <2>1, <1>0, ReadCommon
<1>3. CASE \/ Tick \/ Drain \/ NextLine \/ (\E l \in Ign : Resolve(l) \/ Drop(l) \/ Keep(l))
           \/ NextCylinder \/ BeginStep \/ UNCHANGED vars
  <2>1. UNCHANGED <<lineVars, wheelVars>>
    BY <1>3 DEF Tick, Drain, NextLine, Resolve, Drop, Keep, LookAt, NextCylinder, BeginStep, vars
  <2> QED
    BY <2>1 DEF Before, lineVars, wheelVars
<1> QED
  BY <1>1, <1>2, <1>3 DEF Next

LEMMA PickupAppends ==
    ASSUME LineInv, Ordered, ReadPickup
    PROVE  \E e \in PkEdge :
             /\ pk' = Append(pk, e) /\ pk' \in Seq(PkEdge) /\ pk \in Seq(PkEdge)
             /\ Len(pk') = Len(pk) + 1 /\ pk'[Len(pk) + 1] = e /\ pk' # <<>>
             /\ \A k \in 1 .. Len(pk) : pk'[k] = pk[k]
             /\ e.t = e.at /\ Before(Pickup, 1)' = e.t
             /\ pk # <<>> => pk[Len(pk)].t < e.t
<1>0. Pickup \in Lines /\ Read(Pickup)
  BY LineFacts DEF ReadPickup
<1> DEFINE h == Head(line[Pickup])
<1>1. /\ h \in Word /\ Corrected(Pickup) = h.at - Late(Pickup) /\ Before(Pickup, 1) < h.at
      /\ Before(Pickup, 1)' = h.at
  BY <1>0, ReadCommon
<1>2. pk \in Seq(PkEdge) /\ pk' \in Seq(PkEdge)
  BY LineInvPickup DEF LineInv, Types
<1>3. PICK e : /\ pk' = Append(pk, e) /\ e.t = Corrected(Pickup) /\ e.at = h.at
  BY DEF ReadPickup
<1>4. /\ Len(pk') = Len(pk) + 1 /\ pk'[Len(pk) + 1] = e /\ Len(pk) \in Nat
      /\ \A k \in 1 .. Len(pk) : pk'[k] = pk[k]
  BY <1>2, <1>3
<1>5. e \in PkEdge
  BY <1>2, <1>4
<1>6. h.at \in Nat
  BY <1>1 DEF Word
<1>7. e.t = h.at
  BY <1>1, <1>3, <1>6, PickupNotLate
<1>8. pk # <<>> => pk[Len(pk)].t < e.t
  BY <1>1, <1>7 DEF Ordered
<1>9. pk' # <<>>
  BY <1>2, <1>4
<1> QED
  BY <1>1, <1>2, <1>3, <1>4, <1>5, <1>7, <1>8, <1>9

LEMMA HistoryInvInit == Init => HistoryInv
<1> SUFFICES ASSUME Init PROVE HistoryInv
  OBVIOUS
<1>1. pk = <<>>
  BY DEF Init
<1>2. Ordered
  BY <1>1 DEF Ordered
<1>3. HasLastTooth0
  BY <1>1 DEF HasLastTooth0, Tooth0s
<1>4. Covered
  BY <1>1 DEF Covered
<1> QED
  BY <1>2, <1>3, <1>4, LineInvInit DEF HistoryInv

LEMMA OrderedStep == LineInv /\ Ordered /\ [Next]_vars => Ordered'
<1> SUFFICES ASSUME LineInv, Ordered, [Next]_vars PROVE Ordered'
  OBVIOUS
<1>1. CASE ~ReadPickup
  BY <1>1, HistoryStays DEF Ordered
<1>2. CASE ReadPickup
  <2>1. PICK e \in PkEdge :
          /\ pk' \in Seq(PkEdge) /\ pk \in Seq(PkEdge)
          /\ Len(pk') = Len(pk) + 1 /\ pk'[Len(pk) + 1] = e
          /\ \A k \in 1 .. Len(pk) : pk'[k] = pk[k]
          /\ e.t = e.at /\ Before(Pickup, 1)' = e.t
          /\ pk # <<>> => pk[Len(pk)].t < e.t
    BY <1>2, PickupAppends
  <2>2. PICK n \in Nat : n = Len(pk)
    BY <2>1
  <2>3. /\ DOMAIN pk = 1 .. n /\ DOMAIN pk' = 1 .. n + 1 /\ Len(pk') = n + 1
        /\ pk'[n + 1] = e /\ \A k \in 1 .. n : pk'[k] = pk[k]
        /\ n > 0 => pk # <<>> /\ pk[n].t < e.t
    BY <2>1, <2>2
  <2>4. \A k \in 1 .. n : pk[k].t \in Nat
    <3>1. \A k \in 1 .. n : pk[k] \in PkEdge
      BY <2>1, <2>3
    <3> QED
      BY <3>1 DEF PkEdge
  <2>5. e.t \in Nat
    BY <2>1 DEF PkEdge
  <2>6. \A k \in DOMAIN pk' : pk'[k].t = pk'[k].at
    BY <2>1, <2>3 DEF Ordered
  <2>7. \A k \in 1 .. n : pk[k].t < e.t
    <3> SUFFICES ASSUME NEW k \in 1 .. n PROVE pk[k].t < e.t
      OBVIOUS
    <3>1. n \in 1 .. n /\ pk[n].t < e.t
      BY <2>2, <2>3
    <3>2. k = n \/ pk[k].t < pk[n].t
      BY <3>1, <2>3 DEF Ordered
    <3> QED
      BY <3>1, <3>2, <2>4, <2>5
  <2>8. \A j, k \in DOMAIN pk' : j < k => pk'[j].t < pk'[k].t
    <3> SUFFICES ASSUME NEW j \in 1 .. n + 1, NEW k \in 1 .. n + 1, j < k
                 PROVE  pk'[j].t < pk'[k].t
      BY <2>3
    <3>1. j \in 1 .. n /\ pk'[j] = pk[j]
      BY <2>2, <2>3
    <3>2. CASE k \in 1 .. n
      BY <3>1, <3>2, <2>3 DEF Ordered
    <3>3. CASE k = n + 1
      BY <3>1, <3>3, <2>3, <2>7
    <3> QED
      BY <3>2, <3>3, <2>2
  <2> QED
    BY <2>1, <2>3, <2>6, <2>8 DEF Ordered
<1> QED
  BY <1>1, <1>2

LEMMA Tooth0Step == LineInv /\ Ordered /\ HasLastTooth0 /\ [Next]_vars => HasLastTooth0'
<1> SUFFICES ASSUME LineInv, Ordered, HasLastTooth0, [Next]_vars PROVE HasLastTooth0'
  OBVIOUS
<1>1. CASE ~ReadPickup
  BY <1>1, HistoryStays DEF HasLastTooth0, Tooth0s
<1>2. CASE ReadPickup
  <2>1. /\ pk' \in Seq(PkEdge) /\ pk \in Seq(PkEdge) /\ Len(pk') = Len(pk) + 1
        /\ \A k \in 1 .. Len(pk) : pk'[k] = pk[k]
    BY <1>2, PickupAppends
  <2>2. PICK n \in Nat : n = Len(pk)
    BY <2>1
  <2>3. DOMAIN pk = 1 .. n /\ DOMAIN pk' = 1 .. n + 1 /\ \A k \in 1 .. n : pk'[k] = pk[k]
    BY <2>1, <2>2
  <2>4. Tooth0s' \subseteq 1 .. n + 1 /\ Tooth0s \subseteq 1 .. n
    BY <2>3 DEF Tooth0s
  <2>5. \A k \in 1 .. n : k \in Tooth0s' <=> k \in Tooth0s
    BY <2>3 DEF Tooth0s
  <2>6. CASE n + 1 \in Tooth0s'
    BY <2>4, <2>6 DEF HasLastTooth0
  <2>7. CASE n + 1 \notin Tooth0s'
    <3>1. \A k : k \in Tooth0s' <=> k \in Tooth0s
      <4>1. \A k \in 1 .. n + 1 : k \in 1 .. n \/ k = n + 1
        BY <2>2
      <4> QED
        BY <4>1, <2>4, <2>5, <2>7
    <3> QED
      BY <3>1 DEF HasLastTooth0
  <2> QED
    BY <2>6, <2>7
<1> QED
  BY <1>1, <1>2

WindowFrom(n) == n - SmallerOf(n, PkCap) + 1

LEMMA WindowFacts ==
    ASSUME NEW n \in Nat
    PROVE  /\ WindowFrom(n) \in Int
           /\ n > 0 => WindowFrom(n) \in 1 .. n
           /\ n > 1 => WindowFrom(n) < n
           /\ WindowFrom(n + 1) = WindowFrom(n) \/ WindowFrom(n + 1) = WindowFrom(n) + 1
<1>1. CASE n < PkCap
  <2>1. WindowFrom(n) = n - n + 1 /\ WindowFrom(n + 1) = (n + 1) - (n + 1) + 1
    BY <1>1, ConstantFacts DEF WindowFrom, SmallerOf
  <2> QED
    BY <2>1
<1>2. CASE n >= PkCap
  <2>1. SmallerOf(n, PkCap) = PkCap /\ SmallerOf(n + 1, PkCap) = PkCap
    BY <1>2, ConstantFacts DEF SmallerOf
  <2> QED
    BY <2>1, <1>2, ConstantFacts DEF WindowFrom
<1> QED
  BY <1>1, <1>2, ConstantFacts

LEMMA OldestFacts ==
    ASSUME pk \in Seq(PkEdge), Len(pk) > 0
    PROVE  Oldest \in 1 .. Len(pk) /\ (Len(pk) > 1 => Oldest < Len(pk))
<1>1. PICK n \in Nat : n = Len(pk) /\ n > 0
  OBVIOUS
<1>2. WindowFrom(n) \in 1 .. n /\ (n > 1 => WindowFrom(n) < n)
  BY <1>1, WindowFacts
<1> QED
  BY <1>1, <1>2 DEF Oldest, WindowFrom

LEMMA CoveredStep == LineInv /\ Ordered /\ Covered /\ [Next]_vars => Covered'
<1> SUFFICES ASSUME LineInv, Ordered, Covered, [Next]_vars PROVE Covered'
  OBVIOUS
<1>1. CASE ~ReadPickup
  BY <1>1, HistoryStays DEF Covered, Oldest
<1>2. CASE ReadPickup
  <2>1. PICK e \in PkEdge :
          /\ pk' \in Seq(PkEdge) /\ pk \in Seq(PkEdge)
          /\ Len(pk') = Len(pk) + 1 /\ pk'[Len(pk) + 1] = e
          /\ \A k \in 1 .. Len(pk) : pk'[k] = pk[k]
    BY <1>2, PickupAppends
  <2>2. PICK n \in Nat : n = Len(pk)
    BY <2>1
  <2>3. PICK o \in Int : o = WindowFrom(n) /\ o = Oldest
    BY <2>2, WindowFacts DEF Oldest, WindowFrom
  <2>4. PICK p \in Int : p = WindowFrom(n + 1) /\ p = Oldest'
    BY <2>1, <2>2, WindowFacts DEF Oldest, WindowFrom
  <2>4a. /\ n > 0 => o \in 1 .. n
         /\ p \in 1 .. n + 1 /\ (n > 0 => p <= n)
         /\ p = o \/ p = o + 1
    <3>1. n + 1 > 0 /\ n + 1 \in Nat /\ (n > 0 => n + 1 > 1)
      BY <2>2
    <3>2. p \in 1 .. n + 1 /\ (n > 0 => p < n + 1)
      BY <3>1, <2>4, WindowFacts
    <3>3. (n > 0 => o \in 1 .. n) /\ (p = o \/ p = o + 1)
      BY <2>2, <2>3, <2>4, WindowFacts
    <3> QED
      BY <2>2, <3>2, <3>3
  <2>5. Len(pk') = n + 1 /\ pk'[n + 1] = e /\ \A k \in 1 .. n : pk'[k] = pk[k]
    BY <2>1, <2>2
  <2>6. \A k \in 1 .. n : pk[k].t \in Nat
    <3>1. \A k \in 1 .. n : pk[k] \in PkEdge
      BY <2>1, <2>2
    <3> QED
      BY <3>1 DEF PkEdge
  <2>7. e.t \in Nat
    BY DEF PkEdge
  <2>8. SUFFICES ASSUME NEW t \in Nat, n + 1 >= 2, t < e.t, t >= pk'[p].t
                 PROVE  \E k \in p .. n : pk'[k].t <= t /\ t < pk'[k + 1].t
    <3>1. SUFFICES ASSUME NEW t \in Nat, ~(n + 1 < 2), ~(t >= e.t), ~(t < pk'[p].t)
                   PROVE  \E k \in p .. (n + 1) - 1 : pk'[k].t <= t /\ t < pk'[k + 1].t
      BY <2>4, <2>5 DEF Covered
    <3>2. pk'[p].t \in Nat
      <4>1. pk'[p] \in PkEdge
        BY <2>1, <2>5, <2>4a
      <4> QED
        BY <4>1 DEF PkEdge
    <3>3. (n + 1) - 1 = n
      BY <2>2
    <3>4. n + 1 >= 2 /\ t < e.t /\ t >= pk'[p].t
      BY <3>1, <3>2, <2>2, <2>7
    <3> QED
      BY <3>3, <3>4
  <2>9. n \in 1 .. n /\ o \in 1 .. n /\ p \in 1 .. n /\ p >= o
    BY <2>2, <2>4a, <2>8
  <2>10. CASE t >= pk[n].t
    BY <2>5, <2>8, <2>9, <2>10
  <2>11. CASE t < pk[n].t
    <3>1. pk[p].t <= t /\ pk[o].t <= t
      <4>1. pk[p].t <= t /\ pk[p].t \in Nat /\ pk[o].t \in Nat
        BY <2>5, <2>6, <2>8, <2>9
      <4>2. o = p \/ pk[o].t < pk[p].t
        BY <2>9, <2>1, <2>2 DEF Ordered
      <4> QED
        BY <4>1, <4>2
    <3>2. n >= 2
      <4>1. n # 1
        BY <2>6, <2>9, <2>11, <3>1
      <4> QED
        BY <4>1, <2>8
    <3>3. PICK k \in o .. n - 1 : pk[k].t <= t /\ t < pk[k + 1].t
      <4>1. ~(Len(pk) < 2) /\ ~(t >= pk[Len(pk)].t) /\ ~(t < pk[Oldest].t)
        BY <3>1, <3>2, <2>2, <2>3, <2>6, <2>9, <2>11
      <4> QED
        BY <4>1, <2>2, <2>3 DEF Covered
    <3>4. k \in 1 .. n /\ k + 1 \in 1 .. n
      BY <3>3, <2>9
    <3>5. k >= p
      <4>1. SUFFICES ASSUME k < p PROVE FALSE
        BY <3>4, <2>9
      <4>2. p = k + 1
        BY <4>1, <3>3, <2>4a, <2>9
      <4> QED
        BY <4>2, <3>1, <3>3, <3>4, <2>6
    <3> QED
      BY <3>3, <3>4, <3>5, <2>5, <2>9
  <2> QED
    BY <2>6, <2>8, <2>9, <2>10, <2>11
<1> QED
  BY <1>1, <1>2

LEMMA HistoryInvStep == HistoryInv /\ [Next]_vars => HistoryInv'
BY LineInvStep, OrderedStep, Tooth0Step, CoveredStep DEF HistoryInv

(* The edges around a spark, if the window has them, are unique. *)
LEMMA BracketUnique ==
    ASSUME HistoryInv, NEW s \in Spark, NEW k \in Around(s)
    PROVE  /\ Bracket(s) = k /\ k \in DOMAIN pk /\ k + 1 \in DOMAIN pk /\ k <= Len(pk) - 1
           /\ pk[k].t <= s.t /\ s.t < pk[k + 1].t
<1>1. pk \in Seq(PkEdge) /\ s.t \in Nat
  BY DEF HistoryInv, LineInv, Types, Spark
<1>2. PICK n \in Nat : n = Len(pk) /\ DOMAIN pk = 1 .. n
  BY <1>1
<1>3. \A i \in 1 .. n : pk[i].t \in Nat
  <2>1. \A i \in 1 .. n : pk[i] \in PkEdge
    BY <1>1, <1>2
  <2> QED
    BY <2>1 DEF PkEdge
<1>4. n > 0
  <2>1. k \in Oldest .. n - 1 /\ Oldest = WindowFrom(n) /\ WindowFrom(0) = 1
    BY <1>2, ConstantFacts DEF Around, Oldest, WindowFrom, SmallerOf
  <2> QED
    BY <2>1, <1>2
<1>5. \A j \in Around(s) : j \in 1 .. n /\ j + 1 \in 1 .. n /\ pk[j].t <= s.t /\ s.t < pk[j + 1].t
  BY <1>1, <1>2, <1>4, OldestFacts DEF Around
<1>6. \A i, j \in Around(s) : ~(i < j)
  <2> SUFFICES ASSUME NEW i \in Around(s), NEW j \in Around(s), i < j PROVE FALSE
    OBVIOUS
  <2>1. i + 1 = j \/ pk[i + 1].t < pk[j].t
    BY <1>2, <1>5 DEF HistoryInv, Ordered
  <2> QED
    BY <2>1, <1>1, <1>3, <1>5
<1>7. \A j \in Around(s) : j = k
  BY <1>2, <1>5, <1>6
<1>8. Bracket(s) = k
  <2>1. Around(s) = {k}
    BY <1>7
  <2>2. Min({k}) = k
    BY <1>5 DEF Min
  <2> QED
    BY <2>1, <2>2 DEF Bracket
<1> QED
  BY <1>2, <1>5, <1>8

-----------------------------------------------------------------------------
(* Sparks and rows. *)

SparksTrue == \A l \in Ign : \A i \in DOMAIN pend[l] : SparkTrue(l, pend[l][i])

RowHolds ==
    row # NoRow =>
        /\ phase = "resolve" /\ row.cyl \in Ign
        /\ row.edge \in 1 .. Len(pk) - 1
        /\ pk[row.edge].at <= row.at - Late(row.cyl)
        /\ row.at - Late(row.cyl) < pk[row.edge + 1].at
        /\ row.dwell = IF row.before = None THEN None ELSE row.at - row.before

SparkInv == HistoryInv /\ SparksTrue /\ RowHolds

LEMMA SparkInvInit == Init => SparkInv
<1> SUFFICES ASSUME Init PROVE SparkInv
  OBVIOUS
<1>1. SparksTrue
  <2>1. \A l \in Ign : pend[l] = <<>>
    BY DEF Init
  <2> QED
    BY <2>1 DEF SparksTrue
<1>2. RowHolds
  BY DEF Init, RowHolds
<1> QED
  BY <1>1, <1>2, HistoryInvInit DEF SparkInv

LEMMA SparksTrueStep == SparkInv /\ [Next]_vars => SparksTrue'
<1> SUFFICES ASSUME SparkInv, [Next]_vars PROVE SparksTrue'
  OBVIOUS
<1>0. LineInv /\ SparksTrue /\ pend \in [Ign -> Seq(Spark)]
  BY DEF SparkInv, HistoryInv, LineInv, Types
<1>1. CASE pend' = pend
  BY <1>0, <1>1 DEF SparksTrue, SparkTrue, Late, Thrown
<1>2. ASSUME NEW l \in Ign, ReadSpark(l), pend' # pend
      PROVE  SparksTrue'
  <2> DEFINE s == [t |-> Corrected(l), dwell |-> DwellOf(l), at |-> Head(line[l]).at,
                   before |-> Head(line[l]).before]
  <2>1. Read(l) /\ Head(line[l]).rising /\ pend' = [pend EXCEPT ![l] = Append(@, s)]
    BY <1>2 DEF ReadSpark
  <2>2. s \in Spark /\ SparkTrue(l, s)
    BY <2>1, <1>0, NewSparkTrue
  <2> HIDE DEF s
  <2>3. \A m \in Ign : m # l => pend'[m] = pend[m]
    BY <2>1, <1>0
  <2>4. PICK n \in Nat : n = Len(pend[l]) /\ DOMAIN pend[l] = 1 .. n
    BY <1>0
  <2>5. /\ DOMAIN pend'[l] = 1 .. n + 1 /\ pend'[l][n + 1] = s
        /\ \A i \in 1 .. n : pend'[l][i] = pend[l][i]
    <3>1. pend'[l] = Append(pend[l], s) /\ pend[l] \in Seq(Spark)
      BY <2>1, <1>0
    <3> QED
      BY <3>1, <2>2, <2>4, AppendFacts
  <2>6. SUFFICES ASSUME NEW m \in Ign, NEW i \in DOMAIN pend'[m]
                 PROVE  SparkTrue(m, pend'[m][i])
    BY DEF SparksTrue, SparkTrue, Late, Thrown
  <2>7. CASE m # l \/ i \in 1 .. n
    BY <2>6, <2>7, <2>3, <2>4, <2>5, <1>0 DEF SparksTrue
  <2>8. CASE m = l /\ i = n + 1
    BY <2>8, <2>2, <2>5
  <2> QED
    BY <2>6, <2>7, <2>8, <2>4, <2>5
<1>3. ASSUME NEW l \in Ign, Resolve(l) \/ Drop(l) \/ Keep(l)
      PROVE  SparksTrue'
  <2>1. /\ pend[l] \in Seq(Spark) /\ Len(pend[l]) > 0 /\ pend' \in [Ign -> Seq(Spark)]
        /\ \A m \in Ign : m # l => pend'[m] = pend[m]
        /\ ~Keep(l) => /\ Len(pend'[l]) = Len(pend[l]) - 1
                       /\ \A i \in 1 .. Len(pend'[l]) : pend'[l][i] = pend[l][i + 1]
        /\ Keep(l) => /\ Len(pend'[l]) = Len(pend[l])
                      /\ pend'[l][Len(pend[l])] = pend[l][1]
                      /\ \A i \in 1 .. Len(pend[l]) - 1 : pend'[l][i] = pend[l][i + 1]
    BY <1>0, <1>3, LookFacts
  <2>2. PICK n \in Nat : n = Len(pend[l]) /\ n > 0 /\ DOMAIN pend[l] = 1 .. n
    BY <2>1
  <2>3. DOMAIN pend'[l] = 1 .. Len(pend'[l])
    BY <2>1
  <2>4. \A i \in DOMAIN pend'[l] : \E j \in DOMAIN pend[l] : pend'[l][i] = pend[l][j]
    <3> SUFFICES ASSUME NEW i \in DOMAIN pend'[l]
                 PROVE  \E j \in 1 .. n : pend'[l][i] = pend[l][j]
      BY <2>2
    <3>1. CASE ~Keep(l)
      <4>1. i \in 1 .. n - 1 /\ pend'[l][i] = pend[l][i + 1]
        BY <3>1, <2>1, <2>2, <2>3
      <4> QED
        BY <4>1, <2>2
    <3>2. CASE Keep(l) /\ i # n
      <4>1. i \in 1 .. n - 1 /\ pend'[l][i] = pend[l][i + 1]
        BY <3>2, <2>1, <2>2, <2>3
      <4> QED
        BY <4>1, <2>2
    <3>3. CASE Keep(l) /\ i = n
      BY <3>3, <2>1, <2>2
    <3> QED
      BY <3>1, <3>2, <3>3
  <2>5. SUFFICES ASSUME NEW m \in Ign, NEW i \in DOMAIN pend'[m]
                 PROVE  SparkTrue(m, pend'[m][i])
    BY DEF SparksTrue, SparkTrue, Late, Thrown
  <2>6. CASE m # l
    BY <2>1, <2>5, <2>6, <1>0 DEF SparksTrue
  <2>7. CASE m = l
    BY <2>4, <2>5, <2>7, <1>0 DEF SparksTrue
  <2> QED
    BY <2>6, <2>7
<1>4. CASE BeginStep
  <2>1. \A l \in Ign : pend'[l] = <<>>
    BY <1>4 DEF BeginStep
  <2> QED
    BY <2>1 DEF SparksTrue
<1>5. pend' # pend => \/ \E l \in Ign : ReadSpark(l) \/ Resolve(l) \/ Drop(l) \/ Keep(l)
                      \/ BeginStep
  BY DEF Next, Tick, Edge, Drain, NextLine, ReadPickup, ReadFall, ReadTach, NextCylinder, vars
<1> QED
  BY <1>1, <1>2, <1>3, <1>4, <1>5

LEMMA ResolveHolds ==
    ASSUME SparkInv, NEW l \in Ign, Resolve(l)
    PROVE  RowHolds'
<1> DEFINE s == Head(pend[l])
<1>0. LineInv /\ HistoryInv
  BY DEF SparkInv, HistoryInv
<1>1. /\ phase = "resolve" /\ phase' = phase /\ pk' = pk
      /\ s \in Spark /\ s = pend[l][1] /\ 1 \in DOMAIN pend[l]
  BY <1>0, LookFacts DEF wheelVars
<1>2. SparkTrue(l, s)
  BY <1>1 DEF SparkInv, SparksTrue
<1>3. PICK k \in Around(s) : TRUE
  BY DEF Resolve, Resolves
<1>4. /\ Bracket(s) = k /\ k \in DOMAIN pk /\ k + 1 \in DOMAIN pk /\ k <= Len(pk) - 1
      /\ pk[k].t <= s.t /\ s.t < pk[k + 1].t
  BY <1>0, <1>1, <1>3, BracketUnique
<1>5. /\ row'.at = s.at /\ row'.cyl = l /\ row'.dwell = s.dwell /\ row'.before = s.before
      /\ row'.edge = k
  BY <1>4 DEF Resolve
<1>6. pk[k].t = pk[k].at /\ pk[k + 1].t = pk[k + 1].at
  BY <1>4 DEF SparkInv, HistoryInv, Ordered
<1>7. k \in 1 .. Len(pk) - 1
  <2>1. pk \in Seq(PkEdge)
    BY <1>0 DEF LineInv, Types
  <2> QED
    BY <2>1, <1>4
<1> QED
  BY <1>1, <1>2, <1>4, <1>5, <1>6, <1>7 DEF RowHolds, SparkTrue, Late, Thrown

LEMMA RowHoldsStep == SparkInv /\ [Next]_vars => RowHolds'
<1> SUFFICES ASSUME SparkInv, [Next]_vars PROVE RowHolds'
  OBVIOUS
<1>1. CASE \E l \in Ign : Resolve(l)
  BY <1>1, ResolveHolds
<1>2. CASE row' = NoRow
  BY <1>2 DEF RowHolds, NoRow
<1>3. CASE row' = row /\ row # NoRow /\ UNCHANGED <<phase, pk>>
  BY <1>3 DEF SparkInv, RowHolds, Late, Thrown
<1>4. row' # NoRow => \/ \E l \in Ign : Resolve(l)
                      \/ row' = row /\ UNCHANGED <<phase, pk>>
  <2>1. row # NoRow => phase = "resolve"
    BY DEF SparkInv, RowHolds
  <2>2. CASE Tick \/ \E l \in Lines : Edge(l)
    BY <2>2 DEF Tick, Edge, batchVars, wheelVars
  <2>3. CASE Drain \/ NextLine \/ BeginStep
    BY <2>1, <2>3 DEF Drain, NextLine, BeginStep
  <2>4. CASE ReadPickup \/ ReadTach \/ \E l \in Ign : ReadFall(l) \/ ReadSpark(l)
    BY <2>1, <2>4 DEF ReadPickup, ReadTach, ReadFall, ReadSpark, Read
  <2>5. CASE NextCylinder \/ \E l \in Ign : Drop(l) \/ Keep(l)
    BY <2>5 DEF NextCylinder, Drop, Keep
  <2>6. CASE UNCHANGED vars
    BY <2>6 DEF vars, batchVars, wheelVars
  <2> QED
    BY <2>2, <2>3, <2>4, <2>5, <2>6 DEF Next
<1> QED
  BY <1>1, <1>2, <1>3, <1>4

LEMMA SparkInvAlways == Spec => []SparkInv
<1>1. SparkInv /\ [Next]_vars => SparkInv'
  BY HistoryInvStep, SparksTrueStep, RowHoldsStep DEF SparkInv
<1> QED
  BY <1>1, SparkInvInit, PTL DEF Spec

(* A row's angle comes from the two neighbouring pickup edges between      *)
(* which the coil fired, in true time and up to the constant lateness of   *)
(* its line (core1_main.cpp:238-270, skew.hpp).                            *)
THEOREM RowsAreTrue == Spec => []RowTrue
<1>1. SparkInv => RowTrue
  BY DEF SparkInv, RowHolds, RowTrue
<1> QED
  BY <1>1, SparkInvAlways, PTL

(* A dwell is the true time since the line's edge before                   *)
(* (core1_main.cpp:415-425).                                               *)
THEOREM DwellsAreTrue == Spec => []DwellTrue
<1>1. SparkInv => DwellTrue
  <2> SUFFICES ASSUME SparkInv,
                      NEW s \in ({row} \ {NoRow})
                                  \cup UNION {{pend[l][i] : i \in DOMAIN pend[l]} : l \in Ign}
               PROVE  IF s.before = None THEN s.dwell = None ELSE s.dwell = s.at - s.before
    BY DEF DwellTrue
  <2>1. CASE s = row /\ row # NoRow
    BY <2>1 DEF SparkInv, RowHolds
  <2>2. CASE \E l \in Ign : \E i \in DOMAIN pend[l] : s = pend[l][i]
    BY <2>2 DEF SparkInv, SparksTrue, SparkTrue
  <2> QED
    BY <2>1, <2>2
<1> QED
  BY <1>1, SparkInvAlways, PTL

-----------------------------------------------------------------------------
(* The tach.  Once the pickup's turn is over, its unread edges came after  *)
(* drain() was called.                                                     *)

DrainInv ==
    phase = "drain" =>
        /\ begun \in Nat /\ begun <= now
        /\ pos = Pickup /\ room > 0 =>
             \A i \in DOMAIN line[Pickup] : i > todo => line[Pickup][i].at >= begun
        /\ pos # Pickup => \A i \in DOMAIN line[Pickup] : line[Pickup][i].at >= begun

SampleInv ==
    latency # NoSample =>
        /\ phase = "drain" /\ pos = Tach
        /\ latency.tooth \in Tooth0s /\ \A k \in Tooth0s : k <= latency.tooth
        /\ pk[latency.tooth].t <= latency.t

TachInv == HistoryInv /\ DrainInv /\ SampleInv

LEMMA DrainInvStep == LineInv /\ DrainInv /\ [Next]_vars => DrainInv'
<1> SUFFICES ASSUME LineInv, DrainInv, [Next]_vars PROVE DrainInv'
  OBVIOUS
<1>0. /\ Pickup \in Lines /\ line[Pickup] \in Seq(Word) /\ now \in Nat /\ todo \in Nat
      /\ room \in 0 .. BatchCap /\ pos \in Lines /\ \A l \in Lines : line[l] \in Seq(Word)
  BY LineFacts DEF LineInv, Types
<1>1. PICK n \in Nat : n = Len(line[Pickup]) /\ DOMAIN line[Pickup] = 1 .. n
  BY <1>0
<1>2. CASE Tick
  <2>1. now' = now + 1 /\ UNCHANGED <<line, phase, pos, todo, room, begun>>
    BY <1>2 DEF Tick, lineVars, batchVars
  <2> QED
    BY <2>1, <1>0 DEF DrainInv
<1>3. ASSUME NEW l \in Lines, Edge(l)
      PROVE  DrainInv'
  <2>1. UNCHANGED <<now, phase, pos, todo, room, begun>>
    BY <1>3 DEF Edge, batchVars
  <2>2. CASE l # Pickup
    <3>1. line'[Pickup] = line[Pickup]
      BY <1>0, <1>3, <2>2, EdgeLines
    <3> QED
      BY <2>1, <3>1 DEF DrainInv
  <2>3. CASE l = Pickup
    <3>1. PICK e \in Word : line' = [line EXCEPT ![l] = Append(@, e)] /\ e.at = now
      BY <1>3, EdgeAppends
    <3>2. /\ DOMAIN line'[Pickup] = 1 .. n + 1 /\ line'[Pickup][n + 1] = e
          /\ \A i \in 1 .. n : line'[Pickup][i] = line[Pickup][i]
      <4>1. line'[Pickup] = Append(line[Pickup], e)
        BY <3>1, <2>3, <1>0 DEF LineInv, Types
      <4> QED
        BY <4>1, <1>0, <1>1, AppendFacts
    <3>3. \A i \in DOMAIN line'[Pickup] : i \in DOMAIN line[Pickup] \/ i = n + 1
      BY <3>2, <1>1
    <3>4. phase = "drain" => line'[Pickup][n + 1].at >= begun
      BY <3>1, <3>2 DEF DrainInv
    <3> QED
      BY <2>1, <3>2, <3>3, <3>4, <1>1 DEF DrainInv
  <2> QED
    BY <2>2, <2>3
<1>4. CASE Drain
  <2>1. Turn(Pickup, BatchCap) /\ begun' = now /\ UNCHANGED <<now, line>>
    BY <1>4 DEF Drain, lineVars
  <2>2. pos' = Pickup /\ (room' > 0 => todo' = Len(line[Pickup]))
    <3>1. BatchCap \in 0 .. BatchCap
      BY ConstantFacts
    <3> QED
      BY <3>1, <2>1, <1>0, TurnFacts
  <2>3. \A i \in DOMAIN line[Pickup] : ~(i > Len(line[Pickup]))
    BY <1>1
  <2> QED
    BY <2>1, <2>2, <2>3, <1>0 DEF DrainInv
<1>5. CASE NextLine
  <2>1. phase = "drain" /\ todo = 0 /\ UNCHANGED <<now, line>>
    BY <1>5 DEF NextLine, lineVars
  <2>2. CASE phase' # "drain"
    BY <2>2 DEF DrainInv
  <2>3. CASE phase' = "drain"
    <3>1. pos < Tach /\ room > 0 /\ Turn(pos + 1, room) /\ begun' = begun
      BY <1>5, <2>3 DEF NextLine
    <3>2. pos' = pos + 1 /\ pos' # Pickup
      BY <3>1, <1>0, LineFacts DEF Turn, Pickup
    <3>3. \A i \in DOMAIN line[Pickup] : i > todo
      BY <1>1, <2>1
    <3>4. \A i \in DOMAIN line[Pickup] : line[Pickup][i].at >= begun
      BY <2>1, <3>1, <3>3 DEF DrainInv
    <3> QED
      BY <2>1, <3>1, <3>2, <3>4 DEF DrainInv
  <2> QED
    BY <2>2, <2>3
<1>6. ASSUME NEW l \in Lines, Read(l)
      PROVE  DrainInv'
  <2>1. /\ phase = "drain" /\ pos = l /\ UNCHANGED <<now, phase, pos, room, begun>>
        /\ todo' = todo - 1
    BY <1>6 DEF Read
  <2>2. CASE l # Pickup
    <3>1. line'[Pickup] = line[Pickup]
      BY <1>0, <1>6, <2>2, ReadLines
    <3> QED
      BY <2>1, <2>2, <3>1 DEF DrainInv
  <2>3. CASE l = Pickup
    <3>1. \A i \in DOMAIN line'[Pickup] :
            i \in Nat /\ i + 1 \in DOMAIN line[Pickup] /\ line'[Pickup][i] = line[Pickup][i + 1]
      <4>1. line'[Pickup] \in Seq(Word)
        BY <1>0, <1>6, ReadLines
      <4> QED
        BY <4>1, <1>6, <2>3, ReadLines
    <3>2. \A i \in DOMAIN line'[Pickup] : i > todo' => i + 1 > todo
      BY <3>1, <2>1, <1>0
    <3> QED
      BY <2>1, <2>3, <3>1, <3>2 DEF DrainInv
  <2> QED
    BY <2>2, <2>3
<1>7. CASE ReadPickup \/ ReadTach \/ \E l \in Ign : ReadFall(l) \/ ReadSpark(l)
  <2>1. \E l \in Lines : Read(l)
    BY <1>7, LineFacts DEF ReadPickup, ReadTach, ReadFall, ReadSpark
  <2> QED
    BY <2>1, <1>6
<1>8. CASE BeginStep \/ NextCylinder \/ \E l \in Ign : Resolve(l) \/ Drop(l) \/ Keep(l)
  <2>1. phase' # "drain"
    BY <1>8 DEF BeginStep, NextCylinder, Resolve, Drop, Keep, LookAt, batchVars
  <2> QED
    BY <2>1 DEF DrainInv
<1>9. CASE UNCHANGED vars
  BY <1>9 DEF DrainInv, vars, lineVars, batchVars
<1> QED
  BY <1>2, <1>3, <1>4, <1>5, <1>7, <1>8, <1>9 DEF Next

LEMMA SampleInvStep == HistoryInv /\ SampleInv /\ [Next]_vars => SampleInv'
<1> SUFFICES ASSUME HistoryInv, SampleInv, [Next]_vars PROVE SampleInv'
  OBVIOUS
<1>1. CASE ReadTach
  <2>1. phase' = "drain" /\ pos' = Tach /\ pk' = pk
    BY <1>1 DEF ReadTach, Read, wheelVars
  <2>2. CASE latency' = NoSample
    BY <2>2 DEF SampleInv, NoSample
  <2>3. CASE latency' # NoSample
    <3>1. Pairs /\ latency'.t = Corrected(Tach) /\ latency'.tooth = LastTooth0
      <4>1. /\ Pairs
            /\ latency' = [at |-> Head(line[Tach]).at, t |-> Corrected(Tach), tooth |-> LastTooth0]
        BY <1>1, <2>3 DEF ReadTach
      <4> QED
        BY <4>1
    <3>2. PICK k \in Tooth0s : \A j \in Tooth0s : j <= k
      BY <3>1 DEF Pairs, HistoryInv, HasLastTooth0
    <3>3. \A j \in Tooth0s : j \in Nat
      <4>1. pk \in Seq(PkEdge)
        BY DEF HistoryInv, LineInv, Types
      <4> QED
        BY <4>1 DEF Tooth0s
    <3>4. LastTooth0 \in Tooth0s /\ \A j \in Tooth0s : j <= LastTooth0
      <4>1. \A j \in Tooth0s : k >= j
        BY <3>2, <3>3
      <4>2. LastTooth0 \in Tooth0s /\ \A j \in Tooth0s : LastTooth0 >= j
        BY <3>2, <4>1 DEF LastTooth0, Max
      <4> QED
        BY <4>2, <3>3
    <3>5. pk[LastTooth0].t <= Corrected(Tach)
      <4>1. pk[LastTooth0] \in PkEdge
        <5>1. pk \in Seq(PkEdge)
          BY DEF HistoryInv, LineInv, Types
        <5> QED
          BY <5>1, <3>4 DEF Tooth0s
      <4>2. Corrected(Tach) \in Nat
        BY <1>1, LineFacts, ReadCommon DEF ReadTach, HistoryInv
      <4> QED
        BY <3>1, <4>1, <4>2 DEF Pairs, PkEdge
    <3> QED
      BY <2>1, <3>1, <3>4, <3>5 DEF SampleInv, Tooth0s
  <2> QED
    BY <2>2, <2>3
<1>2. CASE latency' = NoSample
  BY <1>2 DEF SampleInv, NoSample
<1>3. CASE latency = NoSample /\ ~ReadTach
  <2>1. latency' = latency \/ latency' = NoSample
    BY <1>3 DEF Next, Tick, Edge, Drain, NextLine, ReadPickup, ReadFall, ReadSpark, Resolve,
                Drop, Keep, LookAt, NextCylinder, BeginStep, vars
  <2> QED
    BY <2>1, <1>2, <1>3
<1>4. CASE latency # NoSample /\ ~ReadTach /\ latency' # NoSample
  <2>1. phase = "drain" /\ pos = Tach /\ Tach # Pickup
    BY <1>4, LineFacts DEF SampleInv
  <2>2. latency' = latency /\ UNCHANGED <<phase, pos, pk>>
    <3>1. CASE Tick \/ \E l \in Lines : Edge(l)
      BY <3>1 DEF Tick, Edge, batchVars, wheelVars
    <3>2. CASE \E l \in Ign : ReadFall(l) \/ ReadSpark(l)
      BY <3>2 DEF ReadFall, ReadSpark, Read, wheelVars
    <3>3. CASE UNCHANGED vars
      BY <3>3 DEF vars, batchVars, wheelVars
    <3>4. ~Drain /\ ~NextCylinder /\ ~BeginStep /\ ~(\E l \in Ign : Resolve(l) \/ Drop(l) \/ Keep(l))
      BY <2>1 DEF Drain, NextCylinder, BeginStep, Resolve, Drop, Keep, LookAt
    <3>5. ~ReadPickup /\ ~NextLine
      BY <2>1, <1>4 DEF ReadPickup, Read, NextLine
    <3> QED
      BY <3>1, <3>2, <3>3, <3>4, <3>5, <1>4 DEF Next
  <2> QED
    BY <2>2 DEF SampleInv, Tooth0s
<1> QED
  BY <1>1, <1>2, <1>3, <1>4

LEMMA TachInvAlways == Spec => []TachInv
<1>1. Init => TachInv
  <2>1. Init => DrainInv /\ SampleInv
    BY DEF Init, DrainInv, SampleInv
  <2> QED
    BY <2>1, HistoryInvInit DEF TachInv
<1>2. TachInv /\ [Next]_vars => TachInv'
  <2>1. HistoryInv => LineInv
    BY DEF HistoryInv
  <2> QED
    BY <2>1, HistoryInvStep, DrainInvStep, SampleInvStep DEF TachInv
<1> QED
  BY <1>1, <1>2, PTL DEF Spec

(* A latency sample is taken against the last tooth 0 that was reduced, it *)
(* is never negative, and a tooth 0 it missed came after the drain had     *)
(* begun (core1_main.cpp:333-358).                                         *)
THEOREM TachIsPaired == Spec => []TachPaired
<1>1. TachInv => TachPaired
  <2> SUFFICES ASSUME TachInv, latency # NoSample
               PROVE  /\ pk[latency.tooth].t <= latency.t
                      /\ \A k \in Tooth0s : k # latency.tooth => pk[k].t < pk[latency.tooth].t
                      /\ \A i \in DOMAIN line[Pickup] : line[Pickup][i].at >= begun
    BY DEF TachPaired
  <2>1. /\ phase = "drain" /\ pos = Tach
        /\ latency.tooth \in Tooth0s /\ \A k \in Tooth0s : k <= latency.tooth
        /\ pk[latency.tooth].t <= latency.t
    BY DEF TachInv, SampleInv
  <2>2. \A i \in DOMAIN line[Pickup] : line[Pickup][i].at >= begun
    BY <2>1, LineFacts DEF TachInv, DrainInv
  <2>3. \A k \in Tooth0s : k # latency.tooth => pk[k].t < pk[latency.tooth].t
    <3>1. pk \in Seq(PkEdge)
      BY DEF TachInv, HistoryInv, LineInv, Types
    <3>2. \A k \in Tooth0s : k \in Nat /\ k \in DOMAIN pk
      BY <3>1 DEF Tooth0s
    <3>3. \A k \in Tooth0s : k # latency.tooth => k < latency.tooth
      BY <2>1, <3>2
    <3> QED
      BY <2>1, <3>2, <3>3 DEF TachInv, HistoryInv, Ordered
  <2> QED
    BY <2>1, <2>2, <2>3
<1> QED
  BY <1>1, TachInvAlways, PTL

-----------------------------------------------------------------------------
(* The queues.  A spark that was looked at and stays neither resolves nor  *)
(* is too old, and both depend on the history alone.                       *)

Stays(s) == ~Resolves(s) /\ ~AgedOut(s)

QueueInv ==
    /\ phase = "idle" \/ (phase = "drain" /\ room = BatchCap) =>
         \A l \in Ign : \A i \in DOMAIN pend[l] : Stays(pend[l][i])
    /\ phase = "resolve" =>
         /\ \A l \in Ign : l < pos => \A i \in DOMAIN pend[l] : Stays(pend[l][i])
         /\ \A i \in DOMAIN pend[pos] : i > todo => Stays(pend[pos][i])

LEMMA StaysStays ==
    ASSUME pk' = pk
    PROVE  \A s : Stays(s)' <=> Stays(s)
BY Zenon DEF Stays, Resolves, AgedOut, Around, Bracket, HasAngle, Oldest

LEMMA QueueInvLook ==
    ASSUME LineInv, QueueInv, NEW l \in Ign, Resolve(l) \/ Drop(l) \/ Keep(l)
    PROVE  QueueInv'
<1>1. /\ phase = "resolve" /\ pos = l /\ todo > 0 /\ todo' = todo - 1
      /\ phase' = phase /\ pos' = pos /\ pk' = pk
      /\ pend[l] \in Seq(Spark) /\ Len(pend[l]) > 0 /\ pend' \in [Ign -> Seq(Spark)]
      /\ \A m \in Ign : m # l => pend'[m] = pend[m]
      /\ ~Keep(l) => /\ Len(pend'[l]) = Len(pend[l]) - 1
                     /\ \A i \in 1 .. Len(pend'[l]) : pend'[l][i] = pend[l][i + 1]
      /\ Keep(l) => /\ Len(pend'[l]) = Len(pend[l])
                    /\ pend'[l][Len(pend[l])] = pend[l][1]
                    /\ \A i \in 1 .. Len(pend[l]) - 1 : pend'[l][i] = pend[l][i + 1]
  BY LookFacts DEF wheelVars
<1>2. PICK n \in Nat : n = Len(pend[l]) /\ n > 0 /\ DOMAIN pend[l] = 1 .. n
  BY <1>1
<1>3. DOMAIN pend'[l] = 1 .. Len(pend'[l]) /\ todo \in Nat
  BY <1>1 DEF LineInv, Types
<1>4. \A i \in DOMAIN pend[l] : i > todo => Stays(pend[l][i])
  BY <1>1 DEF QueueInv
<1>5. \A m \in Ign : m < l => \A i \in DOMAIN pend'[m] : Stays(pend'[m][i])
  <2> SUFFICES ASSUME NEW m \in Ign, m < l PROVE \A i \in DOMAIN pend'[m] : Stays(pend'[m][i])
    OBVIOUS
  <2>1. m # l
    BY LineFacts
  <2>2. pend'[m] = pend[m]
    BY <1>1, <2>1
  <2> QED
    BY <1>1, <2>2 DEF QueueInv
<1>6. \A i \in DOMAIN pend'[l] : i > todo - 1 => Stays(pend'[l][i])
  <2> SUFFICES ASSUME NEW i \in DOMAIN pend'[l], i > todo - 1 PROVE Stays(pend'[l][i])
    OBVIOUS
  <2>1. CASE i \in 1 .. n - 1
    <3>1. pend'[l][i] = pend[l][i + 1]
      BY <1>1, <1>2, <1>3, <2>1
    <3>2. i + 1 \in DOMAIN pend[l] /\ i + 1 > todo
      BY <1>2, <1>3, <2>1
    <3> QED
      BY <3>1, <3>2, <1>4
  <2>2. CASE i = n /\ Keep(l)
    <3>1. pend'[l][i] = Head(pend[l])
      BY <1>1, <1>2, <2>2, TailFacts
    <3>2. Stays(Head(pend[l]))
      BY <2>2 DEF Keep, Stays
    <3> QED
      BY <3>1, <3>2
  <2> QED
    BY <2>1, <2>2, <1>1, <1>2, <1>3
<1>7. \A s : Stays(s)' <=> Stays(s)
  BY <1>1, StaysStays
<1> QED
  BY <1>1, <1>5, <1>6, <1>7 DEF QueueInv

(* A share of the room that is as large as a batch leaves the rest nothing. *)
LEMMA WholeRoom ==
  ASSUME NEW cap \in Nat, NEW left \in 0 .. cap, NEW had \in 0 .. cap, NEW taken \in Nat,
         left + taken = had
  PROVE left = cap => had = cap
OBVIOUS

LEMMA QueueInvStep == LineInv /\ QueueInv /\ [Next]_vars => QueueInv'
<1> SUFFICES ASSUME LineInv, QueueInv, [Next]_vars PROVE QueueInv'
  OBVIOUS
<1>0. /\ room \in 0 .. BatchCap /\ pos \in Lines /\ todo \in Nat
      /\ pend \in [Ign -> Seq(Spark)] /\ \A l \in Lines : line[l] \in Seq(Word)
  BY DEF LineInv, Types
<1>1. CASE Tick \/ (\E l \in Lines : Edge(l)) \/ UNCHANGED vars
  <2>1. pk' = pk /\ UNCHANGED <<phase, pos, todo, room, pend>>
    BY <1>1 DEF Tick, Edge, vars, batchVars, wheelVars
  <2>2. \A s : Stays(s)' <=> Stays(s)
    BY <2>1, StaysStays
  <2> QED
    BY <2>1, <2>2 DEF QueueInv
<1>2. CASE Drain
  <2>1. phase = "idle" /\ phase' = "drain" /\ pk' = pk /\ pend' = pend
    BY <1>2 DEF Drain, wheelVars
  <2>2. \A s : Stays(s)' <=> Stays(s)
    BY <2>1, StaysStays
  <2> QED
    BY <2>1, <2>2 DEF QueueInv
<1>3. CASE NextLine
  <2>1. phase = "drain" /\ todo = 0 /\ pk' = pk /\ pend' = pend
    BY <1>3 DEF NextLine, wheelVars
  <2>2. \A s : Stays(s)' <=> Stays(s)
    BY <2>1, StaysStays
  <2>3. CASE pos < Tach /\ room > 0
    <3>1. phase' = "drain" /\ Turn(pos + 1, room)
      BY <1>3, <2>1, <2>3 DEF NextLine
    <3>2. pos + 1 \in Lines
      BY <1>0, <2>3, ConstantFacts DEF Lines, Tach
    <3>3. room' + todo' = room /\ todo' \in Nat /\ room' \in 0 .. BatchCap
      BY <3>1, <3>2, <1>0, TurnFacts
    <3>4. room' = BatchCap => room = BatchCap
      <4>1. room \in 0 .. BatchCap /\ BatchCap \in Nat
        BY <1>0, ConstantFacts
      <4> QED
        BY <3>3, <4>1, WholeRoom
    <3> QED
      BY <2>1, <2>2, <3>1, <3>4 DEF QueueInv
  <2>4. CASE ~(pos < Tach /\ room > 0) /\ room = BatchCap
    <3>1. phase' = "idle"
      BY <1>3, <2>4 DEF NextLine
    <3> QED
      BY <2>1, <2>2, <2>4, <3>1 DEF QueueInv
  <2>5. CASE ~(pos < Tach /\ room > 0) /\ room # BatchCap
    <3>1. phase' = "resolve" /\ pos' = 1 /\ todo' = Len(pend[1])
      BY <1>3, <2>5 DEF NextLine
    <3>2. \A l \in Ign : ~(l < 1)
      BY ConstantFacts DEF Ign
    <3>3. \A i \in DOMAIN pend[1] : ~(i > Len(pend[1]))
      <4>1. pend[1] \in Seq(Spark)
        BY <1>0, LineFacts
      <4> QED
        BY <4>1
    <3> QED
      BY <2>1, <3>1, <3>2, <3>3 DEF QueueInv
  <2> QED
    BY <2>3, <2>4, <2>5
<1>4. CASE ReadPickup \/ ReadTach \/ \E l \in Ign : ReadFall(l) \/ ReadSpark(l)
  <2>1. PICK l \in Lines : Read(l)
    BY <1>4, LineFacts DEF ReadPickup, ReadTach, ReadFall, ReadSpark
  <2>2. phase' = "drain" /\ room' = room /\ room < BatchCap
    BY <2>1, ReadCommon DEF Read
  <2>3. room' # BatchCap
    BY <2>2, <1>0, ConstantFacts
  <2> QED
    BY <2>2, <2>3 DEF QueueInv
<1>5. CASE \E l \in Ign : Resolve(l) \/ Drop(l) \/ Keep(l)
  BY <1>5, QueueInvLook
<1>6. CASE NextCylinder
  <2>1. phase = "resolve" /\ todo = 0 /\ pk' = pk /\ pend' = pend
    BY <1>6 DEF NextCylinder, wheelVars
  <2>2. \A s : Stays(s)' <=> Stays(s)
    BY <2>1, StaysStays
  <2>3. pos \in Ign
    BY <2>1 DEF LineInv, Turns
  <2>4. \A i \in DOMAIN pend[pos] : i > todo
    <3>1. pend[pos] \in Seq(Spark)
      BY <2>3, <1>0
    <3> QED
      BY <3>1, <2>1
  <2>5. \A l \in Ign : l <= pos => \A i \in DOMAIN pend[l] : Stays(pend[l][i])
    <3> SUFFICES ASSUME NEW l \in Ign, l <= pos PROVE \A i \in DOMAIN pend[l] : Stays(pend[l][i])
      OBVIOUS
    <3>1. l < pos \/ l = pos
      BY <2>3, LineFacts
    <3>2. CASE l < pos
      BY <2>1, <3>2 DEF QueueInv
    <3>3. CASE l = pos
      BY <2>1, <2>4, <3>3 DEF QueueInv
    <3> QED
      BY <3>1, <3>2, <3>3
  <2>6. CASE pos < CylCount
    <3>1. phase' = "resolve" /\ pos' = pos + 1 /\ todo' = Len(pend[pos + 1])
      BY <1>6, <2>1, <2>6 DEF NextCylinder
    <3>2. pos + 1 \in Ign
      BY <2>3, <2>6, ConstantFacts DEF Ign
    <3>3. \A i \in DOMAIN pend[pos + 1] : ~(i > Len(pend[pos + 1]))
      <4>1. pend[pos + 1] \in Seq(Spark)
        BY <1>0, <3>2
      <4> QED
        BY <4>1
    <3>4. \A l \in Ign : l < pos + 1 => l <= pos
      BY <2>3, LineFacts
    <3> QED
      BY <2>1, <2>2, <2>5, <3>1, <3>3, <3>4 DEF QueueInv
  <2>7. CASE ~(pos < CylCount)
    <3>1. phase' = "idle"
      BY <1>6, <2>7 DEF NextCylinder
    <3>2. \A l \in Ign : l <= pos
      BY <2>3, <2>7, ConstantFacts DEF Ign
    <3> QED
      BY <2>1, <2>2, <2>5, <3>1, <3>2 DEF QueueInv
  <2> QED
    BY <2>6, <2>7
<1>7. CASE BeginStep
  <2>1. phase' = "idle" /\ \A l \in Ign : pend'[l] = <<>>
    BY <1>7 DEF BeginStep, batchVars
  <2> QED
    BY <2>1 DEF QueueInv
<1> QED
  BY <1>1, <1>2, <1>3, <1>4, <1>5, <1>6, <1>7 DEF Next

(* Between batches, what still waits in a queue waits for an edge to come, *)
(* or lies in the window beside an edge without an angle and so ages out:  *)
(* the queue never wedges (core1_main.cpp:286-287).                        *)
THEOREM QueuesMove == Spec => []QueueMoves
<1>1. Init => QueueInv
  <2> SUFFICES ASSUME Init PROVE QueueInv
    OBVIOUS
  <2>1. phase = "idle" /\ \A l \in Ign : pend[l] = <<>>
    BY DEF Init
  <2> QED
    BY <2>1 DEF QueueInv
<1>2. LineInv /\ QueueInv /\ [Next]_vars => QueueInv'
  BY QueueInvStep
<1>3. HistoryInv /\ QueueInv => QueueMoves
  <2> SUFFICES ASSUME HistoryInv, QueueInv, phase = "idle", NEW l \in Ign, NEW i \in DOMAIN pend[l]
                 PROVE  \/ Len(pk) < 2 \/ pend[l][i].t >= pk[Len(pk)].t
                        \/ \E k \in Oldest .. Len(pk) - 1 :
                             pk[k].t <= pend[l][i].t /\ pend[l][i].t < pk[k + 1].t /\ ~HasAngle(k)
    BY DEF QueueMoves
  <2> DEFINE s == pend[l][i]
  <2>1. s \in Spark /\ s.t \in Nat
    <3>1. pend[l] \in Seq(Spark)
      BY DEF HistoryInv, LineInv, Types
    <3>2. s \in Spark
      BY <3>1
    <3> QED
      BY <3>2 DEF Spark
  <2>2. ~Resolves(s) /\ ~AgedOut(s)
    BY DEF QueueInv, Stays
  <2> SUFFICES ASSUME ~(Len(pk) < 2), ~(s.t >= pk[Len(pk)].t)
               PROVE  \E k \in Oldest .. Len(pk) - 1 :
                          pk[k].t <= s.t /\ s.t < pk[k + 1].t /\ ~HasAngle(k)
    OBVIOUS
  <2>3. PICK k \in Oldest .. Len(pk) - 1 : pk[k].t <= s.t /\ s.t < pk[k + 1].t
    <3>1. ~(s.t < pk[Oldest].t)
      BY <2>2 DEF AgedOut
    <3> QED
      BY <2>1, <3>1 DEF HistoryInv, Covered
  <2>4. k \in Around(s)
    BY <2>3 DEF Around
  <2>5. ~HasAngle(k)
    <3>1. Bracket(s) = k
      BY <2>1, <2>4, BracketUnique
    <3> QED
      BY <2>2, <2>4, <3>1 DEF Resolves
  <2> QED
    BY <2>3, <2>5
<1>4. Init => HistoryInv
  BY HistoryInvInit
<1>5. HistoryInv /\ [Next]_vars => HistoryInv'
  BY HistoryInvStep
<1>6. HistoryInv => LineInv
  BY DEF HistoryInv
<1> QED
  BY <1>1, <1>2, <1>3, <1>4, <1>5, <1>6, PTL DEF Spec
=============================================================================
