--------------------------- MODULE CaptureProofs ---------------------------
(***************************************************************************)
(* Theorems about Capture, for every number of lines, counter width, ring  *)
(* and buffer size.  ChainInv says that on each line the word decoded      *)
(* last, the unread words and the last edge follow one another in time,    *)
(* on a live line by less than one period of the counter.                  *)
(***************************************************************************)
EXTENDS Capture, TLAPS

(* Two times less than a period apart: the counter field goes backwards    *)
(* exactly when a multiple of the period lies between them.                *)
LEMMA OneWrap ==
    ASSUME NEW W \in Nat \ {0}, NEW a \in Nat, NEW b \in Nat, a < b, b - a < W
    PROVE  b - a = (b % W) - (a % W) + W * (IF b % W < a % W THEN 1 ELSE 0)
<1> DEFINE qa == a \div W   ra == a % W   qb == b \div W   rb == b % W
<1>1. /\ qa \in Int /\ qb \in Int /\ ra \in 0 .. W - 1 /\ rb \in 0 .. W - 1
      /\ a = W * qa + ra /\ b = W * qb + rb
  OBVIOUS
<1> HIDE DEF qa, ra, qb, rb
<1>2. b - a = W * (qb - qa) + (rb - ra)
  BY <1>1, SMT
<1> DEFINE d == qb - qa
<1>3. d \in Int /\ b - a = W * d + (rb - ra)
  BY <1>1, <1>2
<1> HIDE DEF d
<1>4. d >= 2 => W * d >= 2 * W
  BY <1>3, SMT
<1>5. d <= -1 => W * d <= -W
  BY <1>3, SMT
<1>6. d \in {0, 1}
  BY <1>1, <1>3, <1>4, <1>5, SMT
<1>7. rb < ra => d = 1
  BY <1>1, <1>3, <1>6, SMT
<1>8. rb >= ra => d = 0
  <2>1. d = 1 /\ rb >= ra => b - a >= W
    BY <1>1, <1>3, SMT
  <2> QED
    BY <2>1, <1>6, SMT
<1>9. b - a = rb - ra + W * (IF rb < ra THEN 1 ELSE 0)
  BY <1>1, <1>3, <1>6, <1>7, <1>8, SMT
<1> QED
  BY <1>9 DEF ra, rb

(* update() keeps the types of a line's decode state. *)
LEMMA UpdateType ==
    ASSUME NEW b \in [has_prev : BOOLEAN, prev : 0 .. Wrap - 1, high : Nat], NEW w \in Words
    PROVE  Update(b, w) \in [has_prev : BOOLEAN, prev : 0 .. Wrap - 1, high : Nat]
<1>1. w.ts \in 0 .. Wrap - 1 /\ b.high \in Nat
  BY DEF Words
<1> DEFINE carry == IF b.has_prev /\ w.ts < b.prev THEN 1 ELSE 0
           high == b.high + carry
<1>2. carry \in {0, 1}
  BY Zenon
<1>3. Update(b, w) = [has_prev |-> TRUE, prev |-> w.ts, high |-> high]
  BY Zenon DEF Update
<1> HIDE DEF carry
<1>4. high \in Nat
  BY <1>1, <1>2
<1> HIDE DEF high
<1> QED
  BY <1>1, <1>3, <1>4

-----------------------------------------------------------------------------
(* No buffer is overrun: drain() never writes more events than its caller  *)
(* has room for, and never reads a word that is not there.                 *)
THEOREM TypeCorrect == Spec => []TypeOK
<1> USE SizesAssumption
<1>1. Init => TypeOK
  <2> SUFFICES ASSUME Init PROVE TypeOK
    OBVIOUS
  <2>1. running \in BOOLEAN /\ level \in [Slots -> BOOLEAN]
    BY Zenon DEF Init
  <2>2. tb \in [Slots -> [has_prev : BOOLEAN, prev : 0 .. Wrap - 1, high : Nat]]
    <3>1. Fresh \in [has_prev : BOOLEAN, prev : 0 .. Wrap - 1, high : Nat]
      BY DEF Fresh
    <3> QED
      BY <3>1, Zenon DEF Init
  <2>3. /\ ring \in [Slots -> Seq(Words)]
        /\ \A s \in Slots : Len(ring[s]) = 0
    BY DEF Init
  <2> QED
    BY <2>1, <2>2, <2>3 DEF Init, TypeOK, Slots, None
<1>2. TypeOK /\ [Next]_vars => TypeOK'
  <2> SUFFICES ASSUME TypeOK, [Next]_vars PROVE TypeOK'
    OBVIOUS
  <2> USE DEF TypeOK, Slots, None
  <2>0. \A k \in Nat : k % Wrap \in 0 .. Wrap - 1
    OBVIOUS
  <2>1. CASE Start
    <3>1. /\ running' \in BOOLEAN /\ level' \in [Slots -> BOOLEAN]
      BY <2>1, Zenon DEF Start
    <3>2. ring' \in [Slots -> Seq(Words)] /\ \A s \in Slots : Len(ring'[s]) < RingLen
      <4> DEFINE w == [ts |-> 0, rising |-> TRUE, at |-> 0]
      <4>1. w \in Words
        BY DEF Words
      <4>2. ring' = [s \in Slots |-> IF level'[s] THEN <<w>> ELSE <<>>]
        BY <2>1, Zenon DEF Start
      <4> HIDE DEF w
      <4> QED
        BY <4>1, <4>2
    <3>3. /\ pos = NSlots /\ pos' = pos /\ n' = n /\ todo' = todo /\ begun' = begun
          /\ tb' = tb /\ runs' \in 0 .. Runs /\ clock' = 0
          /\ last' \in [Slots -> 0 .. Horizon] /\ seen' \in [Slots -> {None} \union (0 .. Horizon)]
      <4>1. UNCHANGED drainVars /\ tb' = tb /\ pos \notin Slots
        BY <2>1, Zenon DEF Start
      <4>2. runs' \in 0 .. Runs /\ clock' = 0
        BY <2>1 DEF Start
      <4>3. /\ last' \in [Slots -> 0 .. Horizon]
            /\ seen' \in [Slots -> {None} \union (0 .. Horizon)]
        BY <2>1 DEF Start
      <4> QED
        BY <4>1, <4>2, <4>3 DEF drainVars
    <3>4. pos' \notin Slots /\ clock' \in 0 .. Horizon
      BY <3>3
    <3>5. /\ pos' \in 0 .. NSlots /\ todo' \in Nat /\ n' \in 0 .. MaxBatch /\ begun' \in 0 .. Horizon
          /\ tb' \in [Slots -> [has_prev : BOOLEAN, prev : 0 .. Wrap - 1, high : Nat]]
      BY <3>3, Zenon
    <3> QED
      BY <3>1, <3>2, <3>3, <3>4, <3>5, Zenon
  <2>2. CASE Stop
    <3>1. running' \in BOOLEAN
      BY <2>2, Zenon DEF Stop
    <3>2. /\ pos' = pos /\ pos' \notin Slots
          /\ UNCHANGED <<runs, level, last, clock, ring, tb, seen, todo, n, begun>>
      BY <2>2 DEF Stop, drainVars
    <3> QED
      BY <3>1, <3>2, Zenon
  <2>3. CASE Tick
    <3>1. clock' = clock + 1 /\ clock < Horizon
      BY <2>3, Zenon DEF Tick
    <3>2. UNCHANGED <<running, runs, level, last, ring, tb, seen, pos, todo, n, begun>>
      BY <2>3, Zenon DEF Tick, hwVars, drainVars
    <3>3. clock' \in 0 .. Horizon
      BY <3>1
    <3> QED
      BY <3>2, <3>3, Zenon
  <2>4. ASSUME NEW s \in Slots, Edge(s) PROVE TypeOK'
    <3>1. level' \in [Slots -> BOOLEAN]
      <4>1. (~level[s]) \in BOOLEAN
        OBVIOUS
      <4> QED
        BY <2>4, <4>1, Zenon DEF Edge
    <3>2. Word(~level[s]) \in Words
      BY <2>0, <2>4 DEF Edge, Word, Words
    <3>3. /\ ring' \in [Slots -> Seq(Words)]
          /\ \A t \in Slots : Len(ring'[t]) < RingLen /\ Len(ring[t]) <= Len(ring'[t])
      <4> DEFINE w == Word(~level[s])
      <4> HIDE DEF w
      <4>1. w \in Words /\ ring' = [ring EXCEPT ![s] = Append(@, w)]
        BY <2>4, <3>2 DEF Edge, w
      <4> QED
        BY <2>4, <4>1, SMTT(30) DEF Edge
    <3> QED
      BY <2>4, <3>1, <3>3, SMTT(30) DEF Edge, drainVars
  <2>5. CASE Drain
    BY <2>5, SMTT(30) DEF Drain, hwVars
  <2>6. CASE Decode
    <3> DEFINE w == Head(ring[pos])
    <3>1. /\ pos \in Slots /\ w \in Words /\ Len(ring[pos]) > 0
      BY <2>6, SMTT(30) DEF Decode
    <3>2. Update(tb[pos], w) \in [has_prev : BOOLEAN, prev : 0 .. Wrap - 1, high : Nat]
      BY <3>1, UpdateType
    <3>3. tb' \in [Slots -> [has_prev : BOOLEAN, prev : 0 .. Wrap - 1, high : Nat]]
      BY <2>6, <3>1, <3>2 DEF Decode
    <3>4. seen' \in [Slots -> {None} \union (0 .. Horizon)]
      <4>1. w.at \in 0 .. Horizon
        BY <3>1 DEF Words
      <4> QED
        BY <2>6, <3>1, <4>1 DEF Decode
    <3>5. /\ ring' \in [Slots -> Seq(Words)]
          /\ \A t \in Slots : Len(ring'[t]) < RingLen
          /\ Len(ring'[pos]) = Len(ring[pos]) - 1
      <4>1. Tail(ring[pos]) \in Seq(Words) /\ Len(Tail(ring[pos])) = Len(ring[pos]) - 1
        BY <3>1
      <4> QED
        BY <2>6, <3>1, <4>1, SMTT(30) DEF Decode
    <3> QED
      <4>1. n' \in 0 .. MaxBatch /\ todo' \in Nat /\ todo' <= Len(ring'[pos]) /\ pos' = pos
        BY <2>6, <3>1, <3>5 DEF Decode
      <4>2. /\ running' = running /\ level' = level /\ runs' = runs /\ last' = last
            /\ clock' = clock /\ begun' = begun
        BY <2>6, Zenon DEF Decode, hwVars
      <4> QED
        BY <3>1, <3>3, <3>4, <3>5, <4>1, <4>2
  <2>7. CASE NextSlot
    <3>1. /\ running' = running /\ level' = level /\ runs' = runs /\ last' = last
          /\ clock' = clock /\ begun' = begun /\ n' = n /\ tb' = tb /\ seen' = seen /\ ring' = ring
      BY <2>7, Zenon DEF NextSlot, hwVars
    <3>2. /\ pos' \in 0 .. NSlots /\ todo' \in Nat /\ pos \in Slots
          /\ pos' \in Slots => todo' <= Len(ring[pos'])
      <4>1. CASE pos + 1 < NSlots /\ n < MaxBatch
        <5>1. pos' = pos + 1 /\ todo' = Len(ring[pos + 1]) /\ pos < NSlots
          BY <2>7, <4>1, Zenon DEF NextSlot
        <5> QED
          BY <4>1, <5>1
      <4>2. CASE ~(pos + 1 < NSlots /\ n < MaxBatch)
        <5>1. pos' = NSlots /\ todo' = 0 /\ pos < NSlots
          BY <2>7, <4>2, Zenon DEF NextSlot
        <5> QED
          BY <5>1
      <4> QED
        BY <4>1, <4>2
    <3>3. running
      BY <3>2
    <3> QED
      BY <3>1, <3>2, <3>3
  <2>8. CASE UNCHANGED vars
    BY <2>8 DEF vars, hwVars, drainVars
  <2> QED
    BY <2>1, <2>2, <2>3, <2>4, <2>5, <2>6, <2>7, <2>8 DEF Next
<1> QED
  BY <1>1, <1>2, PTL DEF Spec

-----------------------------------------------------------------------------
(* The words of a line carry the counter of their edge, and the word       *)
(* decoded last, the unread words and the last edge are in order of time.  *)
Chain(s) ==
    /\ last[s] <= clock
    /\ \A i \in 1 .. Len(ring[s]) : ring[s][i].ts = ring[s][i].at % Wrap
    /\ \A i \in 1 .. Len(ring[s]) - 1 : ring[s][i].at < ring[s][i + 1].at
    /\ Len(ring[s]) > 0 => ring[s][Len(ring[s])].at = last[s]
    /\ seen[s] # None =>
         /\ Len(ring[s]) = 0 => seen[s] = last[s]
         /\ Len(ring[s]) > 0 => seen[s] < ring[s][1].at
         /\ tb[s].prev = seen[s] % Wrap

(* A line that has decoded a word in this run knows a previous one.        *)
Known(s) == seen[s] # None => tb[s].has_prev

(* On a live line neighbours in that order are less than a period apart.   *)
Close(s) ==
    /\ clock - last[s] < Wrap
    /\ \A i \in 1 .. Len(ring[s]) - 1 : ring[s][i + 1].at - ring[s][i].at < Wrap
    /\ seen[s] # None /\ Len(ring[s]) > 0 => ring[s][1].at - seen[s] < Wrap

ChainInv ==
    /\ \A s \in Slots : Chain(s) /\ Known(s)
    /\ \A s \in LiveSlots : Close(s)

(* What decoding one word does to its line. *)
LEMMA DecodedWord ==
    ASSUME TypeOK, ChainInv, Decode
    PROVE  /\ pos \in Slots /\ Len(ring[pos]) > 0
           /\ ring[pos] \in Seq(Words) /\ ring[pos][1] \in Words
           /\ ring' = [ring EXCEPT ![pos] = Tail(ring[pos])]
           /\ tb' = [tb EXCEPT ![pos] = Update(tb[pos], ring[pos][1])]
           /\ seen' = [seen EXCEPT ![pos] = ring[pos][1].at]
           /\ UNCHANGED <<hwVars, clock>>
<1>1. pos \in Slots /\ Len(ring[pos]) > 0 /\ ring[pos] \in Seq(Words)
  <2>1. pos < NSlots /\ todo > 0
    BY Zenon DEF Decode
  <2>2. pos \in Slots
    BY <2>1, SizesAssumption DEF TypeOK, Slots
  <2>3. todo <= Len(ring[pos]) /\ ring[pos] \in Seq(Words) /\ todo \in Nat
    BY <2>2 DEF TypeOK
  <2> QED
    BY <2>1, <2>2, <2>3
<1>2. Head(ring[pos]) = ring[pos][1] /\ ring[pos][1] \in Words
  BY <1>1
<1> QED
  BY <1>1, <1>2, Zenon DEF Decode

(* The words waiting on a line are apart by what the line really saw, and *)
(* what decode() remembers of the line is its last word: the              *)
(* strengthening the statements about decoded times rest on.              *)
THEOREM ChainHolds == Spec => [](TypeOK /\ ChainInv)
<1> USE SizesAssumption, LiveAssumption
<1>1. Init => ChainInv
  <2> SUFFICES ASSUME Init PROVE ChainInv
    OBVIOUS
  <2>1. /\ \A s \in Slots : last[s] = 0 /\ seen[s] = None /\ Len(ring[s]) = 0
        /\ clock = 0
    BY DEF Init
  <2>2. \A s \in Slots : Chain(s)
    BY <2>1 DEF Chain
  <2>3. \A s \in Slots : Known(s)
    BY <2>1, Zenon DEF Known
  <2>4. \A s \in LiveSlots : Close(s)
    BY <2>1 DEF Close
  <2> QED
    BY <2>2, <2>3, <2>4 DEF ChainInv
<1>2. TypeOK /\ TypeOK' /\ ChainInv /\ [Next]_vars => ChainInv'
  <2> SUFFICES ASSUME TypeOK, TypeOK', ChainInv, [Next]_vars PROVE ChainInv'
    OBVIOUS
  <2>1. CASE Start
    <3> DEFINE w == [ts |-> 0, rising |-> TRUE, at |-> 0]
    <3>1. /\ \A s \in Slots : last'[s] = 0 /\ seen'[s] = None
          /\ clock' = 0
      BY <2>1 DEF Start
    <3>2. ring' = [s \in Slots |-> IF level'[s] THEN <<w>> ELSE <<>>]
      BY <2>1, Zenon DEF Start
    <3>3. w.ts = 0 /\ w.at = 0 /\ 0 % Wrap = 0
      OBVIOUS
    <3> HIDE DEF w
    <3>4. \A s \in Slots : ring'[s] = <<w>> \/ ring'[s] = <<>>
      BY <3>2
    <3>5. \A s \in Slots : Chain(s)'
      <4> SUFFICES ASSUME NEW s \in Slots PROVE Chain(s)'
        OBVIOUS
      <4>1. CASE ring'[s] = <<w>>
        BY <4>1, <3>1, <3>3 DEF Chain
      <4>2. CASE ring'[s] = <<>>
        BY <4>2, <3>1 DEF Chain
      <4> QED
        BY <3>4, <4>1, <4>2
    <3>6. \A s \in LiveSlots : Close(s)'
      <4> SUFFICES ASSUME NEW s \in LiveSlots PROVE Close(s)'
        OBVIOUS
      <4>1. s \in Slots
        OBVIOUS
      <4>2. CASE ring'[s] = <<w>>
        BY <4>1, <4>2, <3>1 DEF Close
      <4>3. CASE ring'[s] = <<>>
        BY <4>1, <4>3, <3>1 DEF Close
      <4> QED
        BY <3>4, <4>1, <4>2, <4>3, Zenon
    <3>7. \A s \in Slots : Known(s)'
      BY <3>1, Zenon DEF Known
    <3> QED
      BY <3>5, <3>6, <3>7 DEF ChainInv
  <2>2. CASE Stop \/ Drain \/ NextSlot \/ UNCHANGED vars
    <3>1. UNCHANGED <<last, clock, ring, tb, seen>>
      BY <2>2, Zenon DEF Stop, Drain, NextSlot, vars, hwVars
    <3> QED
      BY <3>1, Zenon DEF ChainInv, Chain, Close, Known
  <2>3. CASE Tick
    <3>1. /\ UNCHANGED <<last, ring, tb, seen>> /\ clock' = clock + 1
          /\ \A s \in LiveSlots : clock + 1 - last[s] < Wrap
      BY <2>3, Zenon DEF Tick, hwVars
    <3>2. \A s \in Slots : last[s] \in Nat /\ clock \in Nat
      BY DEF TypeOK
    <3>3. \A s \in Slots : Known(s)'
      BY <3>1, Zenon DEF ChainInv, Known
    <3>4. /\ \A s \in Slots : Chain(s)'
          /\ \A s \in LiveSlots : Close(s)'
      BY <3>1, <3>2 DEF ChainInv, Chain, Close
    <3> QED
      BY <3>3, <3>4 DEF ChainInv
  <2>4. ASSUME NEW e \in Slots, Edge(e) PROVE ChainInv'
    <3> DEFINE q == ring[e]
               w == Word(~level[e])
    <3>1. w.ts = clock % Wrap /\ w.at = clock
      BY DEF Word
    <3>2. /\ ring' = [ring EXCEPT ![e] = Append(q, w)]
          /\ last' = [last EXCEPT ![e] = clock]
          /\ last[e] < clock /\ UNCHANGED <<clock, tb, seen>>
      BY <2>4, Zenon DEF Edge
    <3> HIDE DEF w
    <3>3. q \in Seq(Words)
      BY DEF TypeOK
    <3> DEFINE r == Append(q, w)
    <3>4. /\ Len(r) = Len(q) + 1 /\ r[Len(q) + 1] = w
          /\ \A i \in 1 .. Len(q) : r[i] = q[i]
          /\ Len(q) \in Nat
      BY <3>3
    <3>5. /\ ring'[e] = r /\ last'[e] = clock
          /\ \A s \in Slots \ {e} : ring'[s] = ring[s] /\ last'[s] = last[s]
      BY <3>2 DEF TypeOK
    <3> HIDE DEF r
    <3>6. clock \in Nat /\ last[e] \in Nat /\ (seen[e] # None => seen[e] \in Nat)
      BY DEF TypeOK, None
    <3>7. Chain(e)'
      <4>1. \A i \in 1 .. Len(r) : r[i].ts = r[i].at % Wrap
        BY <3>1, <3>4 DEF ChainInv, Chain
      <4>2. \A i \in 1 .. Len(r) - 1 : r[i].at < r[i + 1].at
        <5> TAKE i \in 1 .. Len(r) - 1
        <5>1. CASE i = Len(q)
          <6>1. i > 0
            OBVIOUS
          <6>2. q[Len(q)].at = last[e]
            BY <5>1, <6>1 DEF ChainInv, Chain
          <6>3. r[i] = q[Len(q)] /\ r[i + 1] = w
            BY <5>1, <6>1, <3>4
          <6> QED
            BY <6>2, <6>3, <3>1, <3>2
        <5>2. CASE i < Len(q)
          <6>1. i \in 1 .. Len(q) - 1 /\ i + 1 \in 1 .. Len(q)
            BY <5>2, <3>4
          <6>2. q[i].at < q[i + 1].at
            BY <6>1 DEF ChainInv, Chain
          <6>3. r[i] = q[i] /\ r[i + 1] = q[i + 1]
            BY <6>1, <3>4
          <6> QED
            BY <6>2, <6>3
        <5> QED
          BY <5>1, <5>2, <3>4
      <4>3. seen[e] # None => seen[e] < r[1].at
        <5>1. CASE Len(q) = 0
          BY <5>1, <3>1, <3>2, <3>4 DEF ChainInv, Chain
        <5>2. CASE Len(q) > 0
          BY <5>2, <3>4 DEF ChainInv, Chain
        <5> QED
          BY <5>1, <5>2, <3>4
      <4>4. seen[e] # None => tb[e].prev = seen[e] % Wrap
        BY DEF ChainInv, Chain
      <4>5. Len(r) > 0 /\ r[Len(r)].at = clock
        BY <3>1, <3>4
      <4>6. ring'[e] = r /\ last'[e] = clock /\ clock' = clock /\ seen' = seen /\ tb' = tb
        BY <3>2, <3>5
      <4> QED
        BY <3>6, <4>1, <4>2, <4>3, <4>4, <4>5, <4>6 DEF Chain
    <3>8. e \in LiveSlots => Close(e)'
      <4> SUFFICES ASSUME e \in LiveSlots PROVE Close(e)'
        OBVIOUS
      <4>0. clock - last[e] < Wrap
        BY DEF ChainInv, Close
      <4>1. \A i \in 1 .. Len(r) - 1 : r[i + 1].at - r[i].at < Wrap
        <5> TAKE i \in 1 .. Len(r) - 1
        <5>1. CASE i = Len(q)
          BY <5>1, <4>0, <3>1, <3>4 DEF ChainInv, Chain
        <5>2. CASE i < Len(q)
          BY <5>2, <3>4 DEF ChainInv, Close
        <5> QED
          BY <5>1, <5>2, <3>4
      <4>2. seen[e] # None => r[1].at - seen[e] < Wrap
        <5>1. CASE Len(q) = 0
          BY <5>1, <4>0, <3>1, <3>4 DEF ChainInv, Chain
        <5>2. CASE Len(q) > 0
          BY <5>2, <3>4 DEF ChainInv, Close
        <5> QED
          BY <5>1, <5>2, <3>4
      <4>3. ring'[e] = r /\ last'[e] = clock /\ clock' = clock /\ seen' = seen
        BY <3>2, <3>5
      <4> QED
        BY <3>6, <4>1, <4>2, <4>3 DEF Close
    <3>9. ASSUME NEW s \in Slots \ {e} PROVE Chain(s)' /\ (s \in LiveSlots => Close(s)')
      BY <3>2, <3>5 DEF ChainInv, Chain, Close
    <3>10. \A s \in Slots : Known(s)'
      BY <3>2, Zenon DEF ChainInv, Known
    <3> QED
      BY <3>7, <3>8, <3>9, <3>10 DEF ChainInv
  <2>5. CASE Decode
    <3>0. PICK p \in Slots : p = pos
      BY <2>5, DecodedWord
    <3> DEFINE q == ring[p]
               r == Tail(q)
    <3>1. /\ Len(q) > 0 /\ q \in Seq(Words) /\ q[1] \in Words
          /\ ring'[p] = r /\ tb'[p] = Update(tb[p], q[1]) /\ seen'[p] = q[1].at
          /\ \A s \in Slots \ {p} : ring'[s] = ring[s] /\ tb'[s] = tb[s] /\ seen'[s] = seen[s]
          /\ last' = last /\ clock' = clock
      BY <2>5, <3>0, DecodedWord DEF TypeOK, hwVars
    <3>2. /\ Len(r) = Len(q) - 1 /\ Len(q) \in Nat
          /\ \A i \in 1 .. Len(r) : r[i] = q[i + 1]
      BY <3>1
    <3> HIDE DEF r
    <3>3. Update(tb[p], q[1]).prev = q[1].at % Wrap
      BY <3>1 DEF Update, ChainInv, Chain
    <3>4. Chain(p)'
      <4>0. /\ \A i \in 1 .. Len(q) : q[i].ts = q[i].at % Wrap
            /\ \A i \in 1 .. Len(q) - 1 : q[i].at < q[i + 1].at
            /\ q[Len(q)].at = last[p]
            /\ last[p] <= clock
        BY <3>1 DEF ChainInv, Chain
      <4>1. /\ \A i \in 1 .. Len(r) : r[i].ts = r[i].at % Wrap
            /\ \A i \in 1 .. Len(r) - 1 : r[i].at < r[i + 1].at
            /\ Len(r) > 0 => r[Len(r)].at = last[p]
            /\ last[p] <= clock
        <5> HIDE DEF q
        <5>1. \A i \in 1 .. Len(r) : r[i].ts = r[i].at % Wrap
          BY <4>0, <3>2
        <5>2. \A i \in 1 .. Len(r) - 1 : r[i].at < r[i + 1].at
          BY <4>0, <3>2
        <5>3. Len(r) > 0 => r[Len(r)].at = last[p]
          BY <4>0, <3>2
        <5> QED
          BY <4>0, <5>1, <5>2, <5>3
      <4>2. /\ Len(r) = 0 => q[1].at = last[p]
            /\ Len(r) > 0 => q[1].at < r[1].at
        BY <3>1, <3>2 DEF ChainInv, Chain
      <4>3. /\ ring'[p] = r /\ last'[p] = last[p] /\ clock' = clock
            /\ seen'[p] = q[1].at /\ tb'[p].prev = q[1].at % Wrap
        BY <3>1, <3>3
      <4> QED
        BY <4>1, <4>2, <4>3 DEF Chain
    <3>5. p \in LiveSlots => Close(p)'
      <4> SUFFICES ASSUME p \in LiveSlots PROVE Close(p)'
        OBVIOUS
      <4>1. /\ \A i \in 1 .. Len(r) - 1 : r[i + 1].at - r[i].at < Wrap
            /\ Len(r) > 0 => r[1].at - q[1].at < Wrap
            /\ clock - last[p] < Wrap
        BY <3>1, <3>2 DEF ChainInv, Close
      <4>2. ring'[p] = r /\ last' = last /\ clock' = clock /\ seen'[p] = q[1].at
        BY <3>1
      <4> QED
        BY <4>1, <4>2 DEF Close
    <3>6. ASSUME NEW s \in Slots \ {p} PROVE Chain(s)' /\ (s \in LiveSlots => Close(s)')
      BY <3>1 DEF ChainInv, Chain, Close
    <3>7. \A s \in Slots : Known(s)'
      <4>1. Update(tb[p], q[1]).has_prev
        BY Zenon DEF Update
      <4> QED
        BY <3>1, <4>1, Zenon DEF ChainInv, Known
    <3> QED
      BY <3>4, <3>5, <3>6, <3>7 DEF ChainInv
  <2> QED
    BY <2>1, <2>2, <2>3, <2>4, <2>5 DEF Next
<1> QED
  BY <1>1, <1>2, TypeCorrect, PTL DEF Spec

-----------------------------------------------------------------------------
(* Decoding a word of a live line adds to the decoded time exactly what    *)
(* passed since the line's previous word, over any number of wraps and in  *)
(* every run.                                                              *)
LEMMA ExactStep ==
    ASSUME TypeOK, ChainInv, [Next]_vars,
           NEW s \in LiveSlots, seen[s] # None, seen'[s] # None
    PROVE  Off(s)' = Off(s)
<1> USE SizesAssumption, LiveAssumption
<1>1. Off(s)' = Off(s)
  <2>0. s \in Slots
    OBVIOUS
  <2>1. CASE Start
    BY <2>0, <2>1 DEF Start
  <2>2. CASE UNCHANGED <<tb, seen>>
    BY <2>2, Zenon DEF Off, Now
  <2>3. CASE Decode
    <3>0. PICK p \in Slots : p = pos
      BY <2>3, DecodedWord
    <3> DEFINE w == ring[p][1]
    <3>1. /\ Len(ring[p]) > 0 /\ w \in Words
          /\ tb' = [tb EXCEPT ![p] = Update(tb[p], w)]
          /\ seen' = [seen EXCEPT ![p] = w.at]
      BY <2>3, <3>0, DecodedWord, Zenon
    <3>2. CASE s # p
      <4>1. tb'[s] = tb[s] /\ seen'[s] = seen[s]
        BY <2>0, <3>1, <3>2, Zenon DEF TypeOK
      <4> QED
        BY <4>1, Zenon DEF Off, Now
    <3>3. CASE s = p
      <4> DEFINE a == seen[s]   b == w.at
      <4>1. /\ a \in Nat /\ b \in Nat /\ a < b /\ b - a < Wrap
            /\ tb[s].prev = a % Wrap /\ w.ts = b % Wrap
        <5>1. a \in Nat
          BY <2>0 DEF TypeOK, None
        <5>2. b \in Nat
          BY <3>1 DEF Words
        <5> HIDE DEF a, b
        <5>3. a < b /\ tb[s].prev = a % Wrap /\ w.ts = b % Wrap
          BY <2>0, <3>1, <3>3 DEF ChainInv, Chain, a, b
        <5>4. b - a < Wrap
          BY <2>0, <3>1, <3>3 DEF ChainInv, Close, a, b
        <5> QED
          BY <5>1, <5>2, <5>3, <5>4
      <4>2. tb[s].has_prev
        BY <2>0, Zenon DEF ChainInv, Known
      <4>3. tb'[s] = Update(tb[s], w) /\ seen'[s] = b
        BY <2>0, <3>1, <3>3, Zenon DEF TypeOK
      <4> HIDE DEF a, b, w
      <4> DEFINE inc == IF w.ts < tb[s].prev THEN 1 ELSE 0
      <4>4. Update(tb[s], w).prev = w.ts /\ Update(tb[s], w).high = tb[s].high + inc
        <5>1. Update(tb[s], w).prev = w.ts
          BY DEF Update
        <5>2. Update(tb[s], w).high =
                  tb[s].high + (IF tb[s].has_prev /\ w.ts < tb[s].prev THEN 1 ELSE 0)
          BY DEF Update
        <5> QED
          BY <5>1, <5>2, <4>2, Zenon
      <4>5. tb'[s].prev = w.ts /\ tb'[s].high = tb[s].high + inc
        BY <4>3, <4>4, Zenon
      <4>6. tb[s].high \in Nat
        BY <2>0 DEF TypeOK
      <4>7. b - a = (b % Wrap) - (a % Wrap) + Wrap * inc
        BY <4>1, OneWrap, ZenonT(30)
      <4>8. a % Wrap \in Int /\ b % Wrap \in Int /\ inc \in {0, 1}
        BY <4>1
      <4> DEFINE ra == a % Wrap   rb == b % Wrap   h == tb[s].high
      <4>9. Wrap * (h + inc) = Wrap * h + Wrap * inc
        <5> HIDE DEF h
        <5>1. CASE inc = 0
          BY <5>1, <4>6 DEF h
        <5>2. CASE inc = 1
          BY <5>2, <4>6 DEF h
        <5> QED
          BY <5>1, <5>2, <4>8
      <4>10. Now(tb'[s]) = Wrap * (h + inc) + rb /\ Now(tb[s]) = Wrap * h + ra
        BY <4>1, <4>5, Zenon DEF Now
      <4>11. Now(tb'[s]) - b = Now(tb[s]) - a
        <5> DEFINE x == Wrap * h   y == Wrap * inc
        <5>1. x \in Int /\ y \in Int /\ ra \in Int /\ rb \in Int /\ a \in Int /\ b \in Int
          BY <4>1, <4>6, <4>8
        <5> HIDE DEF inc, h, x, y, ra, rb
        <5>2. Now(tb'[s]) = x + y + rb /\ Now(tb[s]) = x + ra
          BY <4>9, <4>10 DEF x, y
        <5>3. b - a = rb - ra + y
          BY <4>7, Zenon DEF ra, rb, y
        <5> QED
          BY <5>1, <5>2, <5>3
      <4> QED
        BY <4>3, <4>11, Zenon DEF Off, a
    <3> QED
      BY <3>2, <3>3
  <2> QED
    BY <2>1, <2>2, <2>3, Zenon
       DEF Next, Stop, Tick, Edge, Drain, NextSlot, vars, hwVars, drainVars
<1> QED
  BY <1>1

(* Over every wrap and in every run the decoded times of a live line keep  *)
(* their distances exactly.                                                *)
THEOREM IntervalsExactHolds == Spec => IntervalsExact
<1> DEFINE Exact == \A s \in LiveSlots : seen[s] # None /\ seen'[s] # None => Off(s)' = Off(s)
<1>1. TypeOK /\ ChainInv /\ [Next]_vars => Exact
  BY ExactStep, Zenon
<1>2. [](TypeOK /\ ChainInv) /\ [][Next]_vars => [][Exact]_vars
  BY <1>1, PTL
<1> QED
  BY <1>2, ChainHolds, PTL DEF Spec, IntervalsExact

-----------------------------------------------------------------------------
(* While the pickup's turn lasts, the words drain() will not get to were   *)
(* captured after it was called; from the next slot on those are all there *)
(* are.                                                                    *)
PickupInv ==
    /\ pos \in Slots => begun <= clock
    /\ pos = Pickup => \A i \in 1 .. Len(ring[Pickup]) :
                          i > todo => ring[Pickup][i].at >= begun
    /\ pos \in Slots \ {Pickup} =>
           \A i \in 1 .. Len(ring[Pickup]) : ring[Pickup][i].at >= begun

(* A drain() that has moved on from the pickup has decoded every pickup    *)
(* edge captured before the call, whatever the size of its output buffer.  *)
THEOREM PickupCaughtUpHolds == Spec => []PickupCaughtUp
<1> USE SizesAssumption
<1>0. Pickup \in Slots
  BY DEF Pickup, Slots
<1>1. Init => PickupInv
  BY DEF Init, PickupInv, Slots, Pickup
<1>2. TypeOK /\ ChainInv /\ PickupInv /\ [Next]_vars => PickupInv'
  <2> SUFFICES ASSUME TypeOK, ChainInv, PickupInv, [Next]_vars PROVE PickupInv'
    OBVIOUS
  <2>0. /\ ring[Pickup] \in Seq(Words) /\ clock \in Nat /\ begun \in Nat /\ pos \in Nat
        /\ todo \in Nat
    BY <1>0 DEF TypeOK
  <2>1. CASE Start
    <3>1. pos' \notin Slots /\ pos' # Pickup
      <4>1. UNCHANGED drainVars /\ pos \notin Slots
        BY <2>1, Zenon DEF Start, TypeOK
      <4> QED
        BY <4>1, <1>0, Zenon DEF drainVars
    <3> QED
      BY <3>1, Zenon DEF PickupInv
  <2>2. CASE Stop \/ UNCHANGED vars
    <3>1. UNCHANGED <<clock, ring, pos, todo, begun>>
      BY <2>2, Zenon DEF Stop, vars, drainVars
    <3> QED
      BY <3>1, Zenon DEF PickupInv
  <2>3. CASE Tick
    BY <2>0, <2>3 DEF Tick, drainVars, PickupInv
  <2>4. ASSUME NEW e \in Slots, Edge(e) PROVE PickupInv'
    <3> DEFINE w == Word(~level[e])
    <3>1. w.at = clock
      BY DEF Word
    <3>2. /\ ring' = [ring EXCEPT ![e] = Append(@, w)]
          /\ UNCHANGED <<clock, pos, todo, begun>>
      BY <2>4, Zenon DEF Edge, drainVars
    <3> HIDE DEF w
    <3>3. CASE e # Pickup
      <4>1. ring'[Pickup] = ring[Pickup]
        BY <3>2, <3>3, <1>0, Zenon DEF TypeOK
      <4> QED
        BY <4>1, <3>2, Zenon DEF PickupInv
    <3>4. CASE e = Pickup
      <4> DEFINE q == ring[Pickup]
                 r == Append(q, w)
      <4>1. ring'[Pickup] = r
        BY <3>2, <3>4, <1>0, Zenon DEF TypeOK
      <4>2. /\ Len(r) = Len(q) + 1 /\ r[Len(q) + 1] = w /\ Len(q) \in Nat
            /\ \A i \in 1 .. Len(q) : r[i] = q[i]
        BY <2>0
      <4> HIDE DEF r
      <4>3. pos \in Slots => begun <= clock
        BY DEF PickupInv
      <4>4. pos = Pickup => \A i \in 1 .. Len(r) : i > todo => r[i].at >= begun
        BY <1>0, <2>0, <3>1, <4>2, <4>3 DEF PickupInv
      <4>5. pos \in Slots \ {Pickup} => \A i \in 1 .. Len(r) : r[i].at >= begun
        BY <2>0, <3>1, <4>2, <4>3 DEF PickupInv
      <4> QED
        BY <3>2, <4>1, <4>3, <4>4, <4>5, Zenon DEF PickupInv
    <3> QED
      BY <3>3, <3>4
  <2>5. CASE Drain
    <3>1. /\ pos' = 0 /\ todo' = Len(ring[0]) /\ begun' = clock
          /\ clock' = clock /\ ring' = ring
      BY <2>5, Zenon DEF Drain
    <3> QED
      BY <2>0, <3>1 DEF PickupInv, Pickup
  <2>6. CASE Decode
    <3>0. PICK p \in Slots : p = pos
      BY <2>6, DecodedWord
    <3>1. /\ Len(ring[p]) > 0 /\ ring' = [ring EXCEPT ![p] = Tail(ring[p])]
          /\ clock' = clock
      BY <2>6, <3>0, DecodedWord, Zenon
    <3>2. pos' = pos /\ todo' = todo - 1 /\ begun' = begun /\ todo > 0
      BY <2>6, Zenon DEF Decode
    <3>3. CASE p # Pickup
      <4>1. ring'[Pickup] = ring[Pickup]
        BY <3>1, <3>3, <1>0, Zenon DEF TypeOK
      <4>2. pos # Pickup
        BY <3>0, <3>3
      <4> QED
        BY <4>1, <4>2, <3>1, <3>2, Zenon DEF PickupInv
    <3>4. CASE p = Pickup
      <4> DEFINE q == ring[Pickup]
                 r == Tail(q)
      <4>1. ring'[Pickup] = r
        BY <3>1, <3>4, <1>0, Zenon DEF TypeOK
      <4>2. /\ Len(r) = Len(q) - 1 /\ Len(q) \in Nat
            /\ \A i \in 1 .. Len(r) : r[i] = q[i + 1]
        BY <2>0, <3>1, <3>4
      <4> HIDE DEF r
      <4>4. pos = Pickup
        BY <3>0, <3>4
      <4>3. \A i \in 1 .. Len(r) : i > todo - 1 => r[i].at >= begun
        <5>1. \A i \in 1 .. Len(q) : i > todo => q[i].at >= begun
          BY <4>4, Zenon DEF PickupInv
        <5> HIDE DEF q
        <5>2. ASSUME NEW i \in 1 .. Len(r), i > todo - 1
              PROVE  i + 1 \in 1 .. Len(q) /\ i + 1 > todo /\ r[i] = q[i + 1]
          BY <5>2, <4>2, <2>0
        <5> QED
          BY <5>1, <5>2, Zenon
      <4> QED
        BY <3>1, <3>2, <4>1, <4>3, <4>4 DEF PickupInv
    <3> QED
      BY <3>3, <3>4
  <2>7. CASE NextSlot
    <3>1. ring' = ring /\ clock' = clock /\ begun' = begun /\ pos < NSlots
      BY <2>7, Zenon DEF NextSlot
    <3>2. CASE pos + 1 < NSlots /\ n < MaxBatch
      <4>1. pos' = pos + 1 /\ todo = 0
        <5>1. pos' = pos + 1 /\ (todo = 0 \/ n = MaxBatch)
          BY <2>7, <3>2, Zenon DEF NextSlot
        <5>2. n # MaxBatch
          BY <3>2 DEF TypeOK
        <5> QED
          BY <5>1, <5>2
      <4>2. pos \in Slots /\ pos' # Pickup
        BY <2>0, <3>1, <4>1 DEF Slots, Pickup
      <4>3. \A i \in 1 .. Len(ring[Pickup]) : ring[Pickup][i].at >= begun
        BY <4>1, <4>2 DEF PickupInv
      <4>4. begun <= clock
        BY <4>2 DEF PickupInv
      <4> QED
        BY <3>1, <4>2, <4>3, <4>4, Zenon DEF PickupInv
    <3>3. CASE ~(pos + 1 < NSlots /\ n < MaxBatch)
      <4>1. pos' = NSlots
        BY <2>7, <3>3, Zenon DEF NextSlot
      <4> QED
        BY <4>1 DEF PickupInv, Slots, Pickup
    <3> QED
      BY <3>2, <3>3
  <2> QED
    BY <2>1, <2>2, <2>3, <2>4, <2>5, <2>6, <2>7, Zenon DEF Next
<1>3. TypeOK /\ PickupInv => PickupCaughtUp
  <2> SUFFICES ASSUME TypeOK, PickupInv PROVE PickupCaughtUp
    OBVIOUS
  <2>1. DOMAIN ring[Pickup] = 1 .. Len(ring[Pickup])
    BY <1>0 DEF TypeOK
  <2> QED
    BY <2>1, Zenon DEF PickupInv, PickupCaughtUp
<1> QED
  BY <1>1, <1>2, <1>3, ChainHolds, PTL DEF Spec

-----------------------------------------------------------------------------
(* In the first run after power-up every line starts from a fresh time     *)
(* base and its first word comes within one period of the counter.         *)
FirstRun(s) ==
    /\ seen[s] = None => ~tb[s].has_prev /\ tb[s].prev = 0 /\ tb[s].high = 0
    /\ seen[s] = None /\ Len(ring[s]) = 0 => last[s] = 0
    /\ seen[s] = None /\ Len(ring[s]) > 0 => ring[s][1].at < Wrap
    /\ seen[s] # None => Now(tb[s]) = seen[s]

FirstRunInv ==
    /\ runs = 0 => ~running /\ \A s \in Slots : seen[s] = None
    /\ \A s \in Slots : FirstRun(s)

(* In the first run no line is out of step with another as long as each    *)
(* has an edge within every period of the counter: the assumption          *)
(* bracket_pk rests on.                                                    *)
THEOREM SharedTimebaseHolds ==
    ASSUME LiveSlots = Slots
    PROVE  Spec => []SharedTimebase
<1> USE SizesAssumption, LiveAssumption
<1>1. Init => FirstRunInv
  <2> SUFFICES ASSUME Init PROVE FirstRunInv
    OBVIOUS
  <2>1. ~running /\ \A s \in Slots : seen[s] = None /\ tb[s] = Fresh
    BY Zenon DEF Init
  <2>2. ~Fresh.has_prev /\ Fresh.prev = 0 /\ Fresh.high = 0
    BY DEF Fresh
  <2>3. \A s \in Slots : last[s] = 0 /\ Len(ring[s]) = 0
    BY DEF Init
  <2>4. \A s \in Slots : ~(Len(ring[s]) > 0)
    BY <2>3
  <2> QED
    BY <2>1, <2>2, <2>3, <2>4, Zenon DEF FirstRunInv, FirstRun
<1>2. TypeOK /\ ChainInv /\ FirstRunInv /\ runs' <= 1 /\ [Next]_vars => FirstRunInv'
  <2> SUFFICES ASSUME TypeOK, ChainInv, FirstRunInv, runs' <= 1, [Next]_vars
               PROVE  FirstRunInv'
    OBVIOUS
  <2>1. CASE Start
    <3> DEFINE w == [ts |-> 0, rising |-> TRUE, at |-> 0]
    <3>1. runs = 0
      BY <2>1 DEF Start, TypeOK
    <3>2. runs' # 0
      BY <2>1, <3>1 DEF Start
    <3>3. /\ ring' = [s \in Slots |-> IF level'[s] THEN <<w>> ELSE <<>>]
          /\ last' = [s \in Slots |-> 0] /\ seen' = [s \in Slots |-> None] /\ tb' = tb
      BY <2>1, Zenon DEF Start
    <3>4. w.at < Wrap
      OBVIOUS
    <3> HIDE DEF w
    <3>5. ASSUME NEW s \in Slots PROVE FirstRun(s)'
      <4>1. ~tb'[s].has_prev /\ tb'[s].prev = 0 /\ tb'[s].high = 0
        BY <3>1, <3>3, Zenon DEF FirstRunInv, FirstRun
      <4>2. last'[s] = 0 /\ seen'[s] = None
        BY <3>3
      <4>3. Len(ring'[s]) > 0 => ring'[s][1].at < Wrap
        <5>1. ring'[s] = <<w>> \/ ring'[s] = <<>>
          BY <3>3
        <5>2. CASE ring'[s] = <<w>>
          BY <5>2, <3>4
        <5>3. CASE ring'[s] = <<>>
          BY <5>3
        <5> QED
          BY <5>1, <5>2, <5>3
      <4> QED
        BY <4>1, <4>2, <4>3, Zenon DEF FirstRun
    <3> QED
      BY <3>2, <3>5, Zenon DEF FirstRunInv
  <2>2. CASE Stop
    <3>1. UNCHANGED <<runs, last, ring, tb, seen>> /\ ~running'
      BY <2>2, Zenon DEF Stop
    <3> QED
      BY <3>1, Zenon DEF FirstRunInv, FirstRun
  <2>3. CASE Tick \/ Drain \/ NextSlot \/ UNCHANGED vars
    <3>1. UNCHANGED <<running, runs, last, ring, tb, seen>>
      BY <2>3, Zenon DEF Tick, Drain, NextSlot, vars, hwVars
    <3> QED
      BY <3>1, Zenon DEF FirstRunInv, FirstRun
  <2>4. ASSUME NEW e \in Slots, Edge(e) PROVE FirstRunInv'
    <3> DEFINE q == ring[e]
               w == Word(~level[e])
    <3>1. w.at = clock
      BY DEF Word
    <3>2. /\ ring' = [ring EXCEPT ![e] = Append(q, w)]
          /\ last' = [last EXCEPT ![e] = clock]
          /\ running /\ UNCHANGED <<running, runs, tb, seen>>
      BY <2>4, Zenon DEF Edge
    <3> HIDE DEF w
    <3> DEFINE r == Append(q, w)
    <3>3. q \in Seq(Words)
      BY DEF TypeOK
    <3>4. /\ Len(r) = Len(q) + 1 /\ Len(q) \in Nat
          /\ Len(q) = 0 => r[1] = w
          /\ Len(q) > 0 => r[1] = q[1]
      BY <3>3
    <3> HIDE DEF r
    <3>5. seen[e] = None => r[1].at < Wrap
      <4> SUFFICES ASSUME seen[e] = None PROVE r[1].at < Wrap
        OBVIOUS
      <4>1. CASE Len(q) = 0
        <5>1. last[e] = 0 /\ clock - last[e] < Wrap
          BY <4>1 DEF FirstRunInv, FirstRun, ChainInv, Close
        <5> QED
          BY <5>1, <4>1, <3>1, <3>4 DEF TypeOK
      <4>2. CASE Len(q) > 0
        BY <4>2, <3>4 DEF FirstRunInv, FirstRun
      <4> QED
        BY <4>1, <4>2, <3>4
    <3>6. ring'[e] = r /\ Len(r) # 0
      <4>1. ring'[e] = r
        BY <3>2, Zenon DEF TypeOK, r
      <4> QED
        BY <4>1, <3>4
    <3>7. FirstRun(e)'
      BY <3>2, <3>5, <3>6, Zenon DEF FirstRunInv, FirstRun
    <3>8. ASSUME NEW s \in Slots \ {e} PROVE FirstRun(s)'
      <4>1. ring'[s] = ring[s] /\ last'[s] = last[s]
        BY <3>2, Zenon DEF TypeOK
      <4> QED
        BY <4>1, <3>2, Zenon DEF FirstRunInv, FirstRun
    <3> QED
      BY <3>2, <3>7, <3>8, Zenon DEF FirstRunInv
  <2>5. CASE Decode
    <3>0. PICK p \in Slots : p = pos
      BY <2>5, DecodedWord
    <3> DEFINE w == ring[p][1]
    <3>1. /\ Len(ring[p]) > 0 /\ w \in Words
          /\ ring' = [ring EXCEPT ![p] = Tail(ring[p])]
          /\ tb' = [tb EXCEPT ![p] = Update(tb[p], w)]
          /\ seen' = [seen EXCEPT ![p] = w.at] /\ UNCHANGED hwVars
      BY <2>5, <3>0, DecodedWord, Zenon
    <3>2. running /\ runs' = runs /\ running' = running /\ last' = last
      <4>1. running
        BY <3>0, Zenon DEF TypeOK
      <4> QED
        BY <3>1, <4>1 DEF hwVars
    <3>3. seen'[p] # None
      <4>1. w.at \in 0 .. Horizon /\ seen'[p] = w.at
        BY <3>1 DEF Words, TypeOK
      <4> QED
        BY <4>1 DEF None
    <3>4. Now(tb'[p]) = seen'[p]
      <4>1. CASE seen[p] = None
        <5>1. ~tb[p].has_prev /\ tb[p].prev = 0 /\ tb[p].high = 0 /\ w.at < Wrap
          BY <4>1, <3>1, Zenon DEF FirstRunInv, FirstRun
        <5>2. Update(tb[p], w).prev = w.ts
          BY DEF Update
        <5>3. Update(tb[p], w).high =
                  tb[p].high + (IF tb[p].has_prev /\ w.ts < tb[p].prev THEN 1 ELSE 0)
          BY DEF Update
        <5>4. Update(tb[p], w).high = 0
          <6>1. Update(tb[p], w).high = tb[p].high + 0
            BY <5>1, <5>3, Zenon
          <6> QED
            BY <6>1, <5>1
        <5>5. w.ts = w.at % Wrap
          BY <3>1 DEF ChainInv, Chain
        <5>6. w.at % Wrap = w.at
          <6>1. w.at \in Nat
            BY <3>1 DEF Words
          <6>2. \A k \in Nat : k < Wrap => k % Wrap = k
            OBVIOUS
          <6> QED
            BY <5>1, <6>1, <6>2, Zenon
        <5>7. tb'[p] = Update(tb[p], w) /\ seen'[p] = w.at
          BY <3>1, Zenon DEF TypeOK
        <5>8. Now(tb'[p]) = Wrap * 0 + w.at
          BY <5>2, <5>4, <5>5, <5>6, <5>7, Zenon DEF Now
        <5>9. w.at \in Nat
          BY <3>1 DEF Words
        <5> QED
          BY <5>7, <5>8, <5>9
      <4>2. CASE seen[p] # None
        <5>1. Off(p)' = Off(p)
          BY <4>2, <3>3, ExactStep, Zenon
        <5>2. Now(tb[p]) = seen[p]
          BY <4>2, Zenon DEF FirstRunInv, FirstRun
        <5>3. Now(tb'[p]) - seen'[p] = seen[p] - seen[p]
          <6>1. Off(p)' = Now(tb'[p]) - seen'[p]
            BY DEF Off, Now
          <6>2. Off(p) = Now(tb[p]) - seen[p]
            BY Zenon DEF Off
          <6> QED
            BY <5>1, <5>2, <6>1, <6>2, Zenon
        <5>4. seen[p] \in Nat /\ seen'[p] \in Nat
          <6>1. w.at \in Nat /\ seen'[p] = w.at
            BY <3>1 DEF Words, TypeOK
          <6> QED
            BY <6>1, <4>2 DEF TypeOK, None
        <5>5. Now(tb'[p]) \in Int
          <6>1. w.ts \in Nat /\ tb[p].high \in Nat
            BY <3>1 DEF Words, TypeOK
          <6>2. Update(tb[p], w).prev = w.ts
            BY DEF Update
          <6>3. Update(tb[p], w).high =
                  tb[p].high + (IF tb[p].has_prev /\ w.ts < tb[p].prev THEN 1 ELSE 0)
            BY DEF Update
          <6>4. Update(tb[p], w).high \in Nat
            BY <6>1, <6>3
          <6>5. tb'[p] = Update(tb[p], w)
            BY <3>1, Zenon DEF TypeOK
          <6>6. Now(tb'[p]) = Wrap * Update(tb[p], w).high + w.ts
            BY <6>2, <6>5, Zenon DEF Now
          <6> QED
            BY <6>1, <6>4, <6>6
        <5> QED
          BY <5>3, <5>4, <5>5
      <4> QED
        BY <4>1, <4>2
    <3>5. FirstRun(p)'
      BY <3>3, <3>4, Zenon DEF FirstRun, Now
    <3>6. ASSUME NEW s \in Slots \ {p} PROVE FirstRun(s)'
      <4>1. ring'[s] = ring[s] /\ tb'[s] = tb[s] /\ seen'[s] = seen[s]
        BY <3>1, Zenon DEF TypeOK
      <4> QED
        BY <4>1, <3>2, Zenon DEF FirstRunInv, FirstRun, Now
    <3>7. runs # 0
      BY <3>2 DEF FirstRunInv
    <3> QED
      BY <3>2, <3>5, <3>6, <3>7, Zenon DEF FirstRunInv
  <2> QED
    BY <2>1, <2>2, <2>3, <2>4, <2>5, Zenon DEF Next
<1>3. TypeOK /\ FirstRunInv => SharedOffset
  <2> SUFFICES ASSUME TypeOK, FirstRunInv,
                      NEW s \in Slots, NEW t \in Slots, seen[s] # None, seen[t] # None
               PROVE  Off(s) = Off(t)
    BY Zenon DEF SharedOffset
  <2>1. Off(s) = seen[s] - seen[s] /\ Off(t) = seen[t] - seen[t]
    BY Zenon DEF FirstRunInv, FirstRun, Off
  <2>2. seen[s] \in Int /\ seen[t] \in Int
    BY DEF TypeOK, None
  <2> QED
    BY <2>1, <2>2
<1>4. TypeOK /\ runs' <= 1 /\ [Next]_vars => runs <= 1
  <2> SUFFICES ASSUME TypeOK, runs' <= 1, [Next]_vars PROVE runs <= 1
    OBVIOUS
  <2>1. runs' = runs \/ runs' = runs + 1
    <3>1. CASE Start
      BY <3>1, Zenon DEF Start
    <3>2. ASSUME NEW s \in Slots, Edge(s) PROVE runs' = runs
      BY <3>2, Zenon DEF Edge
    <3>3. CASE Stop \/ Tick \/ Drain \/ Decode \/ NextSlot \/ UNCHANGED vars
      BY <3>3, Zenon DEF Stop, Tick, Drain, Decode, NextSlot, vars, hwVars
    <3> QED
      BY <3>1, <3>2, <3>3, Zenon DEF Next
  <2> QED
    BY <2>1 DEF TypeOK
<1> DEFINE EarlyInv == runs <= 1 => FirstRunInv
<1>5. Init => EarlyInv
  BY <1>1
<1>6. TypeOK /\ ChainInv /\ EarlyInv /\ [Next]_vars => EarlyInv'
  BY <1>2, <1>4
<1>7. TypeOK /\ EarlyInv => SharedTimebase
  BY <1>3 DEF SharedTimebase
<1> HIDE DEF EarlyInv
<1> QED
  BY <1>5, <1>6, <1>7, ChainHolds, PTL DEF Spec
=============================================================================
