----------------------------- MODULE HoldProofs -----------------------------
(***************************************************************************)
(* Proofs about the way of a hold's rows, for every size of ring and       *)
(* window and every set of rows.  First Spsc: the indices keep their       *)
(* order, no slot is written while it is read, and the ring implements     *)
(* BoundedFifo.  Then RecentRing, as the window of HoldPath: it is the     *)
(* last W rows pushed.  Then the two with core 0 between them: what core 1 *)
(* publishes reaches the window once and in order (HoldStream).            *)
(***************************************************************************)
EXTENDS HoldPath, SequenceTheorems, TLAPS

(* advance() without the modulus. *)
LEMMA AdvanceValue ==
    ASSUME NEW i \in Slots
    PROVE  /\ Advance(i) = IF i + 1 = N THEN 0 ELSE i + 1
           /\ Advance(i) \in Slots
  BY NAssumption DEF Advance, Slots

(* The distance round the ring without the modulus. *)
LEMMA DistValue ==
    ASSUME NEW a \in Slots, NEW b \in Slots
    PROVE  /\ Dist(a, b) = IF a <= b THEN b - a ELSE b - a + N
           /\ Dist(a, b) \in 0 .. N - 1
  BY NAssumption DEF Dist, Slots

(* The slot i places after a, without the modulus. *)
LEMMA SlotAfter ==
    ASSUME NEW a \in Slots, NEW i \in Slots
    PROVE  /\ (a + i) % N = IF a + i < N THEN a + i ELSE a + i - N
           /\ (a + i) % N \in Slots
  BY NAssumption DEF Slots

(* Distance zero means the same index. *)
LEMMA DistZero ==
    ASSUME NEW a \in Slots, NEW b \in Slots
    PROVE  Dist(a, b) = 0 <=> a = b
  <1>1. Dist(a, b) = IF a <= b THEN b - a ELSE b - a + N
    BY DistValue
  <1> QED
    BY <1>1, NAssumption DEF Slots

(* Moving the far end of an interval forward lengthens it by one, unless   *)
(* it closes the circle.                                                   *)
LEMMA DistGrow ==
    ASSUME NEW a \in Slots, NEW b \in Slots, Advance(b) # a
    PROVE  Dist(a, Advance(b)) = Dist(a, b) + 1
  <1>1. Dist(a, b) = IF a <= b THEN b - a ELSE b - a + N
    BY DistValue
  <1>2. Advance(b) = (IF b + 1 = N THEN 0 ELSE b + 1) /\ Advance(b) \in Slots
    BY AdvanceValue
  <1>3. Dist(a, Advance(b)) = IF a <= Advance(b) THEN Advance(b) - a ELSE Advance(b) - a + N
    BY <1>2, DistValue
  <1> QED
    BY <1>1, <1>2, <1>3, NAssumption DEF Slots

(* Moving the near end of a non-empty interval shortens it by one. *)
LEMMA DistShrink ==
    ASSUME NEW a \in Slots, NEW b \in Slots, a # b
    PROVE  Dist(Advance(a), b) = Dist(a, b) - 1
  <1>1. Dist(a, b) = IF a <= b THEN b - a ELSE b - a + N
    BY DistValue
  <1>2. Advance(a) = (IF a + 1 = N THEN 0 ELSE a + 1) /\ Advance(a) \in Slots
    BY AdvanceValue
  <1>3. Dist(Advance(a), b) = IF Advance(a) <= b THEN b - Advance(a) ELSE b - Advance(a) + N
    BY <1>2, DistValue
  <1> QED
    BY <1>1, <1>2, <1>3, NAssumption DEF Slots

(* An interval can be cut at any point inside it. *)
LEMMA DistSplit ==
    ASSUME NEW a \in Slots, NEW b \in Slots, NEW c \in Slots,
           Dist(a, b) <= Dist(a, c)
    PROVE  Dist(a, b) + Dist(b, c) = Dist(a, c)
  <1>1. /\ Dist(a, b) = IF a <= b THEN b - a ELSE b - a + N
        /\ Dist(b, c) = IF b <= c THEN c - b ELSE c - b + N
        /\ Dist(a, c) = IF a <= c THEN c - a ELSE c - a + N
    BY DistValue
  <1> QED
    BY <1>1, NAssumption DEF Slots

(* Two adjoining intervals that fit on the ring make one. *)
LEMMA DistJoin ==
    ASSUME NEW a \in Slots, NEW b \in Slots, NEW c \in Slots,
           Dist(a, b) + Dist(b, c) <= N - 1
    PROVE  Dist(a, b) + Dist(b, c) = Dist(a, c)
  <1>1. /\ Dist(a, b) = IF a <= b THEN b - a ELSE b - a + N
        /\ Dist(b, c) = IF b <= c THEN c - b ELSE c - b + N
        /\ Dist(a, c) = IF a <= c THEN c - a ELSE c - a + N
    BY DistValue
  <1> QED
    BY <1>1, NAssumption DEF Slots

(* An index whose successor is a has the whole ring between a and itself. *)
LEMMA DistFull ==
    ASSUME NEW a \in Slots, NEW b \in Slots
    PROVE  Advance(b) = a <=> Dist(a, b) = N - 1
  <1>1. Dist(a, b) = IF a <= b THEN b - a ELSE b - a + N
    BY DistValue
  <1>2. Advance(b) = IF b + 1 = N THEN 0 ELSE b + 1
    BY AdvanceValue
  <1> QED
    BY <1>1, <1>2, NAssumption DEF Slots

-----------------------------------------------------------------------------
(* What each side knows while it is inside a call: the checks that let it  *)
(* in still hold of the index it acquired.                                 *)
InsideCall ==
    /\ ppc # "idle" => ~Full(pHead) /\ pVal \in Values
    /\ ppc = "publish" => buf[tail] = pVal
    /\ cpc # "idle" => ~Empty(cTail)
    /\ pSawEmpty => ppc = "idle" /\ head = tail
    /\ cSawRow => cpc = "idle" /\ ~Empty(cTail)

(* The inductive invariant. *)
IInv == TypeOK /\ IndexOrder /\ InsideCall

(* Both indices start at slot 0, and so do the views of them. *)
LEMMA InitIInv == Init => IInv
  <1> SUFFICES ASSUME Init PROVE IInv
    OBVIOUS
  <1> USE DEF Init
  <1>1. 0 \in Slots
    BY NAssumption DEF Slots
  <1>2. TypeOK
    BY <1>1 DEF TypeOK
  <1>3. Dist(0, 0) = 0
    BY <1>1, DistZero
  <1>4. IndexOrder
    BY <1>3 DEF IndexOrder
  <1>5. InsideCall
    BY DEF InsideCall
  <1> QED
    BY <1>2, <1>4, <1>5 DEF IInv

(* A load by the producer moves its view of head_ towards head_: the order *)
(* is kept, and what the producer could write it still may.                *)
LEMMA ProducerLoad ==
    ASSUME TypeOK, IndexOrder, NEW h \in Loads(pHead, head)
    PROVE  /\ h \in Slots
           /\ Dist(h, head) + Dist(head, cTail) + Dist(cTail, tail) = Dist(h, tail)
           /\ h = tail => head = tail
  <1>0. /\ head \in Slots /\ tail \in Slots /\ pHead \in Slots /\ cTail \in Slots
        /\ Dist(pHead, head) + Dist(head, cTail) + Dist(cTail, tail) = Dist(pHead, tail)
    BY DEF TypeOK, IndexOrder
  <1>1. h \in Slots /\ Dist(pHead, h) <= Dist(pHead, head)
    BY DEF Loads
  <1>2. /\ Dist(pHead, head) \in Nat /\ Dist(head, cTail) \in Nat
        /\ Dist(cTail, tail) \in Nat /\ Dist(pHead, tail) \in Nat
        /\ Dist(pHead, h) \in Nat /\ Dist(h, head) \in Nat /\ Dist(h, tail) \in Nat
    BY <1>0, <1>1, DistValue
  <1>3. Dist(pHead, h) + Dist(h, head) = Dist(pHead, head)
    BY <1>0, <1>1, DistSplit
  <1>4. Dist(pHead, h) <= Dist(pHead, tail)
    BY <1>0, <1>1, <1>2
  <1>5. Dist(pHead, h) + Dist(h, tail) = Dist(pHead, tail)
    BY <1>0, <1>1, <1>4, DistSplit
  <1>6. Dist(h, head) + Dist(head, cTail) + Dist(cTail, tail) = Dist(h, tail)
    <2> DEFINE x == Dist(pHead, h)     y == Dist(h, head)      z == Dist(h, tail)
               A == Dist(pHead, head)  B == Dist(head, cTail)  C == Dist(cTail, tail)
               D == Dist(pHead, tail)
    <2>1. /\ x \in Nat /\ y \in Nat /\ z \in Nat
          /\ A \in Nat /\ B \in Nat /\ C \in Nat /\ D \in Nat
      BY <1>2
    <2>2. A + B + C = D /\ x + y = A /\ x + z = D
      BY <1>0, <1>3, <1>5
    <2> HIDE DEF x, y, z, A, B, C, D
    <2>3. y + B + C = z
      BY <2>1, <2>2
    <2> QED
      BY <2>3 DEF y, z, B, C
  <1>7. ASSUME h = tail PROVE head = tail
    <2>1. Dist(h, head) = 0
      BY <1>1, <1>2, <1>6, <1>7, <1>0, DistZero
    <2> QED
      BY <2>1, <1>0, <1>1, <1>7, DistZero
  <1> QED
    BY <1>1, <1>6, <1>7

(* The same for a load by the consumer: its view of tail_ moves towards    *)
(* tail_, and a row it has seen cannot disappear.                          *)
LEMMA ConsumerLoad ==
    ASSUME TypeOK, IndexOrder, NEW t \in Loads(cTail, tail)
    PROVE  /\ t \in Slots
           /\ Dist(pHead, head) + Dist(head, t) + Dist(t, tail) = Dist(pHead, tail)
           /\ t = head => cTail = head
  <1>0. /\ head \in Slots /\ tail \in Slots /\ pHead \in Slots /\ cTail \in Slots
        /\ Dist(pHead, head) + Dist(head, cTail) + Dist(cTail, tail) = Dist(pHead, tail)
    BY DEF TypeOK, IndexOrder
  <1>1. t \in Slots /\ Dist(cTail, t) <= Dist(cTail, tail)
    BY DEF Loads
  <1>2. /\ Dist(pHead, head) \in Nat /\ Dist(head, cTail) \in Nat
        /\ Dist(cTail, tail) \in Nat /\ Dist(pHead, tail) \in 0 .. N - 1
        /\ Dist(cTail, t) \in Nat /\ Dist(t, tail) \in Nat /\ Dist(head, t) \in Nat
    BY <1>0, <1>1, DistValue
  <1>3. Dist(cTail, t) + Dist(t, tail) = Dist(cTail, tail)
    BY <1>0, <1>1, DistSplit
  <1>4. Dist(head, cTail) + Dist(cTail, t) <= N - 1
    BY <1>0, <1>2, <1>1, NAssumption
  <1>5. Dist(head, cTail) + Dist(cTail, t) = Dist(head, t)
    BY <1>0, <1>4, <1>1, DistJoin
  <1>6. t = head => cTail = head
    <2>1. t = head => Dist(head, t) = 0
      BY <1>0, <1>1, DistZero
    <2>2. t = head => Dist(head, cTail) = 0
      BY <2>1, <1>2, <1>5
    <2> QED
      BY <2>2, <1>0, DistZero
  <1> QED
    BY <1>0, <1>1, <1>2, <1>3, <1>5, <1>6

(* A producer that found room keeps it: whatever the consumer does         *)
(* meanwhile, filling the next slot laps no index.                         *)
LEMMA ProducerRoom ==
    ASSUME TypeOK, IndexOrder, ~Full(pHead)
    PROVE  /\ Dist(cTail, Advance(tail)) = Dist(cTail, tail) + 1
           /\ Dist(pHead, Advance(tail)) = Dist(pHead, tail) + 1
  <1>0. head \in Slots /\ tail \in Slots /\ pHead \in Slots /\ cTail \in Slots
    BY DEF TypeOK
  <1>1. Advance(tail) # pHead
    BY DEF Full
  <1>2. Advance(tail) # cTail
    <2> SUFFICES ASSUME Advance(tail) = cTail PROVE FALSE
      OBVIOUS
    <2> DEFINE A == Dist(pHead, head)  B == Dist(head, cTail)  C == Dist(cTail, tail)
               D == Dist(pHead, tail)
    <2>1. A \in Nat /\ B \in Nat /\ C \in Nat /\ D \in 0 .. N - 1
      BY <1>0, DistValue
    <2>2. C = N - 1
      BY <1>0, DistFull
    <2>3. A + B + C = D
      BY DEF IndexOrder
    <2>4. D # N - 1
      BY <1>0, <1>1, DistFull
    <2> HIDE DEF A, B, C, D
    <2> QED
      BY <2>1, <2>2, <2>3, <2>4, NAssumption
  <1> QED
    BY <1>0, <1>1, <1>2, DistGrow

(* A consumer that found a row keeps it: releasing its slot laps no index. *)
LEMMA ConsumerRow ==
    ASSUME TypeOK, IndexOrder, ~Empty(cTail)
    PROVE  /\ Dist(pHead, Advance(head)) = Dist(pHead, head) + 1
           /\ Dist(Advance(head), cTail) = Dist(head, cTail) - 1
           /\ head # tail
  <1>0. head \in Slots /\ tail \in Slots /\ pHead \in Slots /\ cTail \in Slots
    BY DEF TypeOK
  <1>1. head # cTail
    BY DEF Empty
  <1> DEFINE A == Dist(pHead, head)  B == Dist(head, cTail)  C == Dist(cTail, tail)
             D == Dist(pHead, tail)
  <1>2. A \in Nat /\ B \in Nat /\ C \in Nat /\ D \in 0 .. N - 1
    BY <1>0, DistValue
  <1>3. A + B + C = D
    BY DEF IndexOrder
  <1>4. B # 0
    BY <1>0, <1>1, DistZero
  <1>5. Advance(head) # pHead
    <2> SUFFICES A # N - 1
      BY <1>0, DistFull
    <2> HIDE DEF A, B, C, D
    <2> QED
      BY <1>2, <1>3, <1>4, NAssumption
  <1>6. head # tail
    <2> SUFFICES A # D
      OBVIOUS
    <2> HIDE DEF A, B, C, D
    <2> QED
      BY <1>2, <1>3, <1>4
  <1> QED
    BY <1>0, <1>1, <1>5, <1>6, DistGrow, DistShrink

(* Every step of either core keeps the invariant. *)
LEMMA NextIInv == IInv /\ [Next]_vars => IInv'
  <1> SUFFICES ASSUME IInv, [Next]_vars PROVE IInv'
    OBVIOUS
  <1>0. TypeOK /\ IndexOrder /\ InsideCall
    BY DEF IInv
  <1>a. Advance(tail) \in Slots /\ Advance(head) \in Slots
    BY <1>0, AdvanceValue DEF TypeOK
  <1>1. CASE PushFull
    <2>1. PICK h \in Loads(pHead, head) : Full(h) /\ pHead' = h
      BY <1>1 DEF PushFull
    <2>2. /\ h \in Slots
          /\ Dist(h, head) + Dist(head, cTail) + Dist(cTail, tail) = Dist(h, tail)
      BY <1>0, ProducerLoad
    <2>3. TypeOK'
      BY <1>0, <1>1, <2>1, <2>2 DEF TypeOK, PushFull, cVars
    <2>4. IndexOrder'
      BY <1>1, <2>1, <2>2 DEF IndexOrder, PushFull, cVars
    <2>5. ppc' = "idle"
      BY <1>1 DEF PushFull
    <2>6. InsideCall'
      BY <1>0, <1>1, <2>5 DEF InsideCall, PushFull, cVars, Empty
    <2> QED
      BY <2>3, <2>4, <2>6 DEF IInv
  <1>2. ASSUME NEW v \in Values, PushAccept(v) PROVE IInv'
    <2>1. PICK h \in Loads(pHead, head) : ~Full(h) /\ pHead' = h
      BY <1>2 DEF PushAccept
    <2>2. /\ h \in Slots
          /\ Dist(h, head) + Dist(head, cTail) + Dist(cTail, tail) = Dist(h, tail)
      BY <1>0, ProducerLoad
    <2>3. TypeOK'
      BY <1>0, <1>2, <2>1, <2>2 DEF TypeOK, PushAccept, cVars
    <2>4. IndexOrder'
      BY <1>2, <2>1, <2>2 DEF IndexOrder, PushAccept, cVars
    <2>5. InsideCall'
      BY <1>0, <1>2, <2>1 DEF InsideCall, PushAccept, cVars, Empty, Full
    <2> QED
      BY <2>3, <2>4, <2>5 DEF IInv
  <1>3. CASE PushStore
    <2>1. pVal \in Values
      BY <1>0, <1>3 DEF InsideCall, PushStore
    <2>2. buf' = [buf EXCEPT ![tail] = pVal]
      BY <1>3 DEF PushStore
    <2>3. buf' \in [Slots -> Values \union {Blank}] /\ buf'[tail] = pVal
      BY <1>0, <2>1, <2>2 DEF TypeOK
    <2>4. TypeOK'
      BY <1>0, <1>3, <2>3 DEF TypeOK, PushStore, cVars
    <2>5. IndexOrder'
      BY <1>0, <1>3 DEF IndexOrder, PushStore, cVars
    <2>6. InsideCall'
      BY <1>0, <1>3, <2>3 DEF InsideCall, PushStore, cVars, Empty, Full
    <2> QED
      BY <2>4, <2>5, <2>6 DEF IInv
  <1>4. CASE PushPublish
    <2>1. ~Full(pHead)
      BY <1>0, <1>4 DEF InsideCall, PushPublish
    <2>2. /\ Dist(cTail, Advance(tail)) = Dist(cTail, tail) + 1
          /\ Dist(pHead, Advance(tail)) = Dist(pHead, tail) + 1
      BY <1>0, <2>1, ProducerRoom
    <2>3. TypeOK'
      BY <1>0, <1>a, <1>4 DEF TypeOK, PushPublish, cVars
    <2>4. IndexOrder'
      <3> DEFINE A == Dist(pHead, head)  B == Dist(head, cTail)  C == Dist(cTail, tail)
                 D == Dist(pHead, tail)
      <3>1. A \in Nat /\ B \in Nat /\ C \in Nat /\ D \in Nat
        BY <1>0, DistValue DEF TypeOK
      <3>2. A + B + C = D
        BY <1>0 DEF IndexOrder
      <3> SUFFICES A + B + (C + 1) = D + 1
        BY <1>4, <2>2 DEF IndexOrder, PushPublish, cVars
      <3> HIDE DEF A, B, C, D
      <3> QED
        BY <3>1, <3>2
    <2>5. InsideCall'
      BY <1>0, <1>4 DEF InsideCall, PushPublish, cVars, Empty, Full
    <2> QED
      BY <2>3, <2>4, <2>5 DEF IInv
  <1>5. CASE ProducerEmpty
    <2>1. PICK h \in Loads(pHead, head) : pHead' = h /\ pSawEmpty' = (h = tail)
      BY <1>5 DEF ProducerEmpty
    <2>2. /\ h \in Slots
          /\ Dist(h, head) + Dist(head, cTail) + Dist(cTail, tail) = Dist(h, tail)
          /\ h = tail => head = tail
      BY <1>0, ProducerLoad
    <2>3. pSawEmpty' \in BOOLEAN
      BY <2>1
    <2>4. TypeOK'
      BY <1>0, <1>5, <2>1, <2>2, <2>3 DEF TypeOK, ProducerEmpty, cVars
    <2>5. IndexOrder'
      BY <1>5, <2>1, <2>2 DEF IndexOrder, ProducerEmpty, cVars
    <2>6. InsideCall'
      BY <1>0, <1>5, <2>1, <2>2 DEF InsideCall, ProducerEmpty, cVars, Empty
    <2> QED
      BY <2>4, <2>5, <2>6 DEF IInv
  <1>6. CASE PopEmpty
    <2>1. PICK t \in Loads(cTail, tail) : Empty(t) /\ cTail' = t
      BY <1>6 DEF PopEmpty
    <2>2. /\ t \in Slots
          /\ Dist(pHead, head) + Dist(head, t) + Dist(t, tail) = Dist(pHead, tail)
          /\ t = head => cTail = head
      BY <1>0, ConsumerLoad
    <2>3. TypeOK'
      BY <1>0, <1>6, <2>1, <2>2 DEF TypeOK, PopEmpty, pVars
    <2>4. IndexOrder'
      BY <1>6, <2>1, <2>2 DEF IndexOrder, PopEmpty, pVars
    <2>5. InsideCall'
      BY <1>0, <1>6, <2>1, <2>2 DEF InsideCall, PopEmpty, pVars, Empty, Full
    <2> QED
      BY <2>3, <2>4, <2>5 DEF IInv
  <1>7. CASE PopAccept
    <2>1. PICK t \in Loads(cTail, tail) : ~Empty(t) /\ cTail' = t
      BY <1>7 DEF PopAccept
    <2>2. /\ t \in Slots
          /\ Dist(pHead, head) + Dist(head, t) + Dist(t, tail) = Dist(pHead, tail)
      BY <1>0, ConsumerLoad
    <2>3. TypeOK'
      BY <1>0, <1>7, <2>1, <2>2 DEF TypeOK, PopAccept, pVars
    <2>4. IndexOrder'
      BY <1>7, <2>1, <2>2 DEF IndexOrder, PopAccept, pVars
    <2>5. InsideCall'
      BY <1>0, <1>7, <2>1 DEF InsideCall, PopAccept, pVars, Empty, Full
    <2> QED
      BY <2>3, <2>4, <2>5 DEF IInv
  <1>8. CASE PopRead
    <2>1. buf[head] \in Values \union {Blank}
      BY <1>0 DEF TypeOK
    <2>2. TypeOK'
      BY <1>0, <1>8, <2>1 DEF TypeOK, PopRead, pVars
    <2>3. IndexOrder'
      BY <1>0, <1>8 DEF IndexOrder, PopRead, pVars
    <2>4. InsideCall'
      BY <1>0, <1>8 DEF InsideCall, PopRead, pVars, Empty, Full
    <2> QED
      BY <2>2, <2>3, <2>4 DEF IInv
  <1>9. CASE PopPublish
    <2>1. ~Empty(cTail)
      BY <1>0, <1>9 DEF InsideCall, PopPublish
    <2>2. /\ Dist(pHead, Advance(head)) = Dist(pHead, head) + 1
          /\ Dist(Advance(head), cTail) = Dist(head, cTail) - 1
          /\ head # tail
      BY <1>0, <2>1, ConsumerRow
    <2>3. TypeOK'
      BY <1>0, <1>a, <1>9 DEF TypeOK, PopPublish, pVars
    <2>4. IndexOrder'
      <3> DEFINE A == Dist(pHead, head)  B == Dist(head, cTail)  C == Dist(cTail, tail)
                 D == Dist(pHead, tail)
      <3>1. A \in Nat /\ B \in Nat /\ C \in Nat /\ D \in Nat
        BY <1>0, DistValue DEF TypeOK
      <3>2. A + B + C = D
        BY <1>0 DEF IndexOrder
      <3> SUFFICES (A + 1) + (B - 1) + C = D
        BY <1>9, <2>2 DEF IndexOrder, PopPublish, pVars
      <3> HIDE DEF A, B, C, D
      <3> QED
        BY <3>1, <3>2
    <2>5. InsideCall'
      BY <1>0, <1>9, <2>2 DEF InsideCall, PopPublish, pVars, Empty, Full
    <2> QED
      BY <2>3, <2>4, <2>5 DEF IInv
  <1>10. CASE ConsumerEmpty
    <2>1. PICK t \in Loads(cTail, tail) : cTail' = t /\ cSawRow' = ~Empty(t)
      BY <1>10 DEF ConsumerEmpty
    <2>2. /\ t \in Slots
          /\ Dist(pHead, head) + Dist(head, t) + Dist(t, tail) = Dist(pHead, tail)
      BY <1>0, ConsumerLoad
    <2>3. cSawRow' \in BOOLEAN
      BY <2>1
    <2>4. TypeOK'
      BY <1>0, <1>10, <2>1, <2>2, <2>3 DEF TypeOK, ConsumerEmpty, pVars
    <2>5. IndexOrder'
      BY <1>10, <2>1, <2>2 DEF IndexOrder, ConsumerEmpty, pVars
    <2>6. InsideCall'
      BY <1>0, <1>10, <2>1 DEF InsideCall, ConsumerEmpty, pVars, Empty, Full
    <2> QED
      BY <2>4, <2>5, <2>6 DEF IInv
  <1>11. CASE UNCHANGED vars
    BY <1>0, <1>11 DEF IInv, TypeOK, IndexOrder, InsideCall, Full, Empty, vars, pVars, cVars
  <1> QED
    BY <1>1, <1>2, <1>3, <1>4, <1>5, <1>6, <1>7, <1>8, <1>9, <1>10, <1>11
       DEF Next, Producer, Consumer

(* The inductive invariant of the ring: types, the order of the four *)
(* indices, and what each side knows in the middle of a call.        *)
THEOREM IInvHolds == Spec => []IInv
  BY InitIInv, NextIInv, PTL DEF Spec

(* Every variable keeps its type; in particular both indices stay inside   *)
(* the array, so push() and pop() never touch memory outside buf_.         *)
THEOREM TypeCorrect == Spec => []TypeOK
  <1>1. IInv => TypeOK
    BY DEF IInv
  <1> QED
    BY IInvHolds, <1>1, PTL

(* The four indices of the ring (each side's own and what it has acquired  *)
(* of the other's) keep their order round the ring.                        *)
THEOREM IndicesOrdered == Spec => []IndexOrder
  <1>1. IInv => IndexOrder
    BY DEF IInv
  <1> QED
    BY IInvHolds, <1>1, PTL

(* push() never writes the slot pop() is copying. *)
THEOREM RaceFree == Spec => []NoDataRace
  <1>1. IInv => NoDataRace
    <2> SUFFICES ASSUME IInv, ppc = "store", cpc = "read", tail = head
                 PROVE  FALSE
      BY DEF NoDataRace
    <2>1. TypeOK /\ IndexOrder /\ ~Empty(cTail)
      BY DEF IInv, InsideCall
    <2> QED
      BY <2>1, ConsumerRow
  <1> QED
    BY IInvHolds, <1>1, PTL

(* What empty() told a side stays true until that side acts on it. *)
THEOREM EmptyAnswers == Spec => []EmptyAnswerHolds
  <1>1. IInv => EmptyAnswerHolds
    <2> SUFFICES ASSUME IInv PROVE EmptyAnswerHolds
      OBVIOUS
    <2>1. TypeOK /\ IndexOrder /\ InsideCall
      BY DEF IInv
    <2>2. pSawEmpty => head = tail
      BY <2>1 DEF InsideCall
    <2>3. ASSUME cSawRow, NEW t \in Loads(cTail, tail) PROVE ~Empty(t)
      <3>1. cTail # head
        BY <2>1, <2>3 DEF InsideCall, Empty
      <3>2. t = head => cTail = head
        BY <2>1, ConsumerLoad
      <3> QED
        BY <3>1, <3>2 DEF Empty
    <2> QED
      BY <2>2, <2>3 DEF EmptyAnswerHolds
  <1> QED
    BY IInvHolds, <1>1, PTL

-----------------------------------------------------------------------------
(* Refinement.  The rows the consumer has not copied yet are a window      *)
(* [first, first + n) of the ring; these lemmas say how the abstract queue *)
(* changes when the window does.                                           *)
Span(b, f, n) == [i \in 1 .. n |-> b[(f + (i - 1)) % N]]

Contents == [Slots -> Values \union {Blank}]

(* The abstract queue is the window from First to tail_. *)
LEMMA QueueIsSpan == Queue = Span(buf, First, Dist(First, tail))
  BY DEF Queue, Span

(* A window is a sequence. *)
LEMMA SpanSeq ==
    ASSUME NEW b \in Contents, NEW f \in Slots, NEW n \in Slots
    PROVE  /\ Span(b, f, n) \in Seq(Values \union {Blank})
           /\ Len(Span(b, f, n)) = n
           /\ \A i \in 1 .. n : Span(b, f, n)[i] = b[(f + (i - 1)) % N]
  <1>1. n \in Nat
    BY NAssumption DEF Slots
  <1>2. ASSUME NEW i \in 1 .. n PROVE (f + (i - 1)) % N \in Slots
    <2>1. i - 1 \in Slots
      BY <1>1, NAssumption DEF Slots
    <2> QED
      BY <2>1, SlotAfter
  <1>3. \A i \in 1 .. n : b[(f + (i - 1)) % N] \in Values \union {Blank}
    BY <1>2 DEF Contents
  <1> QED
    BY <1>1, <1>3 DEF Span

(* Moving the end of a window over a slot appends what the slot holds. *)
LEMMA SpanGrows ==
    ASSUME NEW b \in Contents, NEW f \in Slots, NEW e \in Slots, Dist(f, e) < N - 1
    PROVE  Span(b, f, Dist(f, e) + 1) = Append(Span(b, f, Dist(f, e)), b[e])
  <1> DEFINE n == Dist(f, e)
             w == Span(b, f, n)
             x == Span(b, f, n + 1)
  <1>1. n \in Slots /\ n + 1 \in Slots
    <2>1. n \in 0 .. N - 1 /\ n < N - 1
      BY DistValue
    <2> HIDE DEF n
    <2> QED
      BY <2>1, NAssumption DEF Slots
  <1>2. (f + n) % N = e
    <2>1. n = IF f <= e THEN e - f ELSE e - f + N
      BY DistValue
    <2>2. (f + n) % N = IF f + n < N THEN f + n ELSE f + n - N
      BY <1>1, SlotAfter
    <2> HIDE DEF n
    <2> QED
      BY <2>1, <2>2, NAssumption DEF Slots
  <1> HIDE DEF n
  <1>3. /\ w \in Seq(Values \union {Blank}) /\ Len(w) = n
        /\ \A i \in 1 .. n : w[i] = b[(f + (i - 1)) % N]
    BY <1>1, SpanSeq
  <1>4. /\ x \in Seq(Values \union {Blank}) /\ Len(x) = n + 1
        /\ \A i \in 1 .. n + 1 : x[i] = b[(f + (i - 1)) % N]
    BY <1>1, SpanSeq
  <1> HIDE DEF w, x
  <1>5. b[e] \in Values \union {Blank}
    BY DEF Contents
  <1>6. /\ Append(w, b[e]) \in Seq(Values \union {Blank})
        /\ Len(Append(w, b[e])) = n + 1
        /\ \A i \in 1 .. n : Append(w, b[e])[i] = w[i]
        /\ Append(w, b[e])[n + 1] = b[e]
    BY <1>3, <1>5, AppendProperties
  <1>7. ASSUME NEW i \in 1 .. n + 1 PROVE x[i] = Append(w, b[e])[i]
    <2>1. CASE i \in 1 .. n
      BY <2>1, <1>3, <1>4, <1>6
    <2>2. CASE i = n + 1
      <3>1. (f + (i - 1)) % N = e
        BY <2>2, <1>1, <1>2 DEF Slots
      <3> QED
        BY <2>2, <3>1, <1>4, <1>6
    <2>3. i \in 1 .. n \/ i = n + 1
      BY <1>1, NAssumption DEF Slots
    <2> QED
      BY <2>1, <2>2, <2>3
  <1>8. x = Append(w, b[e])
    BY <1>4, <1>6, <1>7, SeqEqual
  <1> QED
    BY <1>8 DEF w, x, n

(* Moving the start of a window over a slot drops the first element. *)
LEMMA SpanShrinks ==
    ASSUME NEW b \in Contents, NEW f \in Slots, NEW e \in Slots, f # e
    PROVE  /\ Span(b, f, Dist(f, e)) # <<>>
           /\ Head(Span(b, f, Dist(f, e))) = b[f]
           /\ Tail(Span(b, f, Dist(f, e))) = Span(b, Advance(f), Dist(Advance(f), e))
  <1> DEFINE n == Dist(f, e)
             g == Advance(f)
             w == Span(b, f, n)
             x == Span(b, g, Dist(g, e))
  <1>1. n \in Slots /\ n # 0 /\ Dist(g, e) = n - 1 /\ g \in Slots
    BY DistValue, DistZero, DistShrink, AdvanceValue DEF Slots
  <1>2. n - 1 \in Slots /\ 0 \in Slots
    BY <1>1, NAssumption DEF Slots
  <1> HIDE DEF n
  <1>3. /\ w \in Seq(Values \union {Blank}) /\ Len(w) = n
        /\ \A i \in 1 .. n : w[i] = b[(f + (i - 1)) % N]
    BY <1>1, SpanSeq
  <1>4. /\ x \in Seq(Values \union {Blank}) /\ Len(x) = n - 1
        /\ \A i \in 1 .. n - 1 : x[i] = b[(g + (i - 1)) % N]
    <2>1. x = Span(b, g, n - 1)
      BY <1>1
    <2> HIDE DEF g, x
    <2> QED
      BY <2>1, <1>1, <1>2, SpanSeq
  <1> HIDE DEF w, x
  <1>5. w # <<>>
    BY <1>1, <1>3
  <1>6. /\ Tail(w) \in Seq(Values \union {Blank})
        /\ Len(Tail(w)) = n - 1
        /\ \A i \in 1 .. n - 1 : Tail(w)[i] = w[i + 1]
    BY <1>1, <1>3, <1>5, HeadTailProperties
  <1>7. Head(w) = b[f]
    <2>1. Head(w) = w[1]
      BY <1>3, <1>5
    <2>2. 1 \in 1 .. n
      BY <1>1 DEF Slots
    <2>3. (f + (1 - 1)) % N = f
      <3>1. f + (1 - 1) = f /\ f \in 0 .. N - 1
        BY NAssumption DEF Slots
      <3> QED
        BY <3>1, NAssumption
    <2> QED
      BY <2>1, <2>2, <2>3, <1>3
  <1>8. ASSUME NEW i \in 1 .. n - 1 PROVE Tail(w)[i] = x[i]
    <2>1. i - 1 \in Slots /\ i \in Slots /\ i + 1 \in 1 .. n
      BY <1>1, NAssumption DEF Slots
    <2>2. (g + (i - 1)) % N = (f + i) % N
      <3>1. (g + (i - 1)) % N = IF g + (i - 1) < N THEN g + (i - 1) ELSE g + (i - 1) - N
        BY <1>1, <2>1, SlotAfter
      <3>2. (f + i) % N = IF f + i < N THEN f + i ELSE f + i - N
        BY <2>1, SlotAfter
      <3>3. g = IF f + 1 = N THEN 0 ELSE f + 1
        BY AdvanceValue
      <3> HIDE DEF g
      <3> QED
        BY <3>1, <3>2, <3>3, <2>1, NAssumption DEF Slots
    <2>3. (f + ((i + 1) - 1)) % N = (f + i) % N
      <3>1. (i + 1) - 1 = i
        BY <2>1, NAssumption DEF Slots
      <3> QED
        BY <3>1
    <2>4. Tail(w)[i] = b[(f + ((i + 1) - 1)) % N]
      BY <2>1, <1>3, <1>6
    <2> QED
      BY <2>2, <2>3, <2>4, <1>4
  <1>9. Tail(w) = x
    BY <1>4, <1>6, <1>8, SeqEqual
  <1> QED
    BY <1>5, <1>7, <1>9 DEF w, x, n

(* Writing a slot outside a window leaves the window alone. *)
LEMMA SpanUntouched ==
    ASSUME NEW b \in Contents, NEW f \in Slots, NEW e \in Slots, NEW v
    PROVE  Span([b EXCEPT ![e] = v], f, Dist(f, e)) = Span(b, f, Dist(f, e))
  <1> DEFINE n == Dist(f, e)
  <1>1. n \in Slots /\ n = IF f <= e THEN e - f ELSE e - f + N
    BY DistValue, NAssumption DEF Slots
  <1> HIDE DEF n
  <1>2. ASSUME NEW i \in 1 .. n PROVE (f + (i - 1)) % N \in Slots \ {e}
    <2>1. i - 1 \in Slots /\ i - 1 < n
      BY <1>1, NAssumption DEF Slots
    <2>2. (f + (i - 1)) % N = IF f + (i - 1) < N THEN f + (i - 1) ELSE f + (i - 1) - N
      BY <2>1, SlotAfter
    <2> QED
      BY <1>1, <2>1, <2>2, NAssumption DEF Slots
  <1>3. \A i \in 1 .. n : [b EXCEPT ![e] = v][(f + (i - 1)) % N] = b[(f + (i - 1)) % N]
    BY <1>2 DEF Contents
  <1> QED
    BY <1>3 DEF Span, n

(* The window of the queue never outgrows what the producer knows of.      *)
LEMMA FirstDist ==
    ASSUME IInv
    PROVE  /\ First \in Slots /\ tail \in Slots /\ buf \in Contents
           /\ Dist(First, tail) <= Dist(pHead, tail)
  <1>0. /\ head \in Slots /\ tail \in Slots /\ pHead \in Slots /\ cTail \in Slots
        /\ buf \in Contents /\ TypeOK /\ IndexOrder /\ InsideCall
    BY DEF IInv, TypeOK, Contents
  <1>1. First \in Slots
    BY <1>0, AdvanceValue DEF First
  <1> DEFINE A == Dist(pHead, head)  B == Dist(head, cTail)  C == Dist(cTail, tail)
             D == Dist(pHead, tail)  E == Dist(head, tail)
  <1>2. A \in Nat /\ B \in Nat /\ C \in Nat /\ D \in 0 .. N - 1
    BY <1>0, DistValue
  <1>3. A + B + C = D
    BY <1>0 DEF IndexOrder
  <1>4. B + C <= N - 1
    <2> HIDE DEF A, B, C, D
    <2> QED
      BY <1>2, <1>3, NAssumption
  <1>5. E = B + C
    BY <1>0, <1>4, DistJoin
  <1>6. E <= D
    <2> HIDE DEF A, B, C, D, E
    <2> QED
      BY <1>2, <1>3, <1>5
  <1>7. CASE cpc = "publish"
    <2>1. ~Empty(cTail)
      BY <1>0, <1>7 DEF InsideCall
    <2>2. head # tail
      BY <1>0, <2>1, ConsumerRow
    <2>3. Dist(First, tail) = E - 1
      BY <1>0, <1>7, <2>2, DistShrink DEF First
    <2>4. E \in Int /\ D \in Int
      BY <1>0, <1>2, DistValue, NAssumption
    <2> HIDE DEF E, D
    <2>5. Dist(First, tail) <= D
      BY <2>3, <2>4, <1>6
    <2> QED
      BY <1>0, <1>1, <2>5 DEF D
  <1>8. CASE cpc # "publish"
    BY <1>0, <1>1, <1>6, <1>8 DEF First
  <1> QED
    BY <1>7, <1>8

(* The ring starts as an empty queue. *)
LEMMA InitFifo == Init => Fifo!Init
  <1> SUFFICES ASSUME Init PROVE Fifo!Init
    OBVIOUS
  <1>1. IInv
    BY InitIInv
  <1>2. First = 0 /\ tail = 0 /\ 0 \in Slots
    BY NAssumption DEF Init, First, Slots
  <1>3. Dist(First, tail) = 0
    BY <1>2, DistZero
  <1>4. Queue \in Seq(Values \union {Blank}) /\ Len(Queue) = 0
    BY <1>1, <1>2, <1>3, FirstDist, SpanSeq, QueueIsSpan
  <1>5. Queue = <<>>
    BY <1>4, EmptySeq
  <1> QED
    BY <1>5 DEF Init, Fifo!Init

(* The store of push() shows in no row of the queue. *)
LEMMA StoreHidden ==
    ASSUME IInv, PushStore PROVE UNCHANGED Fifo!vars
  <1>0. /\ First \in Slots /\ tail \in Slots /\ head \in Slots /\ buf \in Contents
        /\ Dist(First, tail) <= Dist(pHead, tail)
        /\ TypeOK /\ IndexOrder /\ InsideCall
    BY FirstDist DEF IInv, TypeOK
  <1>1. /\ buf' = [buf EXCEPT ![tail] = pVal]
        /\ tail' = tail /\ First' = First /\ out' = out
    BY DEF PushStore, cVars, First
  <1>2. Span(buf', First, Dist(First, tail)) = Span(buf, First, Dist(First, tail))
    BY <1>0, <1>1, SpanUntouched
  <1>3. Queue' = Queue
    BY <1>1, <1>2 DEF Queue, Span
  <1> QED
    BY <1>1, <1>3 DEF Fifo!vars

(* The release store of push() is the push of the queue. *)
LEMMA PublishPushes ==
    ASSUME IInv, PushPublish PROVE pVal \in Values /\ Fifo!Push(pVal)
  <1>0. /\ First \in Slots /\ tail \in Slots /\ head \in Slots /\ buf \in Contents
        /\ Dist(First, tail) <= Dist(pHead, tail)
        /\ TypeOK /\ IndexOrder /\ InsideCall
    BY FirstDist DEF IInv, TypeOK
  <1>1. /\ buf' = buf /\ First' = First /\ out' = out /\ tail' = Advance(tail)
        /\ ppc = "publish"
    BY DEF PushPublish, cVars, First
  <1>2. ~Full(pHead) /\ pVal \in Values /\ buf[tail] = pVal
    BY <1>0, <1>1 DEF InsideCall
  <1>3. Dist(First, tail) < N - 1 /\ Dist(First, tail) \in Slots
    <2>1. Dist(pHead, tail) # N - 1
      BY <1>0, <1>2, DistFull DEF Full, TypeOK
    <2>2. Dist(pHead, tail) \in 0 .. N - 1 /\ Dist(First, tail) \in 0 .. N - 1
      BY <1>0, DistValue DEF TypeOK
    <2> QED
      BY <1>0, <2>1, <2>2, NAssumption DEF Slots
  <1>4. Dist(First, Advance(tail)) = Dist(First, tail) + 1
    <2>1. Advance(tail) # First
      BY <1>0, <1>3, DistFull, NAssumption DEF Slots
    <2> QED
      BY <1>0, <2>1, DistGrow
  <1>5. Span(buf, First, Dist(First, tail) + 1)
          = Append(Span(buf, First, Dist(First, tail)), buf[tail])
    BY <1>0, <1>3, SpanGrows
  <1>6. Queue' = Append(Queue, pVal)
    <2>1. Queue' = Span(buf, First, Dist(First, Advance(tail)))
      BY <1>1 DEF Queue, Span
    <2> QED
      BY <2>1, <1>2, <1>4, <1>5, QueueIsSpan
  <1>7. Len(Queue) < N - 1
    <2>1. Len(Queue) = Dist(First, tail)
      BY <1>0, <1>3, SpanSeq, QueueIsSpan
    <2> QED
      BY <2>1, <1>3
  <1>8. Fifo!Push(pVal)
    BY <1>1, <1>6, <1>7 DEF Fifo!Push
  <1> QED
    BY <1>2, <1>8

(* The copy of pop() is the pop of the queue. *)
LEMMA ReadPops ==
    ASSUME IInv, PopRead PROVE Fifo!Pop
  <1>0. /\ First \in Slots /\ tail \in Slots /\ head \in Slots /\ buf \in Contents
        /\ Dist(First, tail) <= Dist(pHead, tail)
        /\ TypeOK /\ IndexOrder /\ InsideCall
    BY FirstDist DEF IInv, TypeOK
  <1>1. /\ buf' = buf /\ tail' = tail /\ out' = buf[head]
        /\ First = head /\ First' = Advance(head) /\ cpc = "read"
    BY DEF PopRead, pVars, First
  <1>2. head # tail
    <2>1. ~Empty(cTail)
      BY <1>0, <1>1 DEF InsideCall
    <2> QED
      BY <1>0, <2>1, ConsumerRow
  <1>3. /\ Span(buf, head, Dist(head, tail)) # <<>>
        /\ Head(Span(buf, head, Dist(head, tail))) = buf[head]
        /\ Tail(Span(buf, head, Dist(head, tail)))
             = Span(buf, Advance(head), Dist(Advance(head), tail))
    BY <1>0, <1>2, SpanShrinks
  <1>4. Queue = Span(buf, head, Dist(head, tail))
    BY <1>1, QueueIsSpan
  <1>5. Queue' = Span(buf, Advance(head), Dist(Advance(head), tail))
    BY <1>1 DEF Queue, Span
  <1> QED
    BY <1>1, <1>3, <1>4, <1>5 DEF Fifo!Pop

(* Nothing else shows. *)
LEMMA RestHidden ==
    ASSUME \/ PushFull \/ (\E v \in Values : PushAccept(v)) \/ ProducerEmpty
           \/ PopEmpty \/ PopAccept \/ PopPublish \/ ConsumerEmpty \/ UNCHANGED vars
    PROVE  UNCHANGED Fifo!vars
  <1>1. UNCHANGED <<buf, tail, out>> /\ First' = First
    BY DEF PushFull, PushAccept, ProducerEmpty, PopEmpty, PopAccept, PopPublish,
       ConsumerEmpty, vars, pVars, cVars, First
  <1> QED
    BY <1>1 DEF Fifo!vars, Queue

(* Every step of the ring is a step of the queue or changes nothing of it. *)
LEMMA NextFifo == IInv /\ [Next]_vars => [Fifo!Next]_(Fifo!vars)
  BY StoreHidden, PublishPushes, ReadPops, RestHidden
     DEF Next, Producer, Consumer, Fifo!Next

(* The ring is a first-in first-out queue of N-1 rows, whatever N and      *)
(* whatever the cores' stale views: rows accepted by push() leave through  *)
(* pop() once each, whole, and in order.                                   *)
THEOREM ImplementsFifo == Spec => IsFifo
  <1>1. Spec => IsFifo
    BY IInvHolds, InitFifo, NextFifo, PTL DEF Spec, IsFifo, Fifo!Spec
  <1> QED
    BY <1>1
(* kHoldWindowRows is at least one. *)
LEMMA WindowSize == W \in Nat \ {0}
  BY WindowAssumption DEF Window!SizeAssumption

(* The slot d places after a, without the modulus. *)
LEMMA WindowSlotAfter ==
    ASSUME NEW a \in Window!Slots, NEW d \in 0 .. W
    PROVE  /\ (a + d) % W = IF a + d < W THEN a + d ELSE a + d - W
           /\ (a + d) % W \in Window!Slots
  BY WindowSize DEF Window!Slots

(* The ring starts empty. *)
LEMMA InitWindow ==
    Window!Init => Window!TypeOK
  BY WindowSize DEF Window!Init, Window!TypeOK, Window!Slots

(* push() and clear() keep index and count in step. *)
LEMMA NextWindow ==
    Window!TypeOK /\ [Window!Next]_(Window!vars) => Window!TypeOK'
  <1> SUFFICES ASSUME Window!TypeOK, [Window!Next]_(Window!vars) PROVE Window!TypeOK'
    OBVIOUS
  <1>1. ASSUME NEW r \in Values, Window!Push(r) PROVE Window!TypeOK'
    <2>1. (whead + 1) % W = (IF whead + 1 < W THEN whead + 1 ELSE whead + 1 - W)
          /\ (whead + 1) % W \in Window!Slots
      BY WindowSize, WindowSlotAfter, SMTT(30) DEF Window!TypeOK
    <2> QED
      BY <1>1, <2>1, WindowSize DEF Window!TypeOK, Window!Push, Window!Slots
  <1>2. CASE Window!Clear
    BY <1>2, WindowSize DEF Window!TypeOK, Window!Clear, Window!Slots
  <1>3. CASE UNCHANGED Window!vars
    BY <1>3 DEF Window!TypeOK, Window!vars
  <1> QED
    BY <1>1, <1>2, <1>3 DEF Window!Next

(* The indices stay on the ring, and head is behind the rows until the     *)
(* ring is full (hold_ring.hpp push and clear).                            *)
THEOREM WindowTypeCorrect ==
    Window!Spec => []Window!TypeOK
  BY InitWindow, NextWindow, PTL DEF Window!Spec

-----------------------------------------------------------------------------
(* What a flush visits is a sequence of rows. *)
LEMMA ChronologicalSeq ==
    ASSUME Window!TypeOK
    PROVE  /\ Window!Chronological \in Seq(Values \union {Blank})
           /\ Len(Window!Chronological) = wcount
           /\ \A k \in 1 .. wcount : Window!Chronological[k] = wbuf[(Window!Oldest + k - 1) % W]
  <1>1. Window!Oldest \in Window!Slots
    BY WindowSize DEF Window!TypeOK, Window!Oldest, Window!Slots
  <1>2. \A k \in 1 .. wcount : (Window!Oldest + k - 1) % W \in Window!Slots
    <2> SUFFICES ASSUME NEW k \in 1 .. wcount PROVE (Window!Oldest + k - 1) % W \in Window!Slots
      OBVIOUS
    <2>1. k - 1 \in 0 .. W /\ Window!Oldest + (k - 1) = Window!Oldest + k - 1
      BY <1>1, WindowSize DEF Window!TypeOK, Window!Slots
    <2>2. (Window!Oldest + (k - 1)) % W \in Window!Slots
      BY <1>1, <2>1, WindowSlotAfter
    <2> QED
      BY <2>1, <2>2
  <1>3. \A k \in 1 .. wcount : wbuf[(Window!Oldest + k - 1) % W] \in Values \union {Blank}
    BY <1>2 DEF Window!TypeOK
  <1>4. wcount \in Nat
    BY WindowSize DEF Window!TypeOK
  <1>5. Window!Chronological = [k \in 1 .. wcount |-> wbuf[(Window!Oldest + k - 1) % W]]
    BY DEF Window!Chronological
  <1> QED
    BY <1>3, <1>4, <1>5

(* push() drops the oldest row when the ring is full, and only then. *)
LEMMA PushKeeps ==
    ASSUME Window!TypeOK, Window!TypeOK', NEW r \in Values, Window!Push(r)
    PROVE  Window!Kept!Keep(r)
  <1> DEFINE old == Window!Chronological
             kept == IF Len(old) < W THEN old ELSE Tail(old)
             new == Window!Chronological'
  <1>1. /\ old \in Seq(Values \union {Blank}) /\ Len(old) = wcount
        /\ \A k \in 1 .. wcount : old[k] = wbuf[(Window!Oldest + k - 1) % W]
    BY ChronologicalSeq
  <1>2. /\ new \in Seq((Values \union {Blank})) /\ Len(new) = wcount'
        /\ \A k \in 1 .. wcount' : new[k] = wbuf'[((Window!Oldest') + k - 1) % W]
    <2>1. Window!Chronological' = [k \in 1 .. wcount' |-> wbuf'[((Window!Oldest') + k - 1) % W]]
      BY DEF Window!Chronological
    <2>2. wcount' \in 0 .. W /\ wbuf' \in [Window!Slots -> Values \union {Blank}] /\ whead' \in Window!Slots
      BY DEF Window!TypeOK
    <2>3. Window!Oldest' \in Window!Slots
      BY <2>2, WindowSize DEF Window!Oldest, Window!Slots
    <2>4. \A k \in 1 .. wcount' : ((Window!Oldest') + k - 1) % W \in Window!Slots
      <3> SUFFICES ASSUME NEW k \in 1 .. wcount' PROVE ((Window!Oldest') + k - 1) % W \in Window!Slots
        OBVIOUS
      <3>1. k - 1 \in 0 .. W /\ (Window!Oldest') + (k - 1) = (Window!Oldest') + k - 1
        BY <2>2, <2>3, WindowSize DEF Window!Slots
      <3>2. ((Window!Oldest') + (k - 1)) % W \in Window!Slots
        BY <2>3, <3>1, WindowSlotAfter
      <3> QED
        BY <3>1, <3>2
    <2>5. \A k \in 1 .. wcount' : wbuf'[((Window!Oldest') + k - 1) % W] \in Values \union {Blank}
      BY <2>2, <2>4
    <2>6. wcount' \in Nat
      BY <2>2, WindowSize
    <2> QED
      BY <2>1, <2>5, <2>6
  <1>3. /\ wbuf' = [wbuf EXCEPT ![whead] = r]
        /\ whead' = (IF whead + 1 < W THEN whead + 1 ELSE whead + 1 - W)
        /\ wcount' = (IF wcount < W THEN wcount + 1 ELSE wcount)
        /\ whead \in Window!Slots /\ wcount \in 0 .. W /\ (wcount < W => whead = wcount)
        /\ wbuf \in [Window!Slots -> Values \union {Blank}]
    BY WindowSize, WindowSlotAfter DEF Window!TypeOK, Window!Push
  <1>4. Len(kept) = wcount' - 1 /\ kept \in Seq(Values \union {Blank})
    <2>1. CASE wcount < W
      BY <1>1, <1>3, <2>1, WindowSize
    <2>2. CASE wcount = W
      <3>1. old # <<>> /\ Len(old) = W
        BY <1>1, <2>2, WindowSize
      <3> HIDE DEF old
      <3> QED
        BY <1>1, <1>3, <2>2, <3>1, WindowSize
    <2> QED
      BY <1>3, <2>1, <2>2, WindowSize
  <1>5. \A k \in 1 .. wcount' - 1 : new[k] = kept[k]
    <2> SUFFICES ASSUME NEW k \in 1 .. wcount' - 1 PROVE new[k] = kept[k]
      OBVIOUS
    <2>0. new[k] = wbuf'[((Window!Oldest') + k - 1) % W]
      BY <1>2, <1>3
    <2>1. CASE wcount < W
      <3>1. Window!Oldest = 0 /\ whead = wcount /\ kept[k] = wbuf[(0 + k - 1) % W]
        <4>1. Window!Oldest = 0 /\ k \in 1 .. wcount
          BY <1>3, <2>1 DEF Window!Oldest
        <4>2. kept = old
          BY <1>1, <2>1
        <4> HIDE DEF old, kept
        <4> QED
          BY <1>1, <1>3, <2>1, <4>1, <4>2
      <3>2. Window!Oldest' = 0
        BY <1>3, <2>1 DEF Window!Oldest, Window!Slots
      <3>3. (0 + k - 1) % W = k - 1 /\ k - 1 \in Window!Slots /\ k - 1 # whead
        BY <1>3, <2>1, WindowSize DEF Window!Slots
      <3>4. wbuf'[k - 1] = wbuf[k - 1]
        BY <1>3, <3>3
      <3> HIDE DEF old, new, kept
      <3> QED
        BY <2>0, <3>1, <3>2, <3>3, <3>4
    <2>2. CASE wcount = W
      <3>1. Window!Oldest = whead /\ Window!Oldest' = whead' /\ k \in 1 .. W - 1 /\ k + 1 \in 1 .. wcount
        BY <1>3, <2>2 DEF Window!Oldest
      <3>0. k \in 0 .. W
        BY <3>1, WindowSize
      <3>2. kept[k] = old[k + 1]
        <4>1. kept = Tail(old)
          BY <1>1, <2>2
        <4> HIDE DEF old, kept
        <4> QED
          BY <1>1, <2>2, <3>1, <4>1, WindowSize
      <3>3. old[k + 1] = wbuf[(whead + k) % W]
        <4>1. old[k + 1] = wbuf[(Window!Oldest + (k + 1) - 1) % W]
          BY <1>1, <3>1
        <4>2. Window!Oldest + (k + 1) - 1 = whead + k
          BY <1>3, <3>1 DEF Window!Slots
        <4> QED
          BY <4>1, <4>2
      <3>4. (whead' + k - 1) % W = (whead + k) % W
        <4>1. (whead + k) % W = IF whead + k < W THEN whead + k ELSE whead + k - W
          BY <1>3, <3>0, WindowSlotAfter
        <4>2. whead' \in Window!Slots /\ k - 1 \in 0 .. W /\ whead' + (k - 1) = whead' + k - 1
          BY <1>3, <3>1, WindowSize DEF Window!Slots
        <4>3. (whead' + (k - 1)) % W
                = IF whead' + (k - 1) < W THEN whead' + (k - 1) ELSE whead' + (k - 1) - W
          BY <4>2, WindowSlotAfter
        <4> QED
          BY <1>3, <3>1, <4>1, <4>2, <4>3, WindowSize DEF Window!Slots
      <3>5. (whead + k) % W \in Window!Slots /\ (whead + k) % W # whead
        <4>1. /\ (whead + k) % W = IF whead + k < W THEN whead + k ELSE whead + k - W
              /\ (whead + k) % W \in Window!Slots
          BY <1>3, <3>0, WindowSlotAfter
        <4> QED
          BY <1>3, <3>1, <4>1, WindowSize DEF Window!Slots
      <3>6. wbuf'[(whead + k) % W] = wbuf[(whead + k) % W]
        BY <1>3, <3>5
      <3> HIDE DEF old, new, kept
      <3> QED
        BY <2>0, <3>1, <3>2, <3>3, <3>4, <3>6
    <2> QED
      BY <1>3, <2>1, <2>2, WindowSize
  <1>6. wcount' >= 1 /\ new[wcount'] = r
    <2>0. wcount' \in 1 .. W
      BY <1>3, WindowSize
    <2>1. new[wcount'] = wbuf'[((Window!Oldest') + wcount' - 1) % W]
      BY <1>2, <2>0
    <2>2. ((Window!Oldest') + wcount' - 1) % W = whead
      <3>1. CASE wcount < W
        <4>1. Window!Oldest' = 0 /\ wcount' - 1 = whead
          BY <1>3, <3>1 DEF Window!Oldest, Window!Slots
        <4> QED
          BY <1>3, <4>1, WindowSize DEF Window!Slots
      <3>2. CASE wcount = W
        <4>1. Window!Oldest' = whead' /\ wcount' = W /\ whead' \in Window!Slots
          BY <1>3, <3>2, WindowSize DEF Window!Oldest, Window!Slots
        <4>2. W - 1 \in 0 .. W /\ whead' + (W - 1) = whead' + W - 1
          BY <4>1, WindowSize DEF Window!Slots
        <4>3. (whead' + (W - 1)) % W
                = IF whead' + (W - 1) < W THEN whead' + (W - 1) ELSE whead' + (W - 1) - W
          BY <4>1, <4>2, WindowSlotAfter
        <4> QED
          BY <1>3, <4>1, <4>2, <4>3, WindowSize DEF Window!Slots
      <3> QED
        BY <1>3, <3>1, <3>2, WindowSize
    <2>3. wbuf'[whead] = r
      BY <1>3
    <2> QED
      BY <2>0, <2>1, <2>2, <2>3
  <1>7. new = Append(kept, r)
    <2>0. PICK c : c = wcount'
      OBVIOUS
    <2> HIDE DEF old, new, kept
    <2>1. c \in 1 .. W /\ r \in Values \union {Blank}
      BY <1>3, <2>0, WindowSize
    <2>2. Len(kept) = c - 1 /\ kept \in Seq(Values \union {Blank})
      BY <1>4, <2>0
    <2>3. Append(kept, r) \in Seq(Values \union {Blank}) /\ Len(Append(kept, r)) = c
      BY <2>1, <2>2, WindowSize
    <2>4. \A k \in 1 .. c - 1 : new[k] = kept[k]
      BY <1>5, <2>0
    <2>5. new[c] = r
      BY <1>6, <2>0
    <2>6. \A k \in 1 .. c : new[k] = Append(kept, r)[k]
      BY <2>1, <2>2, <2>4, <2>5, WindowSize
    <2>7. new \in Seq(Values \union {Blank}) /\ Len(new) = c
      BY <1>2, <2>0
    <2> QED
      BY <2>3, <2>6, <2>7, SeqEqual
  <1> QED
    BY <1>7 DEF Window!Kept!Keep

(* An empty ring is an empty window. *)
LEMMA InitKept ==
    Window!Init => Window!Kept!Init
  <1> SUFFICES ASSUME Window!Init PROVE Window!Kept!Init
    OBVIOUS
  <1>1. Window!TypeOK /\ wcount = 0
    BY InitWindow DEF Window!Init
  <1>2. Window!Chronological \in Seq(Values \union {Blank}) /\ Len(Window!Chronological) = 0
    BY <1>1, ChronologicalSeq
  <1>3. Window!Chronological = <<>>
    BY <1>2, EmptySeq
  <1> QED
    BY <1>3 DEF Window!Kept!Init

(* clear() empties the window. *)
LEMMA ClearForgets ==
    ASSUME Window!Clear PROVE Window!Kept!Forget
  <1>1. Window!Chronological' = [k \in 1 .. wcount' |-> wbuf'[((Window!Oldest') + k - 1) % W]]
        /\ wcount' = 0
    BY DEF Window!Chronological, Window!Clear
  <1>2. Window!Chronological' = <<>>
    BY <1>1
  <1> QED
    BY <1>2 DEF Window!Kept!Forget

(* Every step of the ring is a step of the window. *)
LEMMA NextKept ==
    Window!TypeOK /\ Window!TypeOK' /\ [Window!Next]_(Window!vars) => [Window!Kept!Next]_(Window!Chronological)
  <1> SUFFICES ASSUME Window!TypeOK, Window!TypeOK', [Window!Next]_(Window!vars) PROVE [Window!Kept!Next]_(Window!Chronological)
    OBVIOUS
  <1>1. ASSUME NEW r \in Values, Window!Push(r) PROVE Window!Kept!Next
    BY <1>1, PushKeeps DEF Window!Kept!Next
  <1>2. CASE Window!Clear
    BY <1>2, ClearForgets DEF Window!Kept!Next
  <1>3. CASE UNCHANGED Window!vars
    BY <1>3 DEF Window!vars, Window!Chronological, Window!Oldest
  <1> QED
    BY <1>1, <1>2, <1>3 DEF Window!Next

(* For every window size the ring is the window of the last N rows: none   *)
(* is lost early, none is kept too long, and the order is that of arrival. *)
THEOREM KeepsLastRows ==
    Window!Spec => Window!IsLastRows
  <1>1. Window!Spec => Window!IsLastRows
    BY WindowTypeCorrect, InitKept, NextKept, PTL DEF Window!Spec, Window!IsLastRows, Window!Kept!Spec
  <1> QED
    BY <1>1

-----------------------------------------------------------------------------
(* The whole path.  A row in core 0's hand comes before those in the ring. *)
Hand == IF cpc = "publish" \/ inHand THEN <<out>> ELSE <<>>

(* The inductive invariant: that of each part, and only rows that were     *)
(* pushed are on their way.                                                *)
PathInv ==
    /\ IInv /\ Window!TypeOK
    /\ inHand \in BOOLEAN /\ (inHand => cpc = "idle")
    /\ InFlight \in Seq(Values)

(* The variables of PathSpec. *)
pathVars == <<vars, winVars, inHand>>

(* A row in front of others, taken away or not. *)
LEMMA InFront ==
    ASSUME NEW S, NEW x \in S, NEW q \in Seq(S)
    PROVE  /\ <<x>> \o q \in Seq(S) /\ <<x>> \o q # <<>>
           /\ Len(<<x>> \o q) = Len(q) + 1
           /\ Head(<<x>> \o q) = x /\ Tail(<<x>> \o q) = q
           /\ q # <<>> => <<Head(q)>> \o Tail(q) = q
  <1>0. Len(q) \in Nat /\ <<x>> \in Seq(S) /\ Len(<<x>>) = 1 /\ <<x>>[1] = x
    OBVIOUS
  <1> DEFINE y == <<x>> \o q
  <1>1. /\ y \in Seq(S) /\ Len(y) = Len(q) + 1
        /\ \A i \in 1 .. Len(q) + 1 : y[i] = IF i <= 1 THEN x ELSE q[i - 1]
    <2>1. /\ y \in Seq(S) /\ Len(y) = Len(<<x>>) + Len(q)
          /\ \A i \in 1 .. Len(<<x>>) + Len(q) :
                y[i] = IF i <= Len(<<x>>) THEN <<x>>[i] ELSE q[i - Len(<<x>>)]
      BY <1>0, ConcatProperties
    <2> HIDE DEF y
    <2> QED
      BY <1>0, <2>1
  <1> HIDE DEF y
  <1>2. y # <<>> /\ Head(y) = x
    BY <1>0, <1>1
  <1>3. Tail(y) = q
    <2>1. /\ Tail(y) \in Seq(S) /\ Len(Tail(y)) = Len(y) - 1
          /\ \A i \in 1 .. Len(Tail(y)) : Tail(y)[i] = y[i + 1]
      BY <1>1, <1>2, HeadTailProperties
    <2>2. \A i \in 1 .. Len(Tail(y)) : Tail(y)[i] = q[i]
      BY <1>0, <1>1, <2>1
    <2>3. Len(Tail(y)) = Len(q)
      BY <1>0, <1>1, <2>1
    <2> QED
      BY <2>1, <2>2, <2>3, SeqEqual
  <1>4. ASSUME q # <<>> PROVE <<Head(q)>> \o Tail(q) = q
    <2>1. /\ Head(q) \in S /\ Tail(q) \in Seq(S) /\ Len(Tail(q)) = Len(q) - 1
          /\ \A i \in 1 .. Len(Tail(q)) : Tail(q)[i] = q[i + 1]
      BY <1>4, HeadTailProperties
    <2>2. Len(q) \in 1 .. Len(q) /\ Head(q) = q[1]
      BY <1>0, <1>4
    <2>3. <<Head(q)>> \in Seq(S) /\ Len(<<Head(q)>>) = 1 /\ <<Head(q)>>[1] = Head(q)
      BY <2>1
    <2> DEFINE z == <<Head(q)>> \o Tail(q)
    <2>4. /\ z \in Seq(S) /\ Len(z) = Len(<<Head(q)>>) + Len(Tail(q))
          /\ \A i \in 1 .. Len(<<Head(q)>>) + Len(Tail(q)) :
                z[i] = IF i <= Len(<<Head(q)>>) THEN <<Head(q)>>[i]
                       ELSE Tail(q)[i - Len(<<Head(q)>>)]
      BY <2>1, <2>3, ConcatProperties
    <2> HIDE DEF z
    <2>5. Len(z) = Len(q) /\ \A i \in 1 .. Len(z) : z[i] = q[i]
      BY <1>0, <2>1, <2>2, <2>3, <2>4
    <2>6. z = q
      BY <2>4, <2>5, SeqEqual
    <2> QED
      BY <2>6 DEF z
  <1> QED
    BY <1>1, <1>2, <1>3, <1>4 DEF y

(* The rows in the ring and in core 0's hand are rows. *)
LEMMA HandAndQueue ==
    ASSUME PathInv
    PROVE  /\ InFlight = Hand \o Queue /\ Queue \in Seq(Values \union {Blank})
           /\ Hand = <<>> => InFlight = Queue
           /\ Hand # <<>> => /\ Hand = <<out>> /\ out \in Values /\ Queue \in Seq(Values)
                             /\ InFlight = <<out>> \o Queue
  <1>1. InFlight = Hand \o Queue
    BY DEF InFlight, Hand
  <1>2. Queue \in Seq(Values \union {Blank}) /\ out \in Values \union {Blank}
    <2>1. IInv
      BY DEF PathInv
    <2>2. First \in Slots /\ tail \in Slots /\ buf \in Contents /\ out \in Values \union {Blank}
      BY <2>1, FirstDist DEF IInv, TypeOK
    <2>3. Dist(First, tail) \in Slots
      BY <2>2, DistValue DEF Slots
    <2> QED
      BY <2>2, <2>3, SpanSeq, QueueIsSpan
  <1>3. Hand = <<>> => InFlight = Queue
    BY <1>1, <1>2, ConcatEmptySeq
  <1>4. ASSUME Hand # <<>>
        PROVE  Hand = <<out>> /\ out \in Values /\ Queue \in Seq(Values)
    <2>1. Hand = <<out>> /\ InFlight = <<out>> \o Queue
      BY <1>1, <1>4 DEF Hand
    <2>2. /\ Head(InFlight) = out /\ Tail(InFlight) = Queue /\ InFlight # <<>>
      BY <1>2, <2>1, InFront
    <2>3. InFlight \in Seq(Values)
      BY DEF PathInv
    <2>4. Head(InFlight) \in Values /\ Tail(InFlight) \in Seq(Values)
      BY <2>2, <2>3, HeadTailProperties
    <2> QED
      BY <2>1, <2>2, <2>4
  <1> QED
    BY <1>1, <1>2, <1>3, <1>4

(* Every step of the path is a step of the ring between the cores, if any. *)
LEMMA PathIsNext == [PathNext]_pathVars => [Next]_vars
  BY DEF PathNext, pathVars, Core1, PopBegin, PopCopy, PopReturn, Store, BeginRun,
     Next, Consumer, Producer

(* Only a row in hand is stored, and it is a row: the window sees pushes   *)
(* and clears.                                                             *)
LEMMA PathIsWindow ==
    ASSUME PathInv, [PathNext]_pathVars
    PROVE  [Window!Next]_(Window!vars) /\ (Store => out \in Values /\ Window!Push(out))
  <1>1. CASE Store
    <2>1. Hand # <<>> /\ Window!Push(out)
      BY <1>1 DEF Store, Hand
    <2>2. out \in Values
      BY <2>1, HandAndQueue
    <2> QED
      BY <2>1, <2>2 DEF Window!Next
  <1>2. CASE BeginRun
    BY <1>2 DEF BeginRun, Window!Next, Store
  <1>3. CASE ~Store /\ ~BeginRun
    <2>1. UNCHANGED winVars
      BY <1>3 DEF PathNext, pathVars, Core1, PopBegin, PopCopy, PopReturn
    <2> QED
      BY <1>3, <2>1 DEF winVars, Window!vars
  <1> QED
    BY <1>1, <1>2, <1>3

(* A row sent goes behind those on their way. *)
LEMMA BehindHand ==
    ASSUME NEW S, NEW x \in S, NEW q \in Seq(S), NEW v \in S
    PROVE  <<x>> \o Append(q, v) = Append(<<x>> \o q, v)
  <1>1. <<x>> \in Seq(S) /\ <<v>> \in Seq(S) /\ <<x>> \o q \in Seq(S)
    BY InFront
  <1>2. /\ Append(q, v) = q \o <<v>>
        /\ Append(<<x>> \o q, v) = (<<x>> \o q) \o <<v>>
    BY <1>1, AppendIsConcat
  <1> QED
    BY <1>1, <1>2, ConcatAssociative

(* Core 1 sends a row when it publishes it, and does nothing else to the   *)
(* rows on their way.                                                      *)
LEMMA Core1Sends ==
    ASSUME PathInv, Core1
    PROVE  \/ \E v \in Values : Stream!Send(v)
           \/ UNCHANGED <<Window!Chronological, InFlight>>
  <1>1. Producer /\ UNCHANGED <<winVars, inHand>>
    BY DEF Core1
  <1>2. cpc' = cpc /\ out' = out
    BY <1>1 DEF Producer, PushFull, PushAccept, PushStore, PushPublish, ProducerEmpty, cVars
  <1>3. Hand' = Hand /\ UNCHANGED Window!Chronological
    BY <1>1, <1>2 DEF Hand, winVars, Window!Chronological, Window!Oldest
  <1>4. CASE PushPublish
    <2>1. pVal \in Values /\ Fifo!Push(pVal)
      BY <1>4, PublishPushes DEF PathInv
    <2>2. Len(Queue) < N - 1 /\ Queue' = Append(Queue, pVal)
      BY <2>1 DEF Fifo!Push
    <2>3. InFlight' = Hand \o Append(Queue, pVal)
      BY <1>3, <2>2 DEF InFlight, Hand
    <2>4. Len(InFlight) < N /\ InFlight' = Append(InFlight, pVal)
      <3>1. Len(Queue) \in Nat
        BY HandAndQueue
      <3>2. CASE Hand = <<>>
        <4>1. Append(Queue, pVal) \in Seq(Values \union {Blank})
          BY <2>1, HandAndQueue, AppendProperties
        <4>2. InFlight' = Append(Queue, pVal)
          BY <2>3, <3>2, <4>1, ConcatEmptySeq
        <4>3. InFlight = Queue
          BY <3>2, HandAndQueue
        <4> QED
          BY <2>2, <3>1, <4>2, <4>3, NAssumption
      <3>3. CASE Hand # <<>>
        <4>1. /\ Hand = <<out>> /\ out \in Values /\ Queue \in Seq(Values)
              /\ InFlight = <<out>> \o Queue
          BY <3>3, HandAndQueue
        <4>2. Len(InFlight) = Len(Queue) + 1
          BY <4>1, InFront
        <4>3. InFlight' = Append(InFlight, pVal)
          BY <2>1, <2>3, <4>1, BehindHand
        <4> QED
          BY <2>2, <3>1, <4>2, <4>3, NAssumption
      <3> QED
        BY <3>2, <3>3
    <2> QED
      BY <1>3, <2>1, <2>4 DEF Stream!Send
  <1>5. CASE ~PushPublish
    <2>1. UNCHANGED Fifo!vars
      <3>1. CASE PushStore
        BY <3>1, StoreHidden DEF PathInv
      <3>2. CASE ~PushStore
        BY <1>1, <1>5, <3>2, RestHidden DEF Producer
      <3> QED
        BY <3>1, <3>2
    <2>2. Queue' = Queue
      BY <2>1 DEF Fifo!vars
    <2>3. InFlight' = InFlight
      BY <1>3, <2>2 DEF InFlight, Hand
    <2> QED
      BY <1>3, <2>3
  <1> QED
    BY <1>4, <1>5

(* pop() takes the row in front into core 0's hand: it stays in front. *)
LEMMA PopKeepsFlight ==
    ASSUME PathInv, PopBegin \/ PopCopy \/ PopReturn
    PROVE  UNCHANGED <<Window!Chronological, InFlight>>
  <1>1. UNCHANGED Window!Chronological
    BY DEF PopBegin, PopCopy, PopReturn, winVars, Window!Chronological, Window!Oldest
  <1>2. CASE PopBegin
    <2>1. ~inHand /\ inHand' = inHand /\ (PopEmpty \/ PopAccept \/ ConsumerEmpty)
      BY <1>2 DEF PopBegin
    <2>2. UNCHANGED Fifo!vars
      BY <2>1, RestHidden
    <2>3. cpc # "publish" /\ cpc' # "publish" /\ ~inHand'
      BY <2>1 DEF PopEmpty, PopAccept, ConsumerEmpty
    <2> QED
      BY <1>1, <2>1, <2>2, <2>3 DEF InFlight, Fifo!vars
  <1>3. CASE PopCopy
    <2>1. PopRead /\ cpc = "read" /\ cpc' = "publish"
      BY <1>3 DEF PopCopy, PopRead
    <2>2. Hand = <<>>
      BY <2>1 DEF Hand, PathInv
    <2>3. Fifo!Pop
      BY <2>1, ReadPops DEF PathInv
    <2>4. Queue # <<>> /\ out' = Head(Queue) /\ Queue' = Tail(Queue)
      BY <2>3 DEF Fifo!Pop
    <2>5. InFlight' = <<Head(Queue)>> \o Tail(Queue)
      BY <2>1, <2>4 DEF InFlight
    <2>6. InFlight = Queue /\ Queue \in Seq(Values \union {Blank})
      BY <2>2, HandAndQueue
    <2>7. Blank \in Values \union {Blank}
      OBVIOUS
    <2>8. <<Head(Queue)>> \o Tail(Queue) = Queue
      BY <2>4, <2>6, <2>7, InFront
    <2> QED
      BY <1>1, <2>5, <2>6, <2>8
  <1>4. CASE PopReturn
    <2>1. PopPublish /\ cpc = "publish" /\ inHand' = TRUE
      BY <1>4 DEF PopReturn, PopPublish
    <2>2. UNCHANGED Fifo!vars
      BY <2>1, RestHidden
    <2> QED
      BY <1>1, <2>1, <2>2 DEF InFlight, Fifo!vars
  <1> QED
    BY <1>2, <1>3, <1>4

(* The row in hand arrives when it is pushed into the window. *)
LEMMA StoreArrives ==
    ASSUME PathInv, Window!TypeOK', Store
    PROVE  Stream!Arrive
  <1>1. Hand # <<>> /\ Window!Push(out) /\ inHand' = FALSE /\ UNCHANGED vars /\ cpc = "idle"
    BY DEF Store, Hand, PathInv
  <1>2. /\ out \in Values /\ Queue \in Seq(Values)
        /\ InFlight = <<out>> \o Queue
    BY <1>1, HandAndQueue
  <1>3. InFlight # <<>> /\ Head(InFlight) = out /\ Tail(InFlight) = Queue
    BY <1>2, InFront
  <1>4. Window!Kept!Keep(out)
    BY <1>1, <1>2, PushKeeps DEF PathInv
  <1>5. InFlight' = Queue
    <2>1. Queue' = Queue /\ cpc' = "idle" /\ out' = out
      BY <1>1 DEF vars, pVars, cVars, Queue, First
    <2>2. InFlight' = <<>> \o Queue
      BY <1>1, <2>1 DEF InFlight
    <2> QED
      BY <1>2, <2>2, ConcatEmptySeq
  <1> QED
    BY <1>3, <1>4, <1>5 DEF Stream!Arrive, Window!Kept!Keep

(* Clearing the window takes nothing from the rows on their way. *)
LEMMA BeginRunForgets ==
    ASSUME BeginRun
    PROVE  Stream!Forget
  <1>1. Window!Clear /\ UNCHANGED <<vars, inHand>>
    BY DEF BeginRun
  <1>2. Window!Kept!Forget
    BY <1>1, ClearForgets
  <1>3. UNCHANGED InFlight
    BY <1>1 DEF vars, pVars, cVars, InFlight, Queue, First
  <1> QED
    BY <1>2, <1>3 DEF Stream!Forget, Window!Kept!Forget

(* Every step of the path is one of the promised stream, or changes        *)
(* nothing of it.                                                          *)
LEMMA PathStream ==
    ASSUME PathInv, Window!TypeOK', [PathNext]_pathVars
    PROVE  [Stream!Next]_<<Window!Chronological, InFlight>>
  <1>1. CASE UNCHANGED pathVars
    BY <1>1 DEF pathVars, vars, pVars, cVars, winVars, InFlight, Queue, First,
       Window!Chronological, Window!Oldest
  <1> QED
    BY <1>1, Core1Sends, PopKeepsFlight, StoreArrives, BeginRunForgets
       DEF PathNext, Stream!Next

(* Only rows are ever on their way. *)
LEMMA StreamRows ==
    ASSUME InFlight \in Seq(Values), [Stream!Next]_<<Window!Chronological, InFlight>>
    PROVE  InFlight' \in Seq(Values)
  <1>1. ASSUME NEW v \in Values, Stream!Send(v) PROVE InFlight' \in Seq(Values)
    <2>1. InFlight' = Append(InFlight, v)
      BY <1>1 DEF Stream!Send
    <2> QED
      BY <2>1, AppendProperties
  <1>2. CASE Stream!Arrive
    <2>1. InFlight' = Tail(InFlight) /\ InFlight # <<>>
      BY <1>2 DEF Stream!Arrive
    <2> QED
      BY <2>1, HeadTailProperties
  <1>3. CASE Stream!Forget \/ UNCHANGED <<Window!Chronological, InFlight>>
    BY <1>3 DEF Stream!Forget
  <1> QED
    BY <1>1, <1>2, <1>3 DEF Stream!Next

(* Ring, window and hand start empty. *)
LEMMA PathInvInit == PathInit => PathInv /\ Stream!Init /\ Window!Kept!Init
  <1> SUFFICES ASSUME PathInit PROVE PathInv /\ Stream!Init /\ Window!Kept!Init
    OBVIOUS
  <1>1. Init /\ Window!Init /\ inHand = FALSE
    BY DEF PathInit
  <1>2. IInv /\ Fifo!Init
    BY <1>1, InitIInv, InitFifo
  <1>3. Window!TypeOK /\ Window!Kept!Init
    BY <1>1, InitWindow, InitKept
  <1>4. InFlight = <<>>
    <2>1. cpc = "idle" /\ Queue = <<>>
      BY <1>1, <1>2 DEF Init, Fifo!Init
    <2>2. InFlight = <<>> \o <<>>
      BY <1>1, <2>1 DEF InFlight
    <2> QED
      BY <2>2
  <1> QED
    BY <1>1, <1>2, <1>3, <1>4, EmptySeq DEF PathInv, Stream!Init, Window!Kept!Init

(* Every step of either core keeps the invariant and shows as a step, or  *)
(* none, of the two specifications.                                        *)
LEMMA PathInvNext ==
    PathInv /\ [PathNext]_pathVars =>
        /\ PathInv'
        /\ [Window!Kept!Next]_(Window!Chronological)
        /\ [Stream!Next]_<<Window!Chronological, InFlight>>
  <1> SUFFICES ASSUME PathInv, [PathNext]_pathVars
               PROVE  /\ PathInv'
                      /\ [Window!Kept!Next]_(Window!Chronological)
                      /\ [Stream!Next]_<<Window!Chronological, InFlight>>
    OBVIOUS
  <1>1. IInv' /\ Window!TypeOK'
    BY PathIsNext, PathIsWindow, NextIInv, NextWindow DEF PathInv
  <1>2. inHand' \in BOOLEAN /\ (inHand' => cpc' = "idle")
    <2>1. CASE Core1
      <3>1. cpc' = cpc /\ inHand' = inHand
        BY <2>1 DEF Core1, Producer, PushFull, PushAccept, PushStore, PushPublish,
           ProducerEmpty, cVars
      <3> QED
        BY <3>1 DEF PathInv
    <2>2. CASE PopBegin
      BY <2>2 DEF PopBegin, PathInv
    <2>3. CASE PopCopy
      BY <2>3 DEF PopCopy, PopRead, PathInv
    <2>4. CASE PopReturn
      BY <2>4 DEF PopReturn, PopPublish
    <2>5. CASE Store
      BY <2>5 DEF Store
    <2>6. CASE BeginRun \/ UNCHANGED pathVars
      BY <2>6 DEF BeginRun, pathVars, vars, cVars, PathInv
    <2> QED
      BY <2>1, <2>2, <2>3, <2>4, <2>5, <2>6 DEF PathNext
  <1>3. [Stream!Next]_<<Window!Chronological, InFlight>>
    BY <1>1, PathStream
  <1>4. InFlight' \in Seq(Values)
    BY <1>3, StreamRows DEF PathInv
  <1>5. [Window!Kept!Next]_(Window!Chronological)
    BY <1>1, PathIsWindow, NextKept DEF PathInv
  <1> QED
    BY <1>1, <1>2, <1>3, <1>4, <1>5 DEF PathInv

(* The inductive invariant of the path. *)
THEOREM PathInvHolds == PathSpec => []PathInv
  BY PathInvInit, PathInvNext, PTL DEF PathSpec, pathVars

(* The types of ring and window, and core 0 only ever stores a row that    *)
(* was pushed: never the T{} of a slot that was not written.               *)
THEOREM PathTypeCorrect == PathSpec => []PathTypeOK
  <1>1. PathInv => PathTypeOK
    BY HandAndQueue DEF PathInv, IInv, PathTypeOK, Hand
  <1> QED
    BY <1>1, PathInvHolds, PTL

(* Between the cores nothing else happens to the ring than Spsc describes. *)
THEOREM PathImplementsRing == PathSpec => Spec
  <1>1. PathInit => Init
    BY DEF PathInit
  <1> QED
    BY <1>1, PathIsNext, PTL DEF PathSpec, Spec, pathVars

(* With the window behind it the ring is a first-in first-out queue. *)
THEOREM PathIsFifo == PathSpec => IsFifo
  BY PathImplementsRing, ImplementsFifo, PTL

(* And push() never writes the slot pop() is copying. *)
THEOREM PathRaceFree == PathSpec => []NoDataRace
  BY PathImplementsRing, RaceFree, PTL

(* What a flush writes is the last W rows that core 0 popped since the run *)
(* began, in order.                                                        *)
THEOREM PathKeepsLastRows == PathSpec => IsLastRows
  <1>1. PathSpec => IsLastRows
    BY PathInvInit, PathInvNext, PathInvHolds, PTL
       DEF PathSpec, pathVars, IsLastRows, Window!IsLastRows, Window!Kept!Spec
  <1> QED
    BY <1>1

(* From core 1's push() to the window every row travels once, whole and in *)
(* order, for every ring, every window and every lag of either core's view *)
(* of the other's index.                                                   *)
THEOREM PathIsStream == PathSpec => IsHoldStream
  <1>1. PathSpec => IsHoldStream
    BY PathInvInit, PathInvNext, PathInvHolds, PTL
       DEF PathSpec, pathVars, IsHoldStream, Stream!Spec
  <1> QED
    BY <1>1
=============================================================================
