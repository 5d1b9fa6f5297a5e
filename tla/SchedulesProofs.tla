-------------------------- MODULE SchedulesProofs ---------------------------
(***************************************************************************)
(* Proofs about CONFIG.INI and the schedules, for every file, every width  *)
(* of numbers, every pattern of teeth and every resolution of floats: how  *)
(* floats round (a float is passed by nothing that is rounded), that the   *)
(* reader's pairs are what the lines before it say, key by key (Kept),     *)
(* that a configuration is what the file says, and what the three          *)
(* schedules make of one that is accepted.                                 *)
(***************************************************************************)
EXTENDS Schedules, SequenceTheorems, FiniteSetTheorems, WellFoundedInduction, TLAPS

(* The quotient and the remainder of a natural number. *)
LEMMA Division ==
    ASSUME NEW x \in Nat, NEW u \in Nat \ {0}
    PROVE  /\ x \div u \in Nat /\ x % u \in Nat /\ x % u < u
           /\ x = u * (x \div u) + (x % u)
<1>1. x % u \in Nat /\ x % u < u
  OBVIOUS
<1>2. x \div u \in Int
  OBVIOUS
<1>3. x = u * (x \div u) + (x % u)
  OBVIOUS
<1>4. x \div u \in Nat
  <2>1. SUFFICES ASSUME x \div u <= -1 PROVE FALSE
    BY <1>2
  <2> QED
    BY <1>1, <1>2, <1>3, <2>1
<1> QED
  BY <1>1, <1>3, <1>4

(* They are the only ones. *)
LEMMA DivisionUnique ==
    ASSUME NEW u \in Nat \ {0}, NEW q \in Nat, NEW r \in Nat, r < u
    PROVE  (u * q + r) \div u = q /\ (u * q + r) % u = r
  OBVIOUS

(* A product grows with either factor. *)
LEMMA ProductGrows ==
    ASSUME NEW a \in Nat, NEW b \in Nat, NEW k \in Nat, a <= b
    PROVE  k * a <= k * b /\ a * k <= b * k
  OBVIOUS

(* And strictly, if the other is not zero. *)
LEMMA ProductLess ==
    ASSUME NEW a \in Nat, NEW b \in Nat, NEW k \in Nat \ {0}
    PROVE  k * a < k * b <=> a < b
  OBVIOUS

(* A set of numbers that is not empty has a least one. *)
LEMMA MinIsLeast ==
    ASSUME NEW S \in SUBSET Nat, S # {}
    PROVE  Min(S) \in S /\ \A j \in S : Min(S) <= j
<1>1. PICK x \in S : \A j \in S : ~(<<j, x>> \in OpToRel(<, Nat))
  BY NatLessThanWellFounded, WFMin
<1>2. ASSUME NEW j \in S PROVE ~(j < x)
  <2>1. /\ <<j, x>> \in Nat \X Nat /\ <<j, x>>[1] = j /\ <<j, x>>[2] = x
        /\ ~(<<j, x>> \in OpToRel(<, Nat))
    BY <1>1, Zenon
  <2> QED
    BY <2>1, Zenon DEF OpToRel
<1>3. x \in S /\ \A j \in S : x <= j
  BY <1>2
<1> QED
  BY <1>3 DEF Min

-----------------------------------------------------------------------------
(* Floats. *)

(* Of two ulps, the larger is a multiple of twice the smaller. *)
LEMMA UlpsDouble ==
    ASSUME NEW u \in Ulps, NEW w \in Ulps, u < w
    PROVE  /\ w # 1 /\ w \div 2 \in Nat /\ u <= w \div 2
           /\ \E i \in Nat \ {0} : w = (2 * u) * i /\ w \div 2 = u * i
<1>1. u \in Nat \ {0} /\ w \in Nat \ {0} /\ w % (2 * u) = 0
  BY FloatAssumption
<1>2. PICK i \in Nat : w = (2 * u) * i
  <2>1. w \div (2 * u) \in Nat /\ w = (2 * u) * (w \div (2 * u)) + (w % (2 * u))
    <3> DEFINE d == 2 * u
    <3>1. d \in Nat \ {0}
      BY <1>1
    <3> HIDE DEF d
    <3>2. w \div d \in Nat /\ w = d * (w \div d) + (w % d)
      BY <1>1, <3>1, Division
    <3> QED
      BY <3>2 DEF d
  <2> QED
    BY <1>1, <2>1
<1>3. i # 0
  BY <1>1, <1>2
<1>4. u * i \in Nat /\ w = 2 * (u * i) /\ u <= u * i
  BY <1>1, <1>2, <1>3
<1>5. w \div 2 = u * i
  BY <1>4
<1> QED
  BY <1>1, <1>2, <1>3, <1>4, <1>5

(* Ulp(x) is the distance of the floats about x. *)
LEMMA UlpIs ==
    ASSUME NEW x \in Nat, ~Huge(x)
    PROVE  /\ Ulp(x) \in Ulps /\ x < Exact * Ulp(x)
           /\ Ulp(x) # 1 => x >= Exact * (Ulp(x) \div 2)
<1> DEFINE S == {u \in Ulps : x < Exact * u}
<1>1. S \in SUBSET Nat /\ S # {}
  <2>1. \A u \in Ulps : u \in Nat /\ Exact * u \in Nat
    BY FloatAssumption
  <2> QED
    BY <2>1 DEF Huge
<1>2. Min(S) \in S /\ \A j \in S : Min(S) <= j
  <2> HIDE DEF S
  <2> QED
    BY <1>1, MinIsLeast
<1>3. Min(S) # 1 => x >= Exact * (Min(S) \div 2)
  <2> SUFFICES ASSUME Min(S) # 1 PROVE x >= Exact * (Min(S) \div 2)
    OBVIOUS
  <2>1. Min(S) \in Ulps \ {1} /\ Min(S) \in Nat \ {0} /\ Min(S) \div 2 \in Ulps
    BY <1>2, FloatAssumption
  <2>2. Min(S) \div 2 < Min(S) /\ Min(S) \div 2 \in Nat
    BY <2>1
  <2>3. Min(S) \div 2 \notin S
    <3> HIDE DEF S
    <3>1. Min(S) \div 2 \in S => Min(S) <= Min(S) \div 2
      BY <1>2
    <3> QED
      BY <2>1, <2>2, <3>1
  <2>4. ~(x < Exact * (Min(S) \div 2))
    BY <2>1, <2>3
  <2> QED
    BY <2>2, <2>4, FloatAssumption
<1>4. \E u \in Ulps : x < Exact * u /\ (u = 1 \/ x >= Exact * (u \div 2))
  BY <1>2, <1>3
<1> QED
  BY <1>4 DEF Ulp

(* What rounding does to a number that is not huge. *)
LEMMA Rounding ==
    ASSUME NEW x \in Nat \ {0}, ~Huge(x)
    PROVE  \E u \in Ulps, q \in 0 .. Exact - 1 :
               /\ u = Ulp(x) /\ u * q <= x /\ x < u * (q + 1)
               /\ Rounded(x) \in {u * q, u * (q + 1)}
               /\ x = u * q => Rounded(x) = x
<1> DEFINE u == Ulp(x)  q == x \div u  r == x % u
<1>1. u \in Ulps /\ u \in Nat \ {0} /\ x < Exact * u /\ Exact \in Nat
  BY UlpIs, FloatAssumption
<1>2. q \in Nat /\ r \in Nat /\ r < u /\ x = u * q + r
  <2> HIDE DEF u
  <2> QED
    BY <1>1, Division
<1>3. Rounded(x) = ToEven(x, u)
  BY DEF Rounded
<1> HIDE DEF u
<1>4. Rounded(x) = u * (IF 2 * r < u \/ (2 * r = u /\ q % 2 = 0) THEN q ELSE q + 1)
  BY <1>3 DEF ToEven
<1> HIDE DEF q, r
<1>5. Rounded(x) \in {u * q, u * (q + 1)}
  BY <1>4
<1>6. u * q \in Nat /\ u * (q + 1) = u * q + u
  BY <1>1, <1>2
<1>7. x = u * q => Rounded(x) = x
  <2> SUFFICES ASSUME x = u * q PROVE Rounded(x) = x
    OBVIOUS
  <2>1. 2 * r < u
    BY <1>1, <1>2, <1>6
  <2> QED
    BY <1>4, <2>1
<1>8. q < Exact
  <2>1. u * q < u * Exact
    BY <1>1, <1>2, <1>6
  <2> QED
    BY <1>1, <1>2, <2>1, ProductLess
<1>9. u * q <= x /\ x < u * (q + 1)
  BY <1>1, <1>2, <1>6
<1> QED
  BY <1>1, <1>2, <1>5, <1>7, <1>8, <1>9 DEF u

(* Up to Exact ulps every multiple of an ulp is a float. *)
LEMMA MultipleIsFloat ==
    ASSUME NEW u \in Ulps, NEW k \in 0 .. Exact
    PROVE  Rounded(u * k) = u * k
<1> DEFINE x == u * k
<1>1. u \in Nat \ {0} /\ k \in Nat /\ x \in Nat /\ Exact \in Nat \ {0}
  BY FloatAssumption
<1>2. CASE x <= 0 \/ Huge(x)
  BY <1>2 DEF Rounded
<1>3. CASE ~(x <= 0 \/ Huge(x))
  <2> DEFINE w == Ulp(x)
  <2>1. /\ w \in Ulps /\ w \in Nat \ {0}
        /\ w # 1 => x >= Exact * (w \div 2)
    BY <1>1, <1>3, UlpIs, FloatAssumption
  <2>2. Rounded(x) = ToEven(x, w)
    BY <1>3 DEF Rounded
  <2> HIDE DEF w, x
  <2>3. \E j \in Nat : x = w * j
    <3>1. CASE w = u
      BY <1>1, <3>1 DEF x
    <3>2. CASE w < u
      <4>1. PICK i \in Nat \ {0} : u = (2 * w) * i
        BY <2>1, <3>2, UlpsDouble
      <4>2. x = w * ((2 * i) * k) /\ (2 * i) * k \in Nat
        BY <1>1, <2>1, <4>1 DEF x
      <4> QED
        BY <4>2
    <3>3. CASE u < w
      <4>1. PICK i \in Nat \ {0} : w = (2 * u) * i /\ w \div 2 = u * i
        BY <2>1, <3>3, UlpsDouble
      <4>2. w # 1
        BY <2>1, <3>3, UlpsDouble
      <4>3. x >= Exact * (u * i)
        BY <2>1, <4>1, <4>2
      <4>4. u * Exact <= Exact * (u * i) /\ x <= u * Exact
        BY <1>1, <4>1 DEF x
      <4>5. x = u * Exact /\ x = Exact * (u * i)
        BY <1>1, <4>1, <4>3, <4>4
      <4>6. Exact \div 2 \in Nat /\ Exact = 2 * (Exact \div 2)
        BY FloatAssumption
      <4>7. x = w * (Exact \div 2)
        <5> DEFINE h == Exact \div 2
        <5>1. h \in Nat /\ Exact = 2 * h
          BY <4>6
        <5> HIDE DEF h
        <5>2. x = (2 * h) * (u * i)
          BY <4>5, <5>1
        <5>3. (2 * h) * (u * i) = ((2 * u) * i) * h
          BY <1>1, <4>1, <5>1
        <5> QED
          BY <4>1, <5>2, <5>3 DEF h
      <4> QED
        BY <4>6, <4>7
    <3> QED
      BY <1>1, <2>1, <3>1, <3>2, <3>3
  <2>4. PICK j \in Nat : x = w * j
    BY <2>3
  <2>5. x \div w = j /\ x % w = 0
    <3>1. x = w * j + 0 /\ 0 < w
      BY <2>1, <2>4
    <3> QED
      BY <2>1, <3>1, DivisionUnique
  <2>6. ToEven(x, w) = w * j
    BY <2>1, <2>5 DEF ToEven
  <2> QED
    BY <2>2, <2>4, <2>6 DEF x
<1> QED
  BY <1>2, <1>3

(* Rounding twice rounds no further. *)
LEMMA RoundedIsFloat ==
    ASSUME NEW x \in Int
    PROVE  /\ Rounded(x) \in Int /\ Rounded(Rounded(x)) = Rounded(x)
           /\ x >= 0 => Rounded(x) \in Nat
           /\ x <= 0 => Rounded(x) = x
<1>1. CASE x <= 0 \/ Huge(x)
  <2>1. Rounded(x) = x
    BY <1>1 DEF Rounded
  <2> QED
    BY <2>1
<1>2. CASE ~(x <= 0 \/ Huge(x))
  <2>1. x \in Nat \ {0} /\ ~Huge(x)
    BY <1>2
  <2>2. PICK u \in Ulps, q \in 0 .. Exact - 1 : Rounded(x) \in {u * q, u * (q + 1)}
    BY <2>1, Rounding
  <2>3. u \in Nat \ {0} /\ Exact \in Nat \ {0}
    BY FloatAssumption
  <2>4. q \in 0 .. Exact /\ q + 1 \in 0 .. Exact
    BY <2>3
  <2>5. Rounded(u * q) = u * q /\ Rounded(u * (q + 1)) = u * (q + 1)
    BY <2>4, MultipleIsFloat
  <2>6. u * q \in Nat /\ u * (q + 1) \in Nat
    BY <2>3
  <2> QED
    BY <1>2, <2>2, <2>5, <2>6
<1> QED
  BY <1>1, <1>2

(* A larger number has no smaller ulp. *)
LEMMA UlpGrows ==
    ASSUME NEW x \in Nat, NEW y \in Nat, x <= y, ~Huge(x), ~Huge(y)
    PROVE  Ulp(x) <= Ulp(y)
<1> DEFINE u == Ulp(x)  w == Ulp(y)
<1>1. /\ u \in Ulps /\ w \in Ulps /\ y < Exact * w
      /\ u # 1 => x >= Exact * (u \div 2)
  BY UlpIs
<1> HIDE DEF u, w
<1>2. u \in Nat \ {0} /\ w \in Nat \ {0} /\ Exact \in Nat
  BY <1>1, FloatAssumption
<1>3. ASSUME w < u PROVE FALSE
  <2>1. u # 1 /\ u \div 2 \in Nat /\ w <= u \div 2
    BY <1>1, <1>3, UlpsDouble
  <2>2. Exact * w <= Exact * (u \div 2)
    <3> DEFINE v == u \div 2
    <3>1. v \in Nat /\ w <= v
      BY <2>1
    <3> HIDE DEF v
    <3>2. Exact * w <= Exact * v
      BY <1>2, <3>1, ProductGrows
    <3> QED
      BY <3>2 DEF v
  <2>3. Exact * w \in Nat /\ Exact * (u \div 2) \in Nat
    BY <1>2, <2>1
  <2> QED
    BY <1>1, <2>1, <2>2, <2>3
<1> QED
  BY <1>2, <1>3 DEF u, w

(* A number with a larger ulp, or a huge one, is above all with this ulp. *)
LEMMA FloatsApart ==
    ASSUME NEW x \in Nat, NEW y \in Nat, ~Huge(x), Huge(y) \/ (~Huge(y) /\ Ulp(x) < Ulp(y))
    PROVE  Exact * Ulp(x) <= y
<1> DEFINE u == Ulp(x)
<1>1. u \in Ulps /\ u \in Nat \ {0} /\ Exact \in Nat
  BY UlpIs, FloatAssumption
<1>2. CASE Huge(y)
  BY <1>1, <1>2 DEF Huge
<1>3. CASE ~Huge(y)
  <2> DEFINE w == Ulp(y)
  <2>1. w \in Ulps /\ u < w /\ (w # 1 => y >= Exact * (w \div 2))
    BY <1>3, UlpIs
  <2> HIDE DEF u, w
  <2>2. w # 1 /\ w \div 2 \in Nat /\ u <= w \div 2
    BY <1>1, <2>1, UlpsDouble
  <2> DEFINE v == w \div 2
  <2>3. v \in Nat /\ u <= v /\ y >= Exact * v
    BY <2>1, <2>2
  <2> HIDE DEF v
  <2>4. Exact * u <= Exact * v /\ Exact * u \in Nat /\ Exact * v \in Nat
    BY <1>1, <2>3, ProductGrows
  <2> QED
    BY <2>3, <2>4 DEF u
<1> QED
  BY <1>2, <1>3

(* A float that is above zero and not huge is a multiple of its ulp. *)
LEMMA FloatIsMultiple ==
    ASSUME NEW r \in Nat \ {0}, ~Huge(r), Rounded(r) = r
    PROVE  \E k \in Nat : r = Ulp(r) * k
<1>1. PICK u \in Ulps, q \in 0 .. Exact - 1 :
          u = Ulp(r) /\ Rounded(r) \in {u * q, u * (q + 1)}
  BY Rounding
<1>2. q \in Nat /\ q + 1 \in Nat
  BY FloatAssumption
<1> QED
  BY <1>1, <1>2

(* Rounding passes no float upwards. *)
LEMMA BelowFloat ==
    ASSUME NEW r \in Int, NEW x \in Int, Rounded(r) = r, x <= r
    PROVE  Rounded(x) <= r
<1>1. CASE x <= 0 \/ Huge(x)
  <2>1. Rounded(x) = x
    BY <1>1 DEF Rounded
  <2> QED
    BY <2>1
<1>2. CASE ~(x <= 0 \/ Huge(x))
  <2>1. x \in Nat \ {0} /\ ~Huge(x) /\ r \in Nat \ {0}
    BY <1>2
  <2>2. PICK u \in Ulps, q \in 0 .. Exact - 1 :
               /\ u = Ulp(x) /\ u * q <= x /\ x < u * (q + 1)
               /\ Rounded(x) \in {u * q, u * (q + 1)}
               /\ x = u * q => Rounded(x) = x
    BY <2>1, Rounding
  <2>3. /\ u \in Nat \ {0} /\ Exact \in Nat \ {0} /\ q \in Nat
        /\ u * q \in Nat /\ u * (q + 1) \in Nat /\ u * q <= u * (q + 1)
    <3>1. u \in Nat \ {0} /\ Exact \in Nat \ {0} /\ q \in Nat
      BY FloatAssumption
    <3> QED
      BY <3>1
  <2>4. CASE Huge(r) \/ (~Huge(r) /\ u # Ulp(r))
    <3>1. ~Huge(r) => Ulp(r) \in Nat /\ u <= Ulp(r)
      BY <2>1, <2>2, UlpGrows, UlpIs, FloatAssumption
    <3>2. Huge(r) \/ (~Huge(r) /\ Ulp(x) < Ulp(r))
      <4>1. CASE Huge(r)
        BY <4>1, Zenon
      <4>2. CASE ~Huge(r) /\ u # Ulp(r)
        <5>1. u < Ulp(r)
          BY <2>3, <4>2, <3>1
        <5> QED
          BY <2>2, <4>2, <5>1
      <4> QED
        BY <2>4, <4>1, <4>2, Zenon
    <3>3. Exact * u <= r
      BY <2>1, <2>2, <3>2, FloatsApart
    <3>4. u * (q + 1) <= Exact * u
      BY <2>3, ProductGrows
    <3>5. Exact * u \in Nat
      BY <2>3
    <3> QED
      BY <2>1, <2>2, <2>3, <3>3, <3>4, <3>5
  <2>5. CASE ~Huge(r) /\ u = Ulp(r)
    <3>1. PICK k \in Nat : r = u * k
      BY <2>1, <2>5, FloatIsMultiple
    <3>2. CASE k <= q
      <4>1. u * k <= u * q
        BY <2>3, <3>2, ProductGrows
      <4>2. x = u * q
        BY <2>1, <2>2, <2>3, <3>1, <4>1
      <4> QED
        BY <2>2, <4>2
    <3>3. CASE q + 1 <= k
      <4>1. u * (q + 1) <= u * k
        BY <2>3, <3>3, ProductGrows
      <4> QED
        BY <2>1, <2>2, <2>3, <3>1, <4>1
    <3> QED
      BY <2>3, <3>2, <3>3
  <2> QED
    BY <2>4, <2>5, Zenon
<1> QED
  BY <1>1, <1>2

(* Nor does it downwards. *)
LEMMA AboveFloat ==
    ASSUME NEW r \in Int, NEW x \in Int, Rounded(r) = r, r <= x
    PROVE  r <= Rounded(x)
<1>1. CASE x <= 0 \/ Huge(x)
  <2>1. Rounded(x) = x
    BY <1>1 DEF Rounded
  <2> QED
    BY <2>1
<1>2. CASE ~(x <= 0 \/ Huge(x)) /\ r <= 0
  <2>1. Rounded(x) \in Nat
    BY <1>2, RoundedIsFloat
  <2> QED
    BY <1>2, <2>1
<1>3. CASE ~(x <= 0 \/ Huge(x)) /\ r > 0
  <2>1. x \in Nat \ {0} /\ ~Huge(x) /\ r \in Nat \ {0}
    BY <1>3
  <2>2. PICK u \in Ulps, q \in 0 .. Exact - 1 :
               /\ u = Ulp(x) /\ u * q <= x /\ x < u * (q + 1)
               /\ Rounded(x) \in {u * q, u * (q + 1)}
    BY <2>1, Rounding
  <2>3. /\ u \in Nat \ {0} /\ Exact \in Nat \ {0} /\ q \in Nat
        /\ u * q \in Nat /\ u * (q + 1) \in Nat /\ u * q <= u * (q + 1)
    <3>1. u \in Nat \ {0} /\ Exact \in Nat \ {0} /\ q \in Nat
      BY FloatAssumption
    <3> QED
      BY <3>1
  <2>4. ~Huge(r)
    <3>1. \A w \in Ulps : Exact * w \in Nat
      BY FloatAssumption
    <3> QED
      BY <2>1, <3>1 DEF Huge
  <2>5. Ulp(r) \in Ulps /\ Ulp(r) \in Nat \ {0} /\ Ulp(r) <= u
    BY <2>1, <2>2, <2>4, UlpGrows, UlpIs, FloatAssumption
  <2>6. CASE Ulp(r) = u
    <3>1. PICK k \in Nat : r = u * k
      BY <2>1, <2>4, <2>6, FloatIsMultiple
    <3>2. u * k < u * (q + 1)
      BY <2>1, <2>2, <2>3, <3>1
    <3>3. k <= q
      BY <2>3, <3>2, ProductLess
    <3>4. u * k <= u * q
      BY <2>3, <3>3, ProductGrows
    <3> QED
      BY <2>1, <2>2, <2>3, <3>1, <3>4
  <2>7. CASE Ulp(r) < u
    <3> DEFINE v == Ulp(r)  h == Exact \div 2
    <3>1. Exact * v <= x /\ r < Exact * v
      BY <2>1, <2>2, <2>4, <2>7, FloatsApart, UlpIs
    <3>2. h \in Nat /\ Exact = 2 * h
      BY FloatAssumption
    <3>3. u # 1 /\ x >= Exact * (u \div 2)
      BY <2>1, <2>2, <2>5, <2>7, UlpIs, UlpsDouble
    <3>4. PICK i \in Nat \ {0} : u = (2 * v) * i /\ u \div 2 = v * i
      BY <2>5, <2>7, UlpsDouble
    <3>5. v \in Nat \ {0}
      BY <2>5
    <3> HIDE DEF v, h
    <3>6. Exact * (v * i) = u * h
      <4>1. (2 * h) * (v * i) = ((2 * v) * i) * h
        BY <3>2, <3>4, <3>5
      <4> QED
        BY <3>2, <3>4, <4>1
    <3>7. u * h <= x /\ u * h \in Nat
      BY <2>3, <3>2, <3>3, <3>4, <3>6
    <3>8. u * h < u * (q + 1)
      BY <2>1, <2>2, <2>3, <3>7
    <3>9. h <= q
      BY <2>3, <3>2, <3>8, ProductLess
    <3>10. u * h <= u * q
      BY <2>3, <3>2, <3>9, ProductGrows
    <3>11. Exact * v <= u * h
      <4>1. v * i \in Nat /\ v <= v * i
        BY <3>4, <3>5
      <4>2. Exact * v <= Exact * (v * i)
        BY <2>3, <3>5, <4>1, ProductGrows
      <4> QED
        BY <3>6, <4>2
    <3>12. Exact * v \in Nat
      BY <2>3, <3>5
    <3> QED
      BY <2>1, <2>2, <2>3, <3>1, <3>7, <3>10, <3>11, <3>12
  <2> QED
    BY <2>3, <2>5, <2>6, <2>7
<1> QED
  BY <1>1, <1>2, <1>3

(* The unsigned numbers up to Exact are floats: so is every speed up to    *)
(* the ceiling.                                                            *)
LEMMA SmallIsExact ==
    ASSUME NEW n \in 0 .. Exact
    PROVE  Float(n) = Scale * n
  BY MultipleIsFloat, FloatAssumption DEF Float

(* An unsigned number becomes a float that stays itself when rounded. *)
LEMMA FloatIsFloat ==
    ASSUME NEW n \in Nat
    PROVE  Float(n) \in Nat /\ Rounded(Float(n)) = Float(n)
<1>1. Scale \in Nat
  BY FloatAssumption
<1>2. Scale * n \in Nat /\ Scale * n \in Int /\ Scale * n >= 0
  BY <1>1
<1> QED
  BY <1>2, RoundedIsFloat DEF Float

-----------------------------------------------------------------------------
(* The numbers of a text. *)

(* A text is an array of tokens. *)
LEMMA TextIsTokens ==
    ASSUME NEW s \in Seq(Token)
    PROVE  /\ Len(s) \in Nat /\ DOMAIN s = 1 .. Len(s)
           /\ \A i \in 1 .. Len(s) : s[i] \in Token /\ s[i].v \in Nat
<1>1. Len(s) \in Nat /\ DOMAIN s = 1 .. Len(s)
  BY LenProperties
<1>2. \A i \in 1 .. Len(s) : s[i] \in Token
  BY ElementOfSeq
<1>3. \A t \in Token : t.v \in Nat
  BY DEF Token
<1> QED
  BY <1>1, <1>2, <1>3

(* What a recursive function over 0 .. n is to satisfy: Number's. *)
Reads(s, f, n) ==
    f = [i \in 0 .. n |-> IF i = 0 THEN 0 ELSE 10 * f[i - 1] + s[i].v]

(* There is one, whatever the text's length: take the shortest text for    *)
(* which there was none.                                                   *)
LEMMA ReadsExists ==
    ASSUME NEW s \in Seq(Token)
    PROVE  \E f \in [0 .. Len(s) -> Nat] : Reads(s, f, Len(s))
<1> DEFINE P(n) == \E f \in [0 .. n -> Nat] : Reads(s, f, n)
           S == {n \in 0 .. Len(s) : ~P(n)}
<1>1. Len(s) \in Nat /\ \A i \in 1 .. Len(s) : s[i].v \in Nat
  BY TextIsTokens
<1>2. P(0)
  <2> DEFINE f == [i \in 0 .. 0 |-> 0]
  <2>1. f \in [0 .. 0 -> Nat] /\ Reads(s, f, 0)
    BY DEF Reads
  <2> QED
    BY <2>1
<1>3. ASSUME NEW n \in 1 .. Len(s), P(n - 1) PROVE P(n)
  <2>1. PICK f \in [0 .. n - 1 -> Nat] : Reads(s, f, n - 1)
    BY <1>3
  <2> DEFINE g == [i \in 0 .. n |-> IF i = n THEN 10 * f[n - 1] + s[n].v ELSE f[i]]
  <2>2. n \in Nat /\ n - 1 \in 0 .. n - 1 /\ f[n - 1] \in Nat /\ s[n].v \in Nat
    BY <1>1
  <2>3. g \in [0 .. n -> Nat]
    <3>1. \A i \in 0 .. n : i # n => i \in 0 .. n - 1
      BY <2>2
    <3> QED
      BY <2>2, <3>1
  <2>4. \A i \in 0 .. n - 1 : f[i] = IF i = 0 THEN 0 ELSE 10 * f[i - 1] + s[i].v
    BY <2>1 DEF Reads
  <2>5. \A i \in 0 .. n : g[i] = IF i = 0 THEN 0 ELSE 10 * g[i - 1] + s[i].v
    <3> SUFFICES ASSUME NEW i \in 0 .. n
                 PROVE  g[i] = IF i = 0 THEN 0 ELSE 10 * g[i - 1] + s[i].v
      OBVIOUS
    <3>1. i # 0 => i - 1 \in 0 .. n /\ i - 1 # n /\ g[i - 1] = f[i - 1]
      BY <2>2
    <3>2. CASE i = n
      BY <2>2, <3>1, <3>2
    <3>3. CASE i # n
      <4>1. i \in 0 .. n - 1 /\ g[i] = f[i]
        BY <2>2, <3>3
      <4> QED
        BY <2>4, <3>1, <4>1
    <3> QED
      BY <3>2, <3>3
  <2>6. g = [i \in 0 .. n |-> g[i]]
    BY <2>3
  <2> HIDE DEF g
  <2>7. Reads(s, g, n)
    BY <2>5, <2>6 DEF Reads
  <2> QED
    BY <2>3, <2>7
<1>4. ASSUME S # {} PROVE FALSE
  <2>1. S \in SUBSET Nat
    OBVIOUS
  <2> HIDE DEF S
  <2>2. Min(S) \in S /\ \A j \in S : Min(S) <= j
    BY <1>4, <2>1, MinIsLeast
  <2> USE DEF S
  <2> HIDE DEF P
  <2>3. Min(S) \in 0 .. Len(s) /\ ~P(Min(S))
    BY <2>2
  <2>4. Min(S) # 0
    BY <1>2, <2>3
  <2>5. Min(S) \in 1 .. Len(s) /\ Min(S) - 1 \in 0 .. Len(s)
    BY <1>1, <2>3, <2>4
  <2>6. P(Min(S) - 1)
    <3>1. Min(S) - 1 \notin S
      <4> HIDE DEF S
      <4> QED
        BY <2>2, <2>5
    <3> QED
      BY <2>5, <3>1
  <2> QED
    BY <1>3, <2>3, <2>5, <2>6
<1> QED
  <2> HIDE DEF P
  <2>1. Len(s) \notin S
    BY <1>4
  <2>2. P(Len(s))
    BY <1>1, <2>1
  <2> QED
    BY <2>2 DEF P

(* Any such function has natural numbers only. *)
LEMMA ReadsNumbers ==
    ASSUME NEW s \in Seq(Token), NEW f, Reads(s, f, Len(s))
    PROVE  f[Len(s)] \in Nat
<1> DEFINE S == {n \in 0 .. Len(s) : f[n] \notin Nat}
<1>1. Len(s) \in Nat /\ \A i \in 1 .. Len(s) : s[i].v \in Nat
  BY TextIsTokens
<1>2. \A i \in 0 .. Len(s) : f[i] = IF i = 0 THEN 0 ELSE 10 * f[i - 1] + s[i].v
  BY DEF Reads
<1>3. ASSUME S # {} PROVE FALSE
  <2>1. S \in SUBSET Nat
    OBVIOUS
  <2> HIDE DEF S
  <2>2. Min(S) \in S /\ \A j \in S : Min(S) <= j
    BY <1>3, <2>1, MinIsLeast
  <2> DEFINE m == Min(S)
  <2>3. m \in 0 .. Len(s) /\ f[m] \notin Nat
    BY <2>2 DEF S
  <2>4. m # 0
    BY <1>1, <1>2, <2>3
  <2>5. m \in 1 .. Len(s) /\ m - 1 \in 0 .. Len(s) /\ ~(m <= m - 1)
    BY <1>1, <2>3, <2>4
  <2>6. f[m - 1] \in Nat
    <3>1. m - 1 \notin S
      BY <2>2, <2>5
    <3> QED
      BY <2>5, <3>1 DEF S
  <2> HIDE DEF m
  <2> QED
    BY <1>1, <1>2, <2>3, <2>4, <2>5, <2>6
<1> QED
  BY <1>1, <1>3

(* A text's number is a natural number, of whatever tokens. *)
LEMMA NumberIsNat ==
    ASSUME NEW s \in Seq(Token)
    PROVE  Number(s) \in Nat
<1> DEFINE v == CHOOSE f : Reads(s, f, Len(s))
<1>1. \E f : Reads(s, f, Len(s))
  BY ReadsExists
<1>2. Reads(s, v, Len(s))
  BY <1>1
<1>3. Number(s) = v[Len(s)]
  BY DEF Number, Reads
<1> HIDE DEF v
<1> QED
  BY <1>2, <1>3, ReadsNumbers

-----------------------------------------------------------------------------
(* The lines of a file. *)

Pair == [key : Seq(Token), value : Seq(Token)]
IniTypes == file \in Seq(Token) /\ pos \in Nat \ {0} /\ pairs \in Seq(Pair)
AtLine == pos = 1 \/ pos = Length + 2 \/ file[pos - 1] = LineEnd

(* The first of some places. *)
LEMMA FirstIs ==
    ASSUME NEW places \in SUBSET Nat, NEW otherwise
    PROVE  /\ places = {} => First(places, otherwise) = otherwise
           /\ places # {} => /\ First(places, otherwise) \in places
                             /\ \A j \in places : First(places, otherwise) <= j
<1>1. places = {} => First(places, otherwise) = otherwise
  BY DEF First
<1>2. ASSUME places # {}
      PROVE  /\ First(places, otherwise) \in places
             /\ \A j \in places : First(places, otherwise) <= j
  <2>1. First(places, otherwise) = Min(places)
    BY <1>2 DEF First
  <2> QED
    BY <1>2, <2>1, MinIsLeast
<1> QED
  BY <1>1, <1>2

(* The marks of a line are not keys, nor one another. *)
LEMMA MarksDiffer ==
    /\ Equals # Comment /\ Equals # LineEnd /\ Comment # LineEnd
    /\ Equals \in Token /\ Comment \in Token /\ LineEnd \in Token
    /\ Equals.is = "=" /\ Comment.is = ";" /\ LineEnd.is = "end of line"
  BY DEF Equals, Comment, LineEnd, Sign, Token

(* What the buffer holds of the file; all of one that fits. *)
LEMMA LengthIs ==
    ASSUME IniTypes
    PROVE  /\ Length \in Nat /\ Length <= Len(file)
           /\ Len(file) <= Room => Length = Len(file)
  BY TextIsTokens, TextAssumption DEF Length, IniTypes

(* Where the line at pos stops. *)
LEMMA LineStopIs ==
    ASSUME IniTypes, pos <= Length
    PROVE  /\ LineStop \in pos .. Length + 1
           /\ \A i \in pos .. LineStop - 1 : file[i] # LineEnd
           /\ LineStop <= Length => file[LineStop] = LineEnd
<1> DEFINE S == {i \in pos .. Length : file[i] = LineEnd}
<1>1. pos \in Nat \ {0} /\ Length \in Nat
  BY LengthIs DEF IniTypes
<1>2. S \in SUBSET Nat /\ LineStop = First(S, Length + 1)
  BY <1>1 DEF LineStop
<1>3. CASE S = {}
  <2>1. LineStop = Length + 1
    BY <1>2, <1>3, FirstIs
  <2> QED
    BY <1>1, <1>3, <2>1
<1>4. CASE S # {}
  <2>1. LineStop \in S /\ \A j \in S : LineStop <= j
    <3> HIDE DEF S
    <3> QED
      BY <1>2, <1>4, FirstIs
  <2> QED
    BY <1>1, <2>1
<1> QED
  BY <1>3, <1>4

(* The line itself ends there or before its comment. *)
LEMMA LineIs ==
    ASSUME IniTypes, pos <= Length
    PROVE  \E e \in pos - 1 .. LineStop - 1 :
               /\ Line = SubSeq(file, pos, e)
               /\ \A i \in pos .. e : file[i] # Comment
               /\ e < LineStop - 1 => file[e + 1] = Comment
<1> DEFINE stop == LineStop
           S == {i \in pos .. stop - 1 : file[i] = Comment}
           e == First(S, stop) - 1
<1>1. pos \in Nat \ {0} /\ Length \in Nat /\ stop \in pos .. Length + 1
  BY LengthIs, LineStopIs DEF IniTypes
<1>2. Line = SubSeq(file, pos, e)
  BY DEF Line
<1> HIDE DEF stop
<1>3. S \in SUBSET Nat
  BY <1>1
<1>4. CASE S = {}
  <2>1. e = stop - 1
    BY <1>1, <1>3, <1>4, FirstIs
  <2>2. \A i \in pos .. e : file[i] # Comment
    BY <1>4, <2>1
  <2> HIDE DEF e
  <2> QED
    BY <1>1, <1>2, <2>1, <2>2 DEF stop
<1>5. CASE S # {}
  <2>1. First(S, stop) \in S /\ \A j \in S : First(S, stop) <= j
    <3> HIDE DEF S
    <3> QED
      BY <1>3, <1>5, FirstIs
  <2>2. First(S, stop) \in pos .. stop - 1 /\ file[First(S, stop)] = Comment
    BY <2>1
  <2>3. e \in pos - 1 .. stop - 1 /\ file[e + 1] = Comment
    <3> HIDE DEF S
    <3> QED
      BY <1>1, <2>2
  <2>4. \A i \in pos .. e : file[i] # Comment
    <3> SUFFICES ASSUME NEW i \in pos .. e, file[i] = Comment PROVE FALSE
      OBVIOUS
    <3>1. i \in S /\ ~(First(S, stop) <= i)
      BY <1>1, <2>2
    <3> QED
      BY <2>1, <3>1
  <2> HIDE DEF e
  <2> QED
    BY <1>1, <1>2, <2>3, <2>4 DEF stop
<1> QED
  BY <1>4, <1>5

(* A piece of a text is a text. *)
LEMMA PieceIsText ==
    ASSUME NEW s \in Seq(Token), NEW a \in Nat \ {0}, NEW b \in Int, b <= Len(s)
    PROVE  /\ SubSeq(s, a, b) \in Seq(Token)
           /\ Len(SubSeq(s, a, b)) = IF a <= b THEN b - a + 1 ELSE 0
           /\ \A i \in 1 .. b - a + 1 : SubSeq(s, a, b)[i] = s[a + i - 1]
<1>1. \A i \in a .. b : s[i] \in Token
  BY TextIsTokens
<1> QED
  BY <1>1, SubSeqProperties

(* A line is a text of its own. *)
LEMMA LineIsText ==
    ASSUME IniTypes, pos <= Length
    PROVE  Line \in Seq(Token)
<1>1. PICK e \in pos - 1 .. LineStop - 1 : Line = SubSeq(file, pos, e)
  BY LineIs
<1>2. /\ file \in Seq(Token) /\ Len(file) \in Nat /\ pos \in Nat \ {0}
      /\ Length \in Nat /\ Length <= Len(file) /\ LineStop \in pos .. Length + 1
  BY LengthIs, LineStopIs, TextIsTokens DEF IniTypes
<1> QED
  BY <1>1, <1>2, PieceIsText

(* The place of a line's "=". *)
LEMMA EqIs ==
    ASSUME NEW t \in Seq(Token)
    PROVE  /\ Eq(t) \in 0 .. Len(t)
           /\ Eq(t) # 0 => t[Eq(t)] = Equals
           /\ \A i \in 1 .. Len(t) : t[i] = Equals => Eq(t) # 0 /\ Eq(t) <= i
<1> DEFINE S == {i \in DOMAIN t : t[i] = Equals}
<1>1. Len(t) \in Nat /\ DOMAIN t = 1 .. Len(t)
  BY TextIsTokens
<1>2. S \in SUBSET Nat /\ Eq(t) = First(S, 0)
  BY <1>1 DEF Eq
<1>3. S = {} => Eq(t) = 0
  BY <1>2, FirstIs
<1>4. S # {} => Eq(t) \in S /\ \A j \in S : Eq(t) <= j
  <2> HIDE DEF S
  <2> QED
    BY <1>2, FirstIs
<1> QED
  BY <1>1, <1>3, <1>4

(* So are the key and the value that are read from one. *)
LEMMA PairIsText ==
    ASSUME NEW t \in Seq(Token)
    PROVE  [key |-> KeyIn(t), value |-> ValueIn(t)] \in Pair
<1>1. Eq(t) \in Nat /\ Len(t) \in Nat /\ Eq(t) - 1 <= Len(t)
  BY EqIs, TextIsTokens
<1>2. KeyIn(t) \in Seq(Token)
  BY <1>1, PieceIsText DEF KeyIn
<1>3. ValueIn(t) \in Seq(Token)
  BY <1>1, PieceIsText DEF ValueIn
<1> QED
  BY <1>2, <1>3 DEF Pair

-----------------------------------------------------------------------------
(* What the lines say of a key. *)

IsKey(a, k) == Len(a) = 1 /\ a[1].is = "key" /\ a[1].v = k
KeysAs(k, q) == {n \in DOMAIN q : IsKey(q[n].key, k)}
SaidAt(i) ==
    LET ends == {j \in i + 2 .. Len(file) : file[j] \in {LineEnd, Comment}} IN
    SubSeq(file, i + 2, First(ends, Len(file) + 1) - 1)

(* A text is a key, in either case, if that is all there is in it. *)
LEMMA SpeltIs ==
    ASSUME NEW a \in Seq(Token), NEW k
    PROVE  iequal(a, <<Key(k, TRUE)>>) <=> IsKey(a, k)
<1> DEFINE b == <<Key(k, TRUE)>>
<1>1. Len(b) = 1 /\ b[1] = Key(k, TRUE)
  OBVIOUS
<1>2. Key(k, TRUE).is = "key" /\ Key(k, TRUE).v = k
  BY DEF Key
<1>3. DOMAIN a = 1 .. Len(a) /\ Len(a) \in Nat
  BY TextIsTokens
<1> HIDE DEF b
<1>4. ASSUME iequal(a, b) PROVE IsKey(a, k)
  <2>1. Len(a) = 1 /\ \A i \in DOMAIN a : a[i].is = b[i].is /\ a[i].v = b[i].v
    BY <1>1, <1>4 DEF iequal
  <2>2. 1 \in DOMAIN a
    BY <1>3, <2>1
  <2> QED
    BY <1>1, <1>2, <2>1, <2>2 DEF IsKey
<1>5. ASSUME IsKey(a, k) PROVE iequal(a, b)
  <2>1. Len(a) = 1 /\ a[1].is = b[1].is /\ a[1].v = b[1].v
    BY <1>1, <1>2, <1>5 DEF IsKey
  <2>2. \A i \in DOMAIN a : i = 1
    BY <1>3, <2>1
  <2>3. \A i \in DOMAIN a : a[i].is = b[i].is /\ a[i].v = b[i].v
    BY <2>1, <2>2
  <2> QED
    BY <1>1, <2>1, <2>3 DEF iequal
<1> QED
  BY <1>4, <1>5 DEF b

(* And those of every pair that was stored. *)
LEMMA PairsAreTexts ==
    ASSUME IniTypes
    PROVE  /\ Len(pairs) \in Nat /\ DOMAIN pairs = 1 .. Len(pairs)
           /\ \A n \in DOMAIN pairs :
                pairs[n] \in Pair /\ pairs[n].key \in Seq(Token) /\ pairs[n].value \in Seq(Token)
<1>1. Len(pairs) \in Nat /\ DOMAIN pairs = 1 .. Len(pairs)
  BY LenProperties DEF IniTypes
<1>2. \A n \in DOMAIN pairs : pairs[n] \in Pair
  BY <1>1, ElementOfSeq DEF IniTypes
<1>3. \A p \in Pair : p.key \in Seq(Token) /\ p.value \in Seq(Token)
  BY DEF Pair
<1> QED
  BY <1>1, <1>2, <1>3

(* Looking a key up, in terms of the set of pairs that have it. *)
LEMMA KeysAre ==
    ASSUME IniTypes, NEW k
    PROVE  /\ HasKey(k) <=> KeysAs(k, pairs) # {}
           /\ ValueOf(k) = pairs[Min(KeysAs(k, pairs))].value
           /\ KeysAs(k, pairs) \in SUBSET Nat
<1>1. \A n \in DOMAIN pairs : iequal(pairs[n].key, <<Key(k, TRUE)>>) <=> IsKey(pairs[n].key, k)
  BY PairsAreTexts, SpeltIs
<1>2. {n \in DOMAIN pairs : iequal(pairs[n].key, <<Key(k, TRUE)>>)} = KeysAs(k, pairs)
  BY <1>1 DEF KeysAs
<1>3. ValueOf(k) = pairs[Min(KeysAs(k, pairs))].value
  BY <1>2 DEF ValueOf
<1>4. HasKey(k) <=> KeysAs(k, pairs) # {}
  BY <1>2 DEF HasKey, Has
<1>5. KeysAs(k, pairs) \in SUBSET Nat
  BY PairsAreTexts DEF KeysAs
<1> QED
  BY <1>3, <1>4, <1>5

(* A value that is there is a text. *)
LEMMA ValueIsText ==
    ASSUME IniTypes, NEW k, HasKey(k)
    PROVE  ValueOf(k) \in Seq(Token)
<1>1. /\ KeysAs(k, pairs) \in SUBSET Nat /\ KeysAs(k, pairs) # {}
      /\ ValueOf(k) = pairs[Min(KeysAs(k, pairs))].value
  BY KeysAre
<1>2. Min(KeysAs(k, pairs)) \in KeysAs(k, pairs)
  BY <1>1, MinIsLeast
<1>3. Min(KeysAs(k, pairs)) \in DOMAIN pairs
  BY <1>2 DEF KeysAs
<1> QED
  BY <1>1, <1>3, PairsAreTexts

(* At most the beginning of a line sets a key. *)
LEMMA SetAtStart ==
    ASSUME IniTypes, pos <= Length, NEW k, NEW i \in Setting(k), pos <= i, i <= LineStop
    PROVE  i = pos
<1>1. i \in 1 .. Len(file) - 1 /\ (i = 1 \/ file[i - 1] = LineEnd)
  BY DEF Setting
<1>2. pos \in Nat \ {0} /\ Len(file) \in Nat /\ LineStop \in Int
  BY LineStopIs, LengthIs, TextIsTokens DEF IniTypes
<1>3. \A m \in pos .. LineStop - 1 : file[m] # LineEnd
  BY LineStopIs
<1> QED
  BY <1>1, <1>2, <1>3

(* It does if the line there is the key, "=" and a value. *)
LEMMA SetHere ==
    ASSUME IniTypes, pos <= Length, Length = Len(file), NEW k, pos \in Setting(k)
    PROVE  Eq(Line) = 2 /\ IsKey(KeyIn(Line), k)
<1>1. /\ pos \in 1 .. Len(file) - 1 /\ Len(file) \in Nat
      /\ file[pos].is = "key" /\ file[pos].v = k /\ file[pos + 1] = Equals
  BY TextIsTokens DEF Setting, IniTypes
<1>2. PICK e \in pos - 1 .. LineStop - 1 :
               /\ Line = SubSeq(file, pos, e)
               /\ e < LineStop - 1 => file[e + 1] = Comment
  BY LineIs
<1>3. LineStop \in pos .. Length + 1 /\ (LineStop <= Length => file[LineStop] = LineEnd)
  BY LineStopIs
<1>4. LineStop >= pos + 2
  <2>1. LineStop # pos
    BY <1>1, <1>3, MarksDiffer
  <2>2. LineStop # pos + 1
    <3> SUFFICES ASSUME LineStop = pos + 1 PROVE FALSE
      OBVIOUS
    <3>1. pos + 1 <= Length
      BY <1>1
    <3>2. file[pos + 1] = LineEnd
      BY <1>3, <3>1
    <3> QED
      BY <1>1, <3>2, MarksDiffer
  <2> QED
    BY <1>1, <1>3, <2>1, <2>2
<1>5. e >= pos + 1 /\ e <= Len(file)
  <2>0. e \in Int /\ e >= pos - 1 /\ e <= LineStop - 1 /\ LineStop \in Int
    BY <1>1, <1>3
  <2>1. e # pos - 1
    <3> SUFFICES ASSUME e = pos - 1 PROVE FALSE
      OBVIOUS
    <3>1. e < LineStop - 1 /\ e + 1 = pos
      BY <1>1, <1>4, <2>0
    <3>2. file[pos] = Comment
      BY <1>2, <3>1
    <3> QED
      BY <1>1, <3>2, MarksDiffer
  <2>2. e # pos
    <3> SUFFICES ASSUME e = pos PROVE FALSE
      OBVIOUS
    <3>1. e < LineStop - 1 /\ e + 1 = pos + 1
      BY <1>1, <1>4, <2>0
    <3>2. file[pos + 1] = Comment
      BY <1>2, <3>1
    <3> QED
      BY <1>1, <3>2, MarksDiffer
  <2> QED
    BY <1>1, <1>3, <2>0, <2>1, <2>2
<1> DEFINE t == Line
<1>6. t \in Seq(Token)
  BY LineIsText
<1>7. Len(t) = e - pos + 1 /\ \A i \in 1 .. e - pos + 1 : t[i] = file[pos + i - 1]
  <2>1. file \in Seq(Token) /\ pos \in Nat \ {0} /\ e \in Int
    BY <1>1, <1>2, <1>3 DEF IniTypes
  <2> QED
    BY <1>1, <1>2, <1>5, <2>1, PieceIsText
<1> HIDE DEF t
<1>8. t[1] = file[pos] /\ t[2] = file[pos + 1] /\ Len(t) \in Nat /\ Len(t) >= 2
  BY <1>1, <1>5, <1>7
<1>9. Eq(t) = 2
  <2>1. Eq(t) # 1
    BY <1>1, <1>6, <1>8, EqIs, MarksDiffer
  <2>2. Eq(t) # 0 /\ Eq(t) <= 2
    BY <1>1, <1>6, <1>8, EqIs
  <2>3. Eq(t) \in Nat
    BY <1>6, <1>8, EqIs
  <2> QED
    BY <2>1, <2>2, <2>3
<1>10. Len(KeyIn(t)) = 1 /\ KeyIn(t)[1] = t[1]
  <2>1. KeyIn(t) = SubSeq(t, 1, 1)
    BY <1>9 DEF KeyIn
  <2> QED
    BY <1>6, <1>8, <2>1, PieceIsText
<1>11. IsKey(KeyIn(t), k)
  BY <1>1, <1>8, <1>10 DEF IsKey
<1> QED
  BY <1>9, <1>11 DEF t

(* And a line of that form does, to the value the reader takes. *)
LEMMA LineSets ==
    ASSUME IniTypes, AtLine, pos <= Length, Length = Len(file), NEW k,
           Eq(Line) > 1, IsKey(KeyIn(Line), k)
    PROVE  pos \in Setting(k) /\ ValueIn(Line) = SaidAt(pos)
<1>1. pos \in Nat \ {0} /\ Len(file) \in Nat /\ file \in Seq(Token) /\ Room \in Nat
  BY TextIsTokens, TextAssumption DEF IniTypes
<1>2. PICK e \in pos - 1 .. LineStop - 1 :
               /\ Line = SubSeq(file, pos, e)
               /\ \A i \in pos .. e : file[i] # Comment
               /\ e < LineStop - 1 => file[e + 1] = Comment
  BY LineIs
<1>3. /\ LineStop \in pos .. Length + 1 /\ (LineStop <= Length => file[LineStop] = LineEnd)
      /\ \A i \in pos .. LineStop - 1 : file[i] # LineEnd
  BY LineStopIs
<1>4. e \in Int /\ pos - 1 <= e /\ e <= Len(file) /\ e <= LineStop - 1
  BY <1>1, <1>2, <1>3
<1> DEFINE t == Line
<1>5. t \in Seq(Token) /\ Len(t) \in Nat
  BY LineIsText, TextIsTokens
<1>6. Len(t) = e - pos + 1 /\ \A i \in 1 .. e - pos + 1 : t[i] = file[pos + i - 1]
  <2>1. Len(t) = IF pos <= e THEN e - pos + 1 ELSE 0
    BY <1>1, <1>2, <1>4, PieceIsText
  <2>2. \A i \in 1 .. e - pos + 1 : t[i] = file[pos + i - 1]
    BY <1>1, <1>2, <1>4, PieceIsText
  <2> QED
    BY <1>1, <1>4, <2>1, <2>2
<1>7. Eq(t) > 1 /\ IsKey(KeyIn(t), k)
  OBVIOUS
<1> HIDE DEF t
<1>8. Eq(t) = 2 /\ KeyIn(t)[1] = t[1] /\ Len(t) >= 2
  <2>1. Eq(t) \in Nat /\ Eq(t) <= Len(t)
    BY <1>5, EqIs
  <2>2. Len(KeyIn(t)) = Eq(t) - 1 /\ KeyIn(t)[1] = t[1]
    <3> DEFINE b == Eq(t) - 1
    <3>1. b \in Int /\ b <= Len(t) /\ 1 <= b /\ KeyIn(t) = SubSeq(t, 1, b)
      BY <1>5, <1>7, <2>1 DEF KeyIn
    <3> HIDE DEF b
    <3>2. Len(SubSeq(t, 1, b)) = b /\ SubSeq(t, 1, b)[1] = t[1]
      BY <1>5, <3>1, PieceIsText
    <3> QED
      BY <3>1, <3>2 DEF b
  <2>3. Eq(t) = 2
    BY <1>7, <2>1, <2>2 DEF IsKey
  <2> QED
    BY <1>5, <2>1, <2>2, <2>3
<1>9. t[2] = Equals
  BY <1>5, <1>8, EqIs
<1>10. /\ e >= pos + 1 /\ file[pos].is = "key" /\ file[pos].v = k
       /\ file[pos + 1] = Equals
  <2>1. e >= pos + 1 /\ t[1] = file[pos] /\ t[2] = file[pos + 1]
    BY <1>1, <1>4, <1>6, <1>8
  <2> QED
    BY <1>7, <1>8, <1>9, <2>1 DEF IsKey
<1>11. pos = 1 \/ file[pos - 1] = LineEnd
  BY <1>1, TextAssumption DEF AtLine, Length
<1>12. ~InComment(pos)
  <2> SUFFICES ASSUME NEW j \in 1 .. pos, file[j] = Comment,
                      \A m \in j .. pos : file[m] # LineEnd
               PROVE  FALSE
    BY DEF InComment
  <2>1. j # pos
    BY <1>10, MarksDiffer
  <2>2. j \in 1 .. pos - 1 /\ pos - 1 \in j .. pos
    BY <1>1, <2>1
  <2> QED
    BY <1>1, <1>11, <2>2
<1>13. pos \in Setting(k)
  BY <1>1, <1>4, <1>10, <1>11, <1>12 DEF Setting
<1>14. First({j \in pos + 2 .. Len(file) : file[j] \in {LineEnd, Comment}}, Len(file) + 1) = e + 1
  <2> DEFINE S == {j \in pos + 2 .. Len(file) : file[j] \in {LineEnd, Comment}}
  <2>1. S \in SUBSET Nat
    BY <1>1
  <2>2. \A j \in pos .. e : file[j] \notin {LineEnd, Comment}
    BY <1>1, <1>2, <1>3, <1>4
  <2>3. \A j \in S : e + 1 <= j
    BY <1>1, <1>4, <2>2
  <2>4. e < Len(file) => e + 1 \in S
    <3>1. CASE e < LineStop - 1
      BY <1>1, <1>2, <1>3, <1>4, <1>10, <3>1
    <3>2. CASE e = LineStop - 1
      BY <1>1, <1>3, <1>4, <1>10, <3>2
    <3> QED
      BY <1>3, <1>4, <3>1, <3>2
  <2>5. e >= Len(file) => S = {} /\ e + 1 = Len(file) + 1
    BY <1>1, <1>4, <2>3
  <2> HIDE DEF S
  <2>6. S # {} => First(S, Len(file) + 1) \in S /\ \A j \in S : First(S, Len(file) + 1) <= j
    BY <2>1, FirstIs
  <2>7. S = {} => First(S, Len(file) + 1) = Len(file) + 1
    BY <2>1, FirstIs
  <2>8. ASSUME S = {} PROVE First(S, Len(file) + 1) = e + 1
    <3>1. ~(e < Len(file))
      BY <2>4, <2>8
    <3> QED
      BY <1>1, <1>4, <2>5, <2>7, <2>8, <3>1
  <2>9. ASSUME S # {} PROVE First(S, Len(file) + 1) = e + 1
    <3>1. First(S, Len(file) + 1) \in Nat /\ e + 1 <= First(S, Len(file) + 1)
      BY <2>1, <2>3, <2>6, <2>9
    <3>2. e < Len(file)
      BY <1>1, <1>4, <2>5, <2>9
    <3>3. First(S, Len(file) + 1) <= e + 1
      BY <2>4, <2>6, <2>9, <3>2
    <3> QED
      BY <1>4, <3>1, <3>3
  <2> QED
    BY <2>8, <2>9 DEF S
<1>15. SaidAt(pos) = SubSeq(file, pos + 2, e)
  <2> DEFINE stop == First({j \in pos + 2 .. Len(file) : file[j] \in {LineEnd, Comment}},
                           Len(file) + 1)
  <2>1. SaidAt(pos) = SubSeq(file, pos + 2, stop - 1)
    BY Zenon DEF SaidAt
  <2>2. stop - 1 = e
    <3>1. stop = e + 1
      BY <1>14
    <3> HIDE DEF stop
    <3> QED
      BY <1>4, <3>1
  <2> HIDE DEF stop
  <2> QED
    BY <2>1, <2>2
<1>16. ValueIn(t) = SubSeq(t, 3, Len(t))
  BY <1>8 DEF ValueIn
<1>17. SubSeq(t, 3, Len(t)) = SubSeq(file, pos + 2, e)
  <2> DEFINE x == SubSeq(t, 3, Len(t))  y == SubSeq(file, pos + 2, e)
  <2>1. /\ x \in Seq(Token) /\ Len(x) = Len(t) - 2
        /\ \A i \in 1 .. Len(t) - 2 : x[i] = t[i + 2]
    <3>1. /\ x \in Seq(Token) /\ Len(x) = IF 3 <= Len(t) THEN Len(t) - 3 + 1 ELSE 0
          /\ \A i \in 1 .. Len(t) - 3 + 1 : x[i] = t[3 + i - 1]
      BY <1>5, PieceIsText
    <3> HIDE DEF x
    <3>2. ASSUME NEW i \in 1 .. Len(t) - 2 PROVE x[i] = t[i + 2]
      <4>1. i \in 1 .. Len(t) - 3 + 1 /\ 3 + i - 1 = i + 2
        BY <1>5, <1>8
      <4>2. x[i] = t[3 + i - 1]
        BY <3>1, <4>1
      <4> QED
        BY <4>1, <4>2
    <3>3. Len(x) = Len(t) - 2
      <4>1. Len(x) = IF 3 <= Len(t) THEN Len(t) - 3 + 1 ELSE 0
        BY <3>1
      <4>2. PICK n \in Nat : n = Len(t)
        BY <1>5
      <4>3. Len(x) = (IF 3 <= n THEN n - 3 + 1 ELSE 0) /\ n >= 2
        BY <1>8, <4>1, <4>2
      <4>4. (IF 3 <= n THEN n - 3 + 1 ELSE 0) = n - 2
        BY <4>3
      <4> QED
        BY <4>2, <4>3, <4>4
    <3> QED
      BY <3>1, <3>2, <3>3
  <2>2. /\ y \in Seq(Token) /\ Len(y) = e - pos - 1
        /\ \A i \in 1 .. e - pos - 1 : y[i] = file[pos + i + 1]
    <3>1. pos + 2 \in Nat \ {0}
      BY <1>1
    <3>2. /\ y \in Seq(Token) /\ Len(y) = IF pos + 2 <= e THEN e - (pos + 2) + 1 ELSE 0
          /\ \A i \in 1 .. e - (pos + 2) + 1 : y[i] = file[pos + 2 + i - 1]
      BY <1>1, <1>4, <3>1, PieceIsText
    <3> HIDE DEF y
    <3>3. ASSUME NEW i \in 1 .. e - pos - 1 PROVE y[i] = file[pos + i + 1]
      <4>1. i \in 1 .. e - (pos + 2) + 1 /\ pos + 2 + i - 1 = pos + i + 1
        BY <1>1, <1>4
      <4>2. y[i] = file[pos + 2 + i - 1]
        BY <3>2, <4>1
      <4> QED
        BY <4>1, <4>2
    <3>4. Len(y) = e - pos - 1
      BY <1>1, <1>4, <1>10, <3>2
    <3> QED
      BY <3>2, <3>3, <3>4
  <2>3. ASSUME NEW i \in 1 .. Len(t) - 2 PROVE t[i + 2] = file[pos + i + 1]
    <3>1. i + 2 \in 1 .. e - pos + 1 /\ pos + (i + 2) - 1 = pos + i + 1
      BY <1>1, <1>4, <1>6
    <3>2. t[i + 2] = file[pos + (i + 2) - 1]
      BY <1>6, <3>1
    <3> QED
      BY <3>1, <3>2
  <2> HIDE DEF x, y
  <2>4. Len(x) = Len(y) /\ \A i \in 1 .. Len(x) : x[i] = y[i]
    BY <1>1, <1>4, <1>6, <2>1, <2>2, <2>3
  <2>5. x = y
    BY <2>1, <2>2, <2>4, SeqEqual
  <2> QED
    BY <2>5 DEF x, y
<1> QED
  BY <1>13, <1>15, <1>16, <1>17 DEF t

(* What is known of a key when the lines before p gave the pairs q: no     *)
(* line set it and no pair has it, or one of each did, to the same value.  *)
Kept(k, p, q) ==
    \/ KeysAs(k, q) = {} /\ \A i \in Setting(k) : i >= p
    \/ \E i \in Setting(k), n \in DOMAIN q :
          /\ i < p /\ \A j \in Setting(k) : j = i \/ j >= p
          /\ KeysAs(k, q) = {n} /\ q[n].value = SaidAt(i)

IniInv ==
    /\ IniTypes /\ AtLine
    /\ ini = "ok" => pos > Length
    /\ ini \in {"reading", "ok"} /\ Len(file) <= Room => \A k \in kKnownKeys : Kept(k, pos, pairs)

(* The reader begins with no pair, which is what no line says. *)
LEMMA IniStarts ==
    ASSUME IniInit
    PROVE  IniInv
<1>1. file \in Seq(Token) /\ pos = 1 /\ pairs = <<>> /\ ini = "reading"
  BY FilesAssumption DEF IniInit
<1>2. IniTypes /\ AtLine
  <2>1. <<>> \in Seq(Pair)
    OBVIOUS
  <2> QED
    BY <1>1, <2>1 DEF IniTypes, AtLine
<1>3. ASSUME NEW k \in kKnownKeys PROVE Kept(k, pos, pairs)
  <2>1. KeysAs(k, pairs) = {}
    BY <1>1 DEF KeysAs
  <2>2. \A i \in Setting(k) : i >= pos
    <3>1. \A i \in Setting(k) : i \in 1 .. Len(file) - 1
      BY DEF Setting
    <3> QED
      BY <1>1, <3>1, TextIsTokens
  <2> QED
    BY <2>1, <2>2 DEF Kept
<1> QED
  BY <1>1, <1>2, <1>3 DEF IniInv

(* One line after another: first what becomes of pos. *)
LEMMA LineLeft ==
    ASSUME IniTypes, pos <= Length
    PROVE  /\ LineStop + 1 \in Nat \ {0} /\ LineStop + 1 > pos
           /\ \A k : \A i \in Setting(k) : i >= pos => i = pos \/ i >= LineStop + 1
<1>1. pos \in Nat \ {0} /\ Length \in Nat /\ LineStop \in pos .. Length + 1
  BY LineStopIs, LengthIs DEF IniTypes
<1>2. LineStop \in Nat \ {0}
  BY <1>1
<1>3. ASSUME NEW k, NEW i \in Setting(k), i >= pos PROVE i = pos \/ i >= LineStop + 1
  <2>1. i \in Int
    BY DEF Setting
  <2>2. CASE i <= LineStop
    BY <1>1, <1>3, <2>2, SetAtStart
  <2> QED
    BY <1>2, <2>1, <2>2
<1> QED
  BY <1>1, <1>2, <1>3

(* A line that does not set a key leaves what is known of it.              *)
LEMMA KeptStays ==
    ASSUME IniTypes, pos <= Length, NEW k, NEW q, Kept(k, pos, pairs), pos \notin Setting(k),
           KeysAs(k, q) = KeysAs(k, pairs), \A n \in DOMAIN pairs : n \in DOMAIN q /\ q[n] = pairs[n]
    PROVE  Kept(k, LineStop + 1, q)
<1>1. /\ LineStop + 1 \in Nat /\ LineStop + 1 > pos /\ pos \in Nat
      /\ \A i \in Setting(k) : i \in Int /\ (i >= pos => i >= LineStop + 1)
  <2>1. \A i \in Setting(k) : i \in Int
    BY DEF Setting
  <2> QED
    BY <2>1, LineLeft DEF IniTypes
<1>2. CASE KeysAs(k, pairs) = {} /\ \A i \in Setting(k) : i >= pos
  BY <1>1, <1>2 DEF Kept
<1>3. CASE \E i \in Setting(k), n \in DOMAIN pairs :
          /\ i < pos /\ \A j \in Setting(k) : j = i \/ j >= pos
          /\ KeysAs(k, pairs) = {n} /\ pairs[n].value = SaidAt(i)
  <2>1. PICK i \in Setting(k), n \in DOMAIN pairs :
          /\ i < pos /\ \A j \in Setting(k) : j = i \/ j >= pos
          /\ KeysAs(k, pairs) = {n} /\ pairs[n].value = SaidAt(i)
    BY <1>3
  <2>2. i < LineStop + 1 /\ \A j \in Setting(k) : j = i \/ j >= LineStop + 1
    BY <1>1, <2>1
  <2>3. n \in DOMAIN q /\ KeysAs(k, q) = {n} /\ q[n].value = SaidAt(i)
    BY <2>1
  <2> QED
    BY <2>2, <2>3 DEF Kept
<1> QED
  BY <1>2, <1>3 DEF Kept

(* A line that does sets it for the first time. *)
LEMMA KeptSet ==
    ASSUME IniTypes, AtLine, pos <= Length, Length = Len(file), NEW k, Kept(k, pos, pairs),
           Eq(Line) > 1, IsKey(KeyIn(Line), k), ~Has(KeyIn(Line)),
           NEW q, q = Append(pairs, [key |-> KeyIn(Line), value |-> ValueIn(Line)])
    PROVE  Kept(k, LineStop + 1, q)
<1> DEFINE p == [key |-> KeyIn(Line), value |-> ValueIn(Line)]
           m == Len(pairs) + 1
<1>1. /\ Len(pairs) \in Nat /\ DOMAIN pairs = 1 .. Len(pairs)
      /\ \A n \in DOMAIN pairs : pairs[n].key \in Seq(Token)
  BY PairsAreTexts
<1>2. Line \in Seq(Token) /\ p \in Pair /\ KeyIn(Line) \in Seq(Token)
  <2>1. Line \in Seq(Token) /\ p \in Pair
    BY LineIsText, PairIsText
  <2>2. p.key = KeyIn(Line) /\ \A x \in Pair : x.key \in Seq(Token)
    BY DEF Pair
  <2> QED
    BY <2>1, <2>2
<1>3. ASSUME NEW n \in DOMAIN pairs PROVE ~IsKey(pairs[n].key, k)
  <2>1. ~iequal(pairs[n].key, KeyIn(Line))
    BY DEF Has
  <2>2. DOMAIN pairs[n].key = 1 .. Len(pairs[n].key)
    BY <1>1, TextIsTokens
  <2>3. ASSUME IsKey(pairs[n].key, k) PROVE FALSE
    <3> DEFINE a == pairs[n].key  b == KeyIn(Line)
    <3>1. Len(a) = 1 /\ Len(b) = 1 /\ a[1].is = b[1].is /\ a[1].v = b[1].v
      BY <2>3 DEF IsKey
    <3>2. \A i \in DOMAIN a : i = 1
      BY <2>2, <3>1
    <3>3. iequal(a, b)
      BY <3>1, <3>2 DEF iequal
    <3> QED
      BY <2>1, <3>3
  <2> QED
    BY <2>3
<1>4. /\ q \in Seq(Pair) /\ Len(q) = m /\ q[m] = p
      /\ \A n \in 1 .. Len(pairs) : q[n] = pairs[n]
  <2> HIDE DEF p
  <2> QED
    BY <1>2, AppendProperties DEF IniTypes, p
<1>5. DOMAIN q = 1 .. m /\ m \in DOMAIN q
  BY <1>1, <1>4, LenProperties
<1>6. KeysAs(k, q) = {m}
  <2>1. ASSUME NEW n \in DOMAIN q, n # m PROVE ~IsKey(q[n].key, k)
    <3>1. n \in DOMAIN pairs /\ q[n] = pairs[n]
      BY <1>1, <1>4, <1>5, <2>1
    <3> QED
      BY <1>3, <3>1
  <2>2. q[m].key = KeyIn(Line)
    BY <1>4
  <2>3. IsKey(q[m].key, k)
    BY <2>2
  <2> HIDE DEF m
  <2> QED
    BY <1>5, <2>1, <2>3 DEF KeysAs
<1>7. pos \in Setting(k) /\ ValueIn(Line) = SaidAt(pos)
  BY LineSets
<1>8. q[m].value = SaidAt(pos)
  BY <1>4, <1>7
<1>9. \A i \in Setting(k) : i >= pos
  <2>1. KeysAs(k, pairs) = {}
    BY <1>3 DEF KeysAs
  <2> QED
    BY <2>1 DEF Kept
<1>10. /\ pos < LineStop + 1
       /\ \A j \in Setting(k) : j = pos \/ j >= LineStop + 1
  <2>1. pos \in Nat /\ LineStop + 1 \in Nat /\ LineStop + 1 > pos
    BY LineLeft DEF IniTypes
  <2> QED
    BY <1>9, <2>1, LineLeft
<1> HIDE DEF m
<1> QED
  BY <1>5, <1>6, <1>7, <1>8, <1>10 DEF Kept

(* Setting and SaidAt depend on the file only. *)
LEMMA SameFile ==
    ASSUME UNCHANGED file
    PROVE  /\ Length' = Length
           /\ \A k : Setting(k)' = Setting(k)
           /\ \A i : SaidAt(i)' = SaidAt(i)
<1>1. Length' = Length
  BY DEF Length
<1>2. \A k : Setting(k)' = Setting(k)
  BY DEF Setting, InComment
<1>3. \A i : SaidAt(i)' = SaidAt(i)
  BY DEF SaidAt
<1> QED
  BY <1>1, <1>2, <1>3

(* What Kept says of pairs depends on nothing but the file. *)
LEMMA SameKept ==
    ASSUME UNCHANGED file, NEW k, NEW p, NEW q, Kept(k, p, q)
    PROVE  Kept(k, p, q)'
  BY SameFile DEF Kept, KeysAs, IsKey

(* A line that is skipped, refused or stored changes the pairs of its own *)
(* key only.                                                              *)
LEMMA LineKeeps ==
    ASSUME IniInv, ReadLine
    PROVE  IniInv'
<1>1. /\ IniTypes /\ AtLine /\ ini = "reading" /\ pos <= Length
      /\ pos' = LineStop + 1 /\ UNCHANGED file
      /\ SkipLine(Line) \/ RefuseLine(Line) \/ StorePair(Line)
  BY DEF IniInv, ReadLine
<1>2. Len(file) <= Room => Length = Len(file) /\ \A k \in kKnownKeys : Kept(k, pos, pairs)
  BY <1>1, LengthIs DEF IniInv
<1>3. AtLine' /\ file' \in Seq(Token) /\ pos' \in Nat \ {0}
  <2>1. file' \in Seq(Token) /\ pos' \in Nat \ {0}
    BY <1>1, LineLeft DEF IniTypes
  <2>2. pos' = 1 \/ pos' = Length + 2 \/ file[pos' - 1] = LineEnd
    <3>1. /\ LineStop \in pos .. Length + 1 /\ pos \in Int /\ Length \in Int
          /\ LineStop <= Length => file[LineStop] = LineEnd
      BY <1>1, LineStopIs, LengthIs DEF IniTypes
    <3>2. pos' - 1 = LineStop /\ (LineStop = Length + 1 \/ LineStop <= Length)
      BY <1>1, <3>1
    <3> QED
      BY <1>1, <3>1, <3>2
  <2>3. AtLine'
    BY <1>1, <2>2, SameFile DEF AtLine
  <2> QED
    BY <2>1, <2>3
<1>4. CASE SkipLine(Line)
  <2>1. Line = <<>> /\ pairs' = pairs /\ ini' = ini
    BY <1>4 DEF SkipLine
  <2>2. ASSUME Len(file) <= Room, NEW k \in kKnownKeys PROVE Kept(k, pos', pairs')
    <3>1. Eq(Line) # 2
      <4>1. Line \in Seq(Token) /\ Len(Line) = 0
        BY <1>1, <2>1, LineIsText
      <4>2. Eq(Line) \in 0 .. Len(Line)
        BY <4>1, EqIs
      <4> QED
        BY <4>1, <4>2
    <3>2. pos \notin Setting(k)
      BY <1>1, <1>2, <2>2, <3>1, SetHere
    <3>3. Kept(k, LineStop + 1, pairs)
      BY <1>1, <1>2, <2>2, <3>2, KeptStays
    <3> QED
      BY <1>1, <2>1, <3>3
  <2> QED
    BY <1>1, <1>3, <2>1, <2>2, SameKept DEF IniInv, IniTypes
<1>5. CASE RefuseLine(Line)
  <2>1. pairs' = pairs /\ ini' \notin {"reading", "ok"}
    BY <1>5 DEF RefuseLine
  <2> QED
    BY <1>1, <1>3, <2>1 DEF IniInv, IniTypes
<1>6. CASE StorePair(Line)
  <2> DEFINE p == [key |-> KeyIn(Line), value |-> ValueIn(Line)]
  <2>1. Eq(Line) > 1 /\ ~Has(KeyIn(Line)) /\ pairs' = Append(pairs, p) /\ ini' = ini
    BY <1>6 DEF StorePair
  <2>2. p \in Pair
    BY <1>1, LineIsText, PairIsText
  <2>3. pairs' \in Seq(Pair) /\ Len(pairs') = Len(pairs) + 1
        /\ (\A n \in 1 .. Len(pairs) : pairs'[n] = pairs[n]) /\ pairs'[Len(pairs) + 1] = p
    <3> HIDE DEF p
    <3> QED
      BY <1>1, <2>1, <2>2, AppendProperties DEF IniTypes
  <2>4. ASSUME Len(file) <= Room, NEW k \in kKnownKeys PROVE Kept(k, pos', pairs')
    <3>1. CASE IsKey(KeyIn(Line), k)
      <4>1. Kept(k, LineStop + 1, pairs')
        BY <1>1, <1>2, <2>1, <2>4, <3>1, KeptSet
      <4> QED
        BY <1>1, <4>1
    <3>2. CASE ~IsKey(KeyIn(Line), k)
      <4>1. pos \notin Setting(k)
        BY <1>1, <1>2, <2>4, <3>2, SetHere
      <4>2. Len(pairs) \in Nat /\ DOMAIN pairs = 1 .. Len(pairs) /\ DOMAIN pairs' = 1 .. Len(pairs) + 1
        BY <1>1, <2>3, PairsAreTexts, LenProperties
      <4>3. p.key = KeyIn(Line)
        OBVIOUS
      <4> HIDE DEF p
      <4>4. ASSUME NEW n PROVE n \in KeysAs(k, pairs') <=> n \in KeysAs(k, pairs)
        <5>1. CASE n \in DOMAIN pairs
          BY <2>3, <4>2, <5>1 DEF KeysAs
        <5>2. CASE n = Len(pairs) + 1
          BY <2>3, <3>2, <4>2, <4>3, <5>2 DEF KeysAs
        <5>3. CASE n \notin DOMAIN pairs'
          BY <4>2, <5>3 DEF KeysAs
        <5> QED
          BY <4>2, <5>1, <5>2, <5>3
      <4>5. KeysAs(k, pairs') = KeysAs(k, pairs)
        BY <4>4
      <4>6. \A n \in DOMAIN pairs : n \in DOMAIN pairs' /\ pairs'[n] = pairs[n]
        BY <2>3, <4>2
      <4>7. Kept(k, LineStop + 1, pairs')
        BY <1>1, <1>2, <2>4, <4>1, <4>5, <4>6, KeptStays
      <4> QED
        BY <1>1, <4>7
    <3> QED
      BY <3>1, <3>2
  <2>5. UNCHANGED ini
    BY <2>1
  <2> QED
    BY <1>1, <1>3, <2>3, <2>4, <2>5, SameKept DEF IniInv, IniTypes
<1> QED
  BY <1>1, <1>4, <1>5, <1>6

(* The end of the text changes no pair. *)
LEMMA EndKeeps ==
    ASSUME IniInv, EndOfText
    PROVE  IniInv'
<1>1. /\ ini = "reading" /\ pos > Length /\ ini' = "ok" /\ UNCHANGED <<file, pos, pairs>>
  BY DEF EndOfText
<1>2. IniTypes' /\ AtLine' /\ Length' = Length
  BY <1>1, SameFile DEF IniInv, IniTypes, AtLine
<1>3. Len(file) <= Room => \A k \in kKnownKeys : Kept(k, pos, pairs)
  BY <1>1 DEF IniInv
<1>4. Len(file') <= Room => \A k \in kKnownKeys : Kept(k, pos, pairs)'
  BY <1>1, <1>3, SameKept
<1> QED
  BY <1>1, <1>2, <1>4 DEF IniInv

(* Nor does a step that leaves the reader alone. *)
LEMMA IniStays ==
    ASSUME IniInv, UNCHANGED iniVars
    PROVE  IniInv'
<1>1. UNCHANGED <<file, pos, pairs, ini>>
  BY DEF iniVars
<1>2. IniTypes' /\ AtLine' /\ Length' = Length
  BY <1>1, SameFile DEF IniInv, IniTypes, AtLine
<1>3. ASSUME NEW k \in kKnownKeys, Kept(k, pos, pairs) PROVE Kept(k, pos, pairs)'
  BY <1>1, <1>3, SameKept
<1> QED
  BY <1>1, <1>2, <1>3 DEF IniInv

-----------------------------------------------------------------------------
(* The configuration. *)

U32 == 0 .. Width - 1
ConfigType ==
    [mode : {"Stepped", "RampUp", "RampDown", "Hold", "none"},
     start : U32 \union {Bad}, end : U32 \union {Bad}, step : U32 \union {Bad},
     settle : U32 \union {Bad}, samples : U32 \union {Bad},
     up : Nat \union {NaN, Bad}, down : Nat \union {NaN, Bad}, hold : U32 \union {Bad}]

(* At the ceiling every gap still takes MinTicks ticks. *)
LEMMA CeilingIs ==
    /\ Ceiling \in Nat \ {0} /\ Ceiling < Width
    /\ \A g \in Gaps \union {Wheel} : Ceiling * (Wheel * MinTicks) <= g * TicksPerMin
<1> DEFINE S == Gaps \union {Wheel}  m == Min(S)  d == Wheel * MinTicks
<1>1. Wheel \in Nat \ {0} /\ TicksPerMin \in Nat \ {0} /\ MinTicks \in Nat \ {0}
  BY NumbersAssumption
<1>2. S \in SUBSET Nat /\ S # {}
  BY <1>1, CeilingAssumption
<1> HIDE DEF S
<1>3. m \in Nat /\ \A g \in S : g \in Nat /\ m <= g
  BY <1>2, MinIsLeast
<1>4. Ceiling = (m * TicksPerMin) \div d
  BY DEF Ceiling, rpm_max_hw, S
<1> HIDE DEF m
<1>5. d \in Nat \ {0} /\ m * TicksPerMin \in Nat
  BY <1>1, <1>3
<1>6. Ceiling \in Nat /\ d * Ceiling <= m * TicksPerMin
  <2> DEFINE x == m * TicksPerMin
  <2>0. x \in Nat
    BY <1>5
  <2> HIDE DEF d, x
  <2>1. /\ x \div d \in Nat /\ x % d \in Nat
        /\ x = d * (x \div d) + (x % d)
    BY <1>5, <2>0, Division
  <2>2. d * (x \div d) \in Nat
    BY <1>5, <2>1
  <2>3. d * (x \div d) <= x
    BY <2>0, <2>1, <2>2
  <2> QED
    BY <1>4, <2>1, <2>3 DEF x
<1>7. ASSUME NEW g \in S PROVE Ceiling * d <= g * TicksPerMin
  <2>1. m * TicksPerMin <= g * TicksPerMin
    BY <1>1, <1>3, ProductGrows
  <2>2. Ceiling * d = d * Ceiling /\ d * Ceiling \in Nat /\ g * TicksPerMin \in Nat
    <3> HIDE DEF d
    <3> QED
      BY <1>1, <1>3, <1>5, <1>6
  <2> QED
    BY <1>5, <1>6, <2>1, <2>2
<1>8. Ceiling >= 1 /\ Ceiling < Width
  <2>1. DefaultHold \in 1 .. Ceiling /\ 2 * Ceiling < Width /\ Width \in Nat
    BY CeilingAssumption, TextAssumption
  <2> QED
    BY <1>6, <2>1
<1> QED
  BY <1>6, <1>7, <1>8 DEF S

(* A value is parsed to a number of its width, to NaN, or to none. *)
LEMMA ParsedTypes ==
    ASSUME NEW s \in Seq(Token)
    PROVE  /\ ParseU32(s) \in U32 \union {Bad}
           /\ ParseF32(s) \in Nat \union {NaN, Bad}
<1>1. Number(s) \in Nat
  BY NumberIsNat
<1>2. ParseU32(s) \in U32 \union {Bad}
  BY <1>1, TextAssumption DEF ParseU32, U32
<1>3. ParseF32(s) \in Nat \union {NaN, Bad}
  BY <1>1, FloatAssumption DEF ParseF32
<1> QED
  BY <1>2, <1>3

(* A mode is one of the four, or none. *)
LEMMA ModeType ==
    ASSUME NEW s
    PROVE  ParseRunMode(s) \in {"Stepped", "RampUp", "RampDown", "Hold", "none"}
<1>1. DOMAIN Modes = 1 .. 4
  BY DEF Modes
<1>2. CASE \E w \in DOMAIN Modes : s = <<Word(w)>>
  <2>1. PICK w \in 1 .. 4 : s = <<Word(w)>>
    BY <1>1, <1>2
  <2>2. s[1].v = w
    BY <2>1 DEF Word
  <2>3. ParseRunMode(s) = Modes[w]
    BY <1>2, <2>2 DEF ParseRunMode
  <2>4. w = 1 \/ w = 2 \/ w = 3 \/ w = 4
    BY <2>1
  <2> QED
    BY <2>3, <2>4 DEF Modes
<1>3. CASE ~\E w \in DOMAIN Modes : s = <<Word(w)>>
  BY <1>3 DEF ParseRunMode
<1> QED
  BY <1>2, <1>3

(* A configuration that was loaded has its types. *)
LEMMA ConfigTyped ==
    ASSUME IniTypes, KeysFit
    PROVE  Config \in ConfigType
<1>1. \A k \in kRequiredKeys : ValueOf(k) \in Seq(Token)
  BY ValueIsText DEF KeysFit
<1>2. /\ RUN_MODE \in kRequiredKeys /\ SWEEP_START_RPM \in kRequiredKeys
      /\ SWEEP_END_RPM \in kRequiredKeys /\ SWEEP_STEP_RPM \in kRequiredKeys
      /\ SWEEP_SETTLE_REVS \in kRequiredKeys /\ SWEEP_SAMPLES \in kRequiredKeys
      /\ RAMP_UP_RPM_PER_S \in kRequiredKeys /\ RAMP_DOWN_RPM_PER_S \in kRequiredKeys
  BY DEF kRequiredKeys, kKnownKeys, RUN_MODE, SWEEP_START_RPM, SWEEP_END_RPM, SWEEP_STEP_RPM,
         SWEEP_SETTLE_REVS, SWEEP_SAMPLES, RAMP_UP_RPM_PER_S, RAMP_DOWN_RPM_PER_S, HOLD_RPM
<1>3. ASSUME HasKey(HOLD_RPM) PROVE ValueOf(HOLD_RPM) \in Seq(Token)
  BY <1>3, ValueIsText
<1>4. DefaultHold \in U32
  BY CeilingAssumption, CeilingIs, TextAssumption DEF U32
<1>5. (IF HasKey(HOLD_RPM) THEN ParseU32(ValueOf(HOLD_RPM)) ELSE DefaultHold) \in U32 \union {Bad}
  BY <1>3, <1>4, ParsedTypes
<1>6. /\ ParseU32(ValueOf(SWEEP_START_RPM)) \in U32 \union {Bad}
      /\ ParseU32(ValueOf(SWEEP_END_RPM)) \in U32 \union {Bad}
      /\ ParseU32(ValueOf(SWEEP_STEP_RPM)) \in U32 \union {Bad}
      /\ ParseU32(ValueOf(SWEEP_SETTLE_REVS)) \in U32 \union {Bad}
      /\ ParseU32(ValueOf(SWEEP_SAMPLES)) \in U32 \union {Bad}
      /\ ParseF32(ValueOf(RAMP_UP_RPM_PER_S)) \in Nat \union {NaN, Bad}
      /\ ParseF32(ValueOf(RAMP_DOWN_RPM_PER_S)) \in Nat \union {NaN, Bad}
  BY <1>1, <1>2, ParsedTypes
<1> QED
  BY <1>5, <1>6, ModeType DEF Config, ConfigType

(* What the checks leave of it. *)
LEMMA AcceptedTypes ==
    ASSUME c \in ConfigType, Accepted
    PROVE  /\ c.mode \in {"Stepped", "RampUp", "RampDown", "Hold"}
           /\ {c.start, c.end, c.step, c.hold} \subseteq Nat
           /\ c.start <= c.end /\ c.end <= Ceiling /\ c.step >= 1 /\ c.step < Width
           /\ c.up \in (Nat \ {0}) \union {NaN} /\ c.down \in (Nat \ {0}) \union {NaN}
           /\ c.mode = "Hold" => c.hold <= Ceiling /\ c.hold # 0
           /\ c.mode \in Ramps => c.start < c.end
<1>1. /\ c.mode # "none"
      /\ c.start # Bad /\ c.end # Bad /\ c.step # Bad /\ c.up # Bad /\ c.down # Bad /\ c.hold # Bad
  BY DEF Accepted, NumbersParse, ConfigType
<1>2. /\ c.mode \in {"Stepped", "RampUp", "RampDown", "Hold"}
      /\ c.start \in U32 /\ c.end \in U32 /\ c.step \in U32 /\ c.hold \in U32
      /\ c.up \in Nat \union {NaN} /\ c.down \in Nat \union {NaN}
  BY <1>1 DEF ConfigType
<1>3. c.start <= c.end /\ (c.mode \in Ramps => c.start < c.end) /\ c.end <= Ceiling /\ c.step # 0
  BY DEF Accepted, SpanFits, CountsFit
<1>4. c.up \in (Nat \ {0}) \union {NaN} /\ c.down \in (Nat \ {0}) \union {NaN}
  BY <1>2 DEF Accepted, RatesFit, AtMost
<1>5. c.mode = "Hold" => c.hold <= Ceiling /\ c.hold # 0
  BY DEF Accepted, HoldFits
<1>6. /\ {c.start, c.end, c.step, c.hold} \subseteq Nat
      /\ c.step >= 1 /\ c.step < Width
  BY <1>2, <1>3, TextAssumption DEF U32
<1> QED
  BY <1>2, <1>3, <1>4, <1>5, <1>6

-----------------------------------------------------------------------------
(* The state of a schedule. *)

Loaded == phase \notin {"read", "rejected"} => ini = "ok" /\ KeysFit /\ c = Config
Running == phase \in {"stepped", "ramp", "hold", "over"} => Accepted
StepTypes == phase = "stepped" => c.mode = "Stepped" /\ rpm \in 0 .. c.end
RampTypes == phase = "ramp" => c.mode \in Ramps /\ (rpm = NaN \/ rpm \in Nat)
HoldTypes == phase = "hold" => c.mode = "Hold" /\ rpm \in Nat /\ Rounded(rpm) = rpm
SpeedTypes == \A s \in speeds : s = NaN \/ s \in Nat \ {0}
Counters == target \in Nat /\ retargets \in 0 .. Retargets /\ elapsed \in Nat

CoreInv ==
    /\ IniInv /\ phase \in Phases /\ Loaded /\ Running
    /\ StepTypes /\ RampTypes /\ HoldTypes /\ SpeedTypes /\ Counters

(* The configuration follows from the pairs, and its checks from it. *)
LEMMA SameIni ==
    ASSUME UNCHANGED iniVars
    PROVE  KeysFit' = KeysFit /\ Config' = Config /\ ini' = ini
<1>1. pairs' = pairs /\ ini' = ini
  BY DEF iniVars
<1>2. \A k : HasKey(k)' = HasKey(k) /\ ValueOf(k)' = ValueOf(k)
  BY <1>1 DEF HasKey, Has, ValueOf
<1>3. KeysFit' = KeysFit
  BY <1>1, <1>2 DEF KeysFit
<1>4. Config' = Config
  BY <1>2 DEF Config
<1> QED
  BY <1>1, <1>3, <1>4

(* Whether a configuration is accepted depends on nothing but it. *)
LEMMA SameConfig ==
    ASSUME UNCHANGED c
    PROVE  Accepted' = Accepted
  BY DEF Accepted, NumbersParse, SpanFits, CountsFit, RatesFit, HoldFits

(* After loading there is a configuration. *)
LEMMA Checked ==
    ASSUME CoreInv, phase \notin {"read", "rejected"}
    PROVE  c \in ConfigType
  BY ConfigTyped DEF CoreInv, Loaded, IniInv

(* The schedule goes on, or begins, with the configuration it has. *)
LEMMA Proceeds ==
    ASSUME CoreInv, UNCHANGED <<iniVars, c>>, phase \notin {"read", "rejected"},
           phase' \in Phases \ {"read", "rejected"},
           phase \in {"stepped", "ramp", "hold", "over"} \/ Accepted
    PROVE  IniInv' /\ Loaded' /\ Running' /\ phase' \in Phases
<1>1. IniInv'
  BY IniStays DEF CoreInv
<1>2. Loaded'
  BY SameIni DEF CoreInv, Loaded
<1>3. Accepted
  BY DEF CoreInv, Running
<1>4. Running'
  BY <1>3, SameConfig DEF Running
<1> QED
  BY <1>1, <1>2, <1>4

(* CoreInv holds at boot. *)
LEMMA CoreStarts ==
    ASSUME Init
    PROVE  CoreInv
<1>1. IniInv
  BY IniStarts DEF Init
<1> QED
  BY <1>1, PassesAssumption
     DEF Init, CoreInv, Phases, Loaded, Running, StepTypes, RampTypes, HoldTypes, SpeedTypes, Counters

(* Reading a line keeps it. *)
LEMMA ReadCore ==
    ASSUME CoreInv, ReadText
    PROVE  CoreInv'
<1>1. phase = "read" /\ IniNext /\ UNCHANGED <<phase, c, runVars>>
  BY DEF ReadText
<1>2. IniInv'
  BY <1>1, LineKeeps, EndKeeps DEF IniNext, CoreInv
<1>3. Counters' /\ SpeedTypes'
  BY <1>1 DEF CoreInv, Counters, SpeedTypes, runVars
<1> QED
  BY <1>1, <1>2, <1>3
     DEF CoreInv, Loaded, Running, StepTypes, RampTypes, HoldTypes, Phases

(* So does loading what was read. *)
LEMMA LoadCore ==
    ASSUME CoreInv, LoadConfig
    PROVE  CoreInv'
<1>1. /\ ini = "ok" /\ KeysFit /\ phase' = "load" /\ c' = Config
      /\ UNCHANGED <<iniVars, runVars>>
  BY DEF LoadConfig
<1>2. IniInv'
  BY <1>1, IniStays DEF CoreInv
<1>3. Counters' /\ SpeedTypes'
  BY <1>1 DEF CoreInv, Counters, SpeedTypes, runVars
<1>4. Loaded'
  BY <1>1, SameIni DEF Loaded
<1> QED
  BY <1>1, <1>2, <1>3, <1>4
     DEF CoreInv, Running, StepTypes, RampTypes, HoldTypes, Phases

(* So does refusing the configuration. *)
LEMMA RejectCore ==
    ASSUME CoreInv, Reject
    PROVE  CoreInv'
<1>1. phase' = "rejected" /\ UNCHANGED <<iniVars, c, runVars>>
  BY DEF Reject
<1>2. IniInv'
  BY <1>1, IniStays DEF CoreInv
<1>3. Counters' /\ SpeedTypes'
  BY <1>1 DEF CoreInv, Counters, SpeedTypes, runVars
<1> QED
  BY <1>1, <1>2, <1>3
     DEF CoreInv, Loaded, Running, StepTypes, RampTypes, HoldTypes, Phases

(* A speed of zero is replaced by one. *)
LEMMA NonZeroIs ==
    ASSUME NEW n \in Nat
    PROVE  NonZero(n) \in Nat \ {0} /\ (n # 0 => NonZero(n) = n) /\ (n = 0 => NonZero(n) = 1)
  BY DEF NonZero

(* The speed that is commanded for x quanta. *)
LEMMA RpmIs ==
    ASSUME NEW x \in Nat \union {NaN}
    PROVE  /\ x = NaN => Rpm(x) = NaN
           /\ x # NaN => /\ Rpm(x) \in Nat \ {0}
                         /\ \A n \in Nat \ {0} : x <= Scale * n => Rpm(x) <= n
<1>1. x = NaN => Rpm(x) = NaN
  BY DEF Rpm
<1>2. ASSUME x # NaN
      PROVE  /\ Rpm(x) \in Nat \ {0}
             /\ \A n \in Nat \ {0} : x <= Scale * n => Rpm(x) <= n
  <2> DEFINE d == 2 * Scale  y == 2 * x + Scale  q == y \div d
  <2>1. Scale \in Nat \ {0} /\ x \in Nat
    BY <1>2, FloatAssumption
  <2>2. d \in Nat \ {0} /\ y \in Nat
    BY <2>1
  <2>3. q \in Nat /\ y % d \in Nat /\ y = d * q + (y % d)
    <3> HIDE DEF d, y
    <3> QED
      BY <2>2, Division
  <2>4. Rpm(x) = NonZero(q)
    BY <1>2 DEF Rpm
  <2>5. ASSUME NEW n \in Nat \ {0}, x <= Scale * n PROVE q <= n
    <3>1. d * q <= 2 * (Scale * n) + Scale
      <4> HIDE DEF q
      <4>1. d * q \in Nat /\ Scale * n \in Nat
        BY <2>1, <2>2, <2>3
      <4>2. d * q <= y
        <5> HIDE DEF d, y
        <5>1. d * q \in Nat
          BY <2>2, <2>3
        <5> QED
          BY <2>2, <2>3, <5>1
      <4> QED
        BY <2>1, <2>5, <4>1, <4>2
    <3>2. 2 * (Scale * n) + Scale < d * (n + 1)
      <4>1. d * (n + 1) = 2 * (Scale * n) + 2 * Scale
        BY <2>1
      <4>2. Scale * n \in Nat
        BY <2>1
      <4> QED
        BY <2>1, <4>1, <4>2
    <3>3. d * q < d * (n + 1)
      <4> HIDE DEF d, q
      <4>1. d * q \in Nat /\ d * (n + 1) \in Nat /\ Scale * n \in Nat
        BY <2>1, <2>2, <2>3
      <4> QED
        BY <2>1, <3>1, <3>2, <4>1
    <3>4. q < n + 1
      <4> HIDE DEF d, q
      <4> QED
        BY <2>2, <2>3, <3>3, ProductLess
    <3> HIDE DEF q
    <3> QED
      BY <2>3, <3>4
  <2> HIDE DEF q
  <2> QED
    BY <2>3, <2>4, <2>5, NonZeroIs
<1> QED
  BY <1>1, <1>2

(* The ceiling is a speed that a float represents exactly. *)
LEMMA SpeedsFit ==
    /\ Ceiling \in Nat /\ Exact \in Nat /\ Ceiling <= Exact /\ Ceiling \in 0 .. Exact
    /\ Scale \in Nat /\ Scale * Ceiling \in Nat
<1>1. Ceiling \in Nat
  BY CeilingIs
<1>2. Exact \in Nat /\ Scale \in Nat
  BY FloatAssumption
<1>3. Ceiling <= Exact
  BY CeilingAssumption
<1> QED
  BY <1>1, <1>2, <1>3

(* The two ends of a ramp are whole speeds, so floats. *)
LEMMA EndsAre ==
    ASSUME c \in ConfigType, Accepted
    PROVE  /\ From \in Nat /\ Bound \in Nat
           /\ From <= Scale * Ceiling /\ Bound <= Scale * Ceiling
<1>0. c.start \in Nat /\ c.end \in Nat /\ c.start <= c.end /\ c.end <= Ceiling
  BY AcceptedTypes
<1>1. /\ c.start \in Nat /\ c.end \in Nat /\ c.start <= Ceiling /\ c.end <= Ceiling
      /\ Ceiling \in Nat /\ Scale \in Nat /\ Exact \in Nat /\ Ceiling <= Exact
  BY <1>0, SpeedsFit
<1>2. c.start \in 0 .. Exact /\ c.end \in 0 .. Exact
  BY <1>1
<1>3. Float(c.start) = Scale * c.start /\ Float(c.end) = Scale * c.end
  BY <1>2, SmallIsExact
<1>4. /\ Scale * c.start \in Nat /\ Scale * c.end \in Nat
      /\ Scale * c.start <= Scale * Ceiling /\ Scale * c.end <= Scale * Ceiling
  BY <1>1, ProductGrows
<1> QED
  BY <1>3, <1>4 DEF From, Bound

(* What a pass adds is natural, or no number. *)
LEMMA TimesIs ==
    ASSUME NEW rate \in Nat \union {NaN}, NEW dt \in Nat
    PROVE  Times(rate, dt) = NaN \/ Times(rate, dt) \in Nat
<1>1. CASE rate = NaN \/ (Huge(rate) /\ dt = 0)
  BY <1>1 DEF Times
<1>2. CASE ~(rate = NaN \/ (Huge(rate) /\ dt = 0))
  <2>1. rate * dt \in Nat
    BY <1>2
  <2>2. Rounded(rate * dt) \in Nat
    BY <2>1, RoundedIsFloat
  <2> QED
    BY <1>2, <2>2 DEF Times
<1> QED
  BY <1>1, <1>2

(* A pass of a ramp ends at a speed between zero and the ceiling, or at    *)
(* none that is a number.                                                  *)
LEMMA TickIs ==
    ASSUME c \in ConfigType, Accepted, c.mode \in Ramps, rpm = NaN \/ rpm \in Nat, NEW dt \in Nat
    PROVE  \/ Tick(dt) = NaN
           \/ Tick(dt) \in Nat /\ (rpm \in Nat /\ rpm <= Scale * Ceiling => Tick(dt) <= Scale * Ceiling)
<1> DEFINE L == Scale * Ceiling
           delta == Gain(dt)
           x == Sum(rpm, delta)
<1>0. /\ Times(c.up, dt) = NaN \/ Times(c.up, dt) \in Nat
      /\ Times(c.down, dt) = NaN \/ Times(c.down, dt) \in Nat
  <2>1. c.up \in Nat \union {NaN} /\ c.down \in Nat \union {NaN}
    BY AcceptedTypes
  <2> QED
    BY <2>1, TimesIs
<1>1. /\ Bound \in Nat /\ Bound <= L /\ NaN \notin Int
  BY AcceptedTypes, EndsAre, NumbersAssumption
<1>2. L \in Nat /\ Rounded(L) = L
  <2>1. Ceiling \in 0 .. Exact /\ Scale \in Nat /\ Ceiling \in Nat
    BY SpeedsFit
  <2> QED
    BY <2>1, SmallIsExact, FloatIsFloat
<1>3. Tick(dt) = IF Reached(x) THEN Bound ELSE x
  BY DEF Tick
<1>4. delta = NaN \/ delta \in Int
  BY <1>0 DEF Gain, Minus
<1>5. Up => delta = NaN \/ delta \in Nat
  BY <1>0 DEF Gain
<1>6. ~Up => delta = NaN \/ -delta \in Nat
  BY <1>0 DEF Gain, Minus
<1>7. x = NaN \/ (rpm \in Nat /\ delta \in Int /\ x = Rounded(rpm + delta))
  BY <1>4 DEF Sum
<1> HIDE DEF x, delta, L
<1>8. CASE x = NaN
  <2>1. ~Reached(x)
    BY <1>8 DEF Reached, AtMost
  <2> QED
    BY <1>3, <1>8, <2>1
<1>9. ASSUME x # NaN
      PROVE  Tick(dt) \in Nat /\ (rpm \in Nat /\ rpm <= L => Tick(dt) <= L)
  <2>1. /\ rpm \in Nat /\ delta \in Int /\ x = Rounded(rpm + delta) /\ rpm + delta \in Int
        /\ delta # NaN
    BY <1>1, <1>7, <1>9
  <2>2. x \in Int
    BY <2>1, RoundedIsFloat
  <2>3. Bound # NaN
    BY <1>1
  <2>4. CASE Reached(x)
    BY <1>1, <1>3, <2>4
  <2>5. CASE ~Reached(x) /\ Up
    <3>1. x < Bound
      BY <1>1, <1>9, <2>2, <2>3, <2>5 DEF Reached, AtMost
    <3>2. rpm + delta >= 0
      BY <1>5, <2>1, <2>5
    <3>3. x \in Nat
      BY <2>1, <3>2, RoundedIsFloat
    <3> QED
      BY <1>1, <1>2, <1>3, <2>5, <3>1, <3>3
  <2>6. CASE ~Reached(x) /\ ~Up
    <3>1. x > Bound
      BY <1>1, <1>9, <2>2, <2>3, <2>6 DEF Reached, AtMost
    <3>2. rpm + delta <= rpm
      BY <1>6, <2>1, <2>6
    <3>3. rpm <= L => x <= L
      BY <1>2, <2>1, <3>2, BelowFloat
    <3> QED
      BY <1>1, <1>3, <2>2, <2>6, <3>1, <3>3
  <2> QED
    BY <2>4, <2>5, <2>6
<1> QED
  BY <1>8, <1>9 DEF L

(* A pass of a hold ends at a float between the speed and the goal. *)
LEMMA SlewIs ==
    ASSUME rpm \in Nat, Rounded(rpm) = rpm,
           NEW goal \in Nat, Rounded(goal) = goal, NEW delta \in Nat \union {NaN}
    PROVE  /\ Slew(goal, delta) \in Nat /\ Rounded(Slew(goal, delta)) = Slew(goal, delta)
           /\ Between(Slew(goal, delta), rpm, goal)
<1>1. NaN \notin Int
  BY NumbersAssumption
<1>2. CASE rpm < goal
  <2> DEFINE x == Sum(rpm, delta)
  <2>1. Slew(goal, delta) = IF Less(x, goal) THEN x ELSE goal
    BY <1>2 DEF Slew
  <2>2. x = NaN \/ (delta \in Nat /\ x = Rounded(rpm + delta))
    BY DEF Sum
  <2> HIDE DEF x
  <2>3. CASE Less(x, goal)
    <3>1. x # NaN /\ x < goal
      BY <2>3 DEF Less
    <3>2. delta \in Nat /\ x = Rounded(rpm + delta) /\ rpm + delta \in Int /\ rpm <= rpm + delta
          /\ rpm + delta >= 0
      BY <2>2, <3>1
    <3>3. x \in Nat /\ Rounded(x) = x /\ rpm <= x
      BY <3>2, RoundedIsFloat, AboveFloat
    <3> QED
      BY <2>1, <2>3, <3>1, <3>3 DEF Between
  <2>4. CASE ~Less(x, goal)
    BY <1>2, <2>1, <2>4 DEF Between
  <2> QED
    BY <2>3, <2>4
<1>3. CASE ~(rpm < goal)
  <2> DEFINE x == Sum(rpm, Minus(delta))
  <2>1. Slew(goal, delta) = IF Less(goal, x) THEN x ELSE goal
    BY <1>3 DEF Slew
  <2>2. x = NaN \/ (delta \in Nat /\ x = Rounded(rpm + (-delta)))
    BY DEF Sum, Minus
  <2> HIDE DEF x
  <2>3. CASE Less(goal, x)
    <3>1. x # NaN /\ goal < x
      BY <2>3 DEF Less
    <3>2. /\ delta \in Nat /\ x = Rounded(rpm + (-delta))
          /\ rpm + (-delta) \in Int /\ rpm + (-delta) <= rpm
      BY <2>2, <3>1
    <3>3. x \in Int /\ Rounded(x) = x /\ x <= rpm
      BY <3>2, RoundedIsFloat, BelowFloat
    <3>4. x \in Nat
      BY <3>1, <3>3
    <3> QED
      BY <2>1, <2>3, <3>1, <3>3, <3>4 DEF Between
  <2>4. CASE ~Less(goal, x)
    BY <1>3, <2>1, <2>4 DEF Between
  <2> QED
    BY <2>3, <2>4
<1> QED
  BY <1>2, <1>3

(* The target of a hold is a float. *)
LEMMA GoalIs ==
    ASSUME target \in Nat
    PROVE  Goal \in Nat /\ Rounded(Goal) = Goal
  BY NonZeroIs, FloatIsFloat DEF Goal

(* A stepped sweep starts at a speed it accepted. *)
LEMMA StartSteppedCore ==
    ASSUME CoreInv, StartStepped
    PROVE  CoreInv'
<1>1. /\ phase = "load" /\ Accepted /\ c.mode = "Stepped" /\ phase' = "stepped"
      /\ rpm' = c.start /\ speeds' = {NonZero(c.start)}
      /\ UNCHANGED <<iniVars, c, target, retargets, elapsed>>
  BY DEF StartStepped
<1>2. c \in ConfigType
  BY <1>1, Checked
<1>3. c.start \in Nat /\ c.end \in Nat /\ c.start <= c.end
  BY <1>1, <1>2, AcceptedTypes
<1>4. IniInv' /\ Loaded' /\ Running' /\ phase' \in Phases
  BY <1>1, Proceeds DEF Phases
<1>5. StepTypes' /\ RampTypes' /\ HoldTypes'
  BY <1>1, <1>3 DEF StepTypes, RampTypes, HoldTypes
<1>6. SpeedTypes' /\ Counters'
  BY <1>1, <1>3, NonZeroIs DEF SpeedTypes, Counters, CoreInv
<1> QED
  BY <1>4, <1>5, <1>6 DEF CoreInv

(* A step of the sweep, also one whose sum wraps, stays at or below the end. *)
LEMMA AdvanceCore ==
    ASSUME CoreInv, AdvanceStep
    PROVE  CoreInv'
<1> DEFINE next == (rpm + c.step) % Width
<1>1. /\ phase = "stepped" /\ rpm' = next
      /\ \/ PastEnd(next) /\ phase' = "over" /\ speeds' = speeds
         \/ ~PastEnd(next) /\ phase' = "stepped" /\ speeds' = speeds \union {NonZero(next)}
      /\ UNCHANGED <<iniVars, c, target, retargets, elapsed>>
  BY DEF AdvanceStep
<1>2. c \in ConfigType /\ Accepted /\ c.mode = "Stepped" /\ rpm \in 0 .. c.end
  BY <1>1, Checked DEF CoreInv, Running, StepTypes
<1>3. c.step \in Nat /\ c.end \in Nat
  BY <1>2, AcceptedTypes
<1>4. next \in Nat
  BY <1>2, <1>3, TextAssumption
<1> HIDE DEF next
<1>5. IniInv' /\ Loaded' /\ Running' /\ phase' \in Phases
  BY <1>1, Proceeds DEF Phases
<1>6. StepTypes' /\ RampTypes' /\ HoldTypes'
  BY <1>1, <1>2, <1>3, <1>4 DEF StepTypes, RampTypes, HoldTypes, PastEnd
<1>7. SpeedTypes' /\ Counters'
  BY <1>1, <1>4, NonZeroIs DEF SpeedTypes, Counters, CoreInv
<1> QED
  BY <1>5, <1>6, <1>7 DEF CoreInv

(* A ramp starts at one end of its span. *)
LEMMA StartRampCore ==
    ASSUME CoreInv, StartRamp
    PROVE  CoreInv'
<1>1. /\ phase = "load" /\ Accepted /\ c.mode \in Ramps /\ phase' = "ramp"
      /\ rpm' = From /\ speeds' = {Rpm(From)}
      /\ UNCHANGED <<iniVars, c, target, retargets, elapsed>>
  BY DEF StartRamp
<1>2. From \in Nat
  BY <1>1, Checked, EndsAre
<1>3. Rpm(From) = NaN \/ Rpm(From) \in Nat \ {0}
  BY <1>2, RpmIs
<1>4. IniInv' /\ Loaded' /\ Running' /\ phase' \in Phases
  BY <1>1, Proceeds DEF Phases
<1>5. StepTypes' /\ RampTypes' /\ HoldTypes'
  BY <1>1, <1>2 DEF StepTypes, RampTypes, HoldTypes
<1>6. SpeedTypes' /\ Counters'
  BY <1>1, <1>3 DEF SpeedTypes, Counters, CoreInv
<1> QED
  BY <1>4, <1>5, <1>6 DEF CoreInv

(* A pass of a ramp leaves a speed that is natural, or NaN. *)
LEMMA RampPassCore ==
    ASSUME CoreInv, NEW dt \in Passes, RampPass(dt)
    PROVE  CoreInv'
<1>1. /\ phase = "ramp" /\ rpm' = Tick(dt) /\ elapsed' = elapsed + dt
      /\ speeds' = speeds \union {Rpm(rpm')} /\ phase' \in {"over", "ramp"}
      /\ UNCHANGED <<iniVars, c, target, retargets>>
  BY DEF RampPass
<1>2. dt \in Nat /\ c \in ConfigType /\ Accepted /\ c.mode \in Ramps /\ (rpm = NaN \/ rpm \in Nat)
  BY <1>1, Checked, PassesAssumption DEF CoreInv, Running, RampTypes
<1>3. rpm' = NaN \/ rpm' \in Nat
  BY <1>1, <1>2, TickIs
<1>4. Rpm(rpm') = NaN \/ Rpm(rpm') \in Nat \ {0}
  BY <1>3, RpmIs
<1>5. IniInv' /\ Loaded' /\ Running' /\ phase' \in Phases
  BY <1>1, Proceeds DEF Phases
<1>6. StepTypes' /\ RampTypes' /\ HoldTypes'
  BY <1>1, <1>2, <1>3 DEF StepTypes, RampTypes, HoldTypes
<1>7. SpeedTypes' /\ Counters'
  BY <1>1, <1>2, <1>4 DEF SpeedTypes, Counters, CoreInv
<1> QED
  BY <1>5, <1>6, <1>7 DEF CoreInv

(* Where a hold begins: above zero and at most its target. *)
LEMMA RampInIs ==
    ASSUME NEW n \in Nat \ {0}
    PROVE  RampIn(n) \in Nat \ {0} /\ RampIn(n) <= n
  BY NumbersAssumption DEF RampIn

(* A hold starts there. *)
LEMMA StartHoldCore ==
    ASSUME CoreInv, StartHold
    PROVE  CoreInv'
<1>1. /\ phase = "load" /\ Accepted /\ c.mode = "Hold" /\ phase' = "hold"
      /\ target' = NonZero(c.hold) /\ rpm' = Float(RampIn(NonZero(c.hold)))
      /\ speeds' = {Rpm(rpm')} /\ UNCHANGED <<iniVars, c, retargets, elapsed>>
  BY DEF StartHold
<1>2. c.hold \in Nat
  BY <1>1, Checked, AcceptedTypes
<1>3. target' \in Nat /\ rpm' \in Nat /\ Rounded(rpm') = rpm'
  BY <1>1, <1>2, NonZeroIs, RampInIs, FloatIsFloat
<1>4. Rpm(rpm') = NaN \/ Rpm(rpm') \in Nat \ {0}
  BY <1>3, RpmIs
<1>5. IniInv' /\ Loaded' /\ Running' /\ phase' \in Phases
  BY <1>1, Proceeds DEF Phases
<1>6. StepTypes' /\ RampTypes' /\ HoldTypes'
  BY <1>1, <1>3 DEF StepTypes, RampTypes, HoldTypes
<1>7. SpeedTypes' /\ Counters'
  BY <1>1, <1>3, <1>4 DEF SpeedTypes, Counters, CoreInv
<1> QED
  BY <1>5, <1>6, <1>7 DEF CoreInv

(* What a pass of a hold does to the speed. *)
LEMMA HoldPassIs ==
    ASSUME CoreInv, NEW dt \in Passes, HoldPass(dt)
    PROVE  /\ rpm' \in Nat /\ Rounded(rpm') = rpm' /\ Between(rpm', rpm, Goal)
           /\ Goal \in Nat /\ rpm \in Nat
<1>1. phase = "hold" /\ rpm' = Slew(Goal, Times(c.up, dt))
  BY DEF HoldPass, Slewed
<1>2. /\ c \in ConfigType /\ Accepted /\ rpm \in Nat /\ Rounded(rpm) = rpm /\ target \in Nat
      /\ dt \in Nat
  BY <1>1, Checked, PassesAssumption DEF CoreInv, Running, HoldTypes, Counters
<1>3. c.up \in Nat \union {NaN}
  BY <1>2, AcceptedTypes
<1>4. Times(c.up, dt) \in Nat \union {NaN}
  BY <1>2, <1>3, TimesIs
<1>5. Goal \in Nat /\ Rounded(Goal) = Goal
  BY <1>2, GoalIs
<1> QED
  BY <1>1, <1>2, <1>4, <1>5, SlewIs

(* A pass of a hold keeps CoreInv. *)
LEMMA HoldPassCore ==
    ASSUME CoreInv, NEW dt \in Passes, HoldPass(dt)
    PROVE  CoreInv'
<1>1. /\ phase = "hold" /\ phase' = "hold" /\ speeds' = speeds \union {Rpm(rpm')}
      /\ UNCHANGED <<iniVars, c, target, retargets, elapsed>>
  BY DEF HoldPass
<1>2. rpm' \in Nat /\ Rounded(rpm') = rpm' /\ c.mode = "Hold"
  BY <1>1, HoldPassIs DEF CoreInv, HoldTypes
<1>3. Rpm(rpm') = NaN \/ Rpm(rpm') \in Nat \ {0}
  BY <1>2, RpmIs
<1>4. IniInv' /\ Loaded' /\ Running' /\ phase' \in Phases
  BY <1>1, Proceeds DEF Phases
<1>5. StepTypes' /\ RampTypes' /\ HoldTypes'
  BY <1>1, <1>2 DEF StepTypes, RampTypes, HoldTypes
<1>6. SpeedTypes' /\ Counters'
  BY <1>1, <1>3 DEF SpeedTypes, Counters, CoreInv
<1> QED
  BY <1>4, <1>5, <1>6 DEF CoreInv

(* A cap, a stop, a lost sync, or another target. *)
LEMMA RestCore ==
    ASSUME CoreInv, RampCapped \/ Stop \/ Retarget
    PROVE  CoreInv'
<1>1. /\ phase \in {"ramp", "hold"} /\ phase' \in {phase, "over"}
      /\ target' = target \/ target' \in Targets
      /\ retargets' = retargets \/ (retargets < Retargets /\ retargets' = retargets + 1)
      /\ UNCHANGED <<iniVars, c, rpm, elapsed, speeds>>
  BY DEF RampCapped, Stop, Retarget, runVars
<1>2. IniInv' /\ Loaded' /\ Running' /\ phase' \in Phases
  BY <1>1, Proceeds DEF Phases
<1>3. StepTypes' /\ RampTypes' /\ HoldTypes'
  BY <1>1 DEF CoreInv, StepTypes, RampTypes, HoldTypes
<1>4. SpeedTypes'
  BY <1>1 DEF SpeedTypes, CoreInv
<1>5. Counters'
  <2>1. target' \in Nat /\ elapsed' \in Nat
    BY <1>1, PassesAssumption DEF Counters, CoreInv
  <2>2. retargets' \in 0 .. Retargets
    <3>1. retargets \in 0 .. Retargets /\ Retargets \in Nat
      BY PassesAssumption DEF Counters, CoreInv
    <3> QED
      BY <1>1, <3>1
  <2> QED
    BY <2>1, <2>2 DEF Counters
<1> QED
  BY <1>2, <1>3, <1>4, <1>5 DEF CoreInv

(* A step that changes nothing keeps CoreInv. *)
LEMMA CoreStays ==
    ASSUME CoreInv, UNCHANGED vars
    PROVE  CoreInv'
<1>1. UNCHANGED <<iniVars, phase, c, rpm, target, retargets, elapsed, speeds>>
  BY DEF vars, runVars
<1>2. IniInv'
  BY <1>1, IniStays DEF CoreInv
<1>3. Loaded' /\ Running'
  BY <1>1, SameIni, SameConfig DEF CoreInv, Loaded, Running
<1>4. StepTypes' /\ RampTypes' /\ HoldTypes'
  BY <1>1 DEF CoreInv, StepTypes, RampTypes, HoldTypes
<1>5. SpeedTypes' /\ Counters' /\ phase' \in Phases
  BY <1>1 DEF CoreInv, SpeedTypes, Counters
<1> QED
  BY <1>2, <1>3, <1>4, <1>5 DEF CoreInv

(* Every step keeps CoreInv. *)
LEMMA CoreStep ==
    ASSUME CoreInv, [Next]_vars
    PROVE  CoreInv'
<1>1. CASE ReadText
  BY <1>1, ReadCore
<1>2. CASE LoadConfig
  BY <1>2, LoadCore
<1>3. CASE Reject
  BY <1>3, RejectCore
<1>4. CASE StartStepped
  BY <1>4, StartSteppedCore
<1>5. CASE AdvanceStep
  BY <1>5, AdvanceCore
<1>6. CASE StartRamp
  BY <1>6, StartRampCore
<1>7. CASE StartHold
  BY <1>7, StartHoldCore
<1>8. CASE RampCapped \/ Stop \/ Retarget
  BY <1>8, RestCore
<1>9. CASE Pass
  BY <1>9, RampPassCore, HoldPassCore DEF Pass
<1>10. CASE UNCHANGED vars
  BY <1>10, CoreStays
<1> QED
  BY <1>1, <1>2, <1>3, <1>4, <1>5, <1>6, <1>7, <1>8, <1>9, <1>10 DEF Next

(* The state of the reader and of the schedule, in every state. *)
THEOREM CoreHolds == Spec => []CoreInv
<1>1. Init => CoreInv
  BY CoreStarts
<1>2. CoreInv /\ [Next]_vars => CoreInv'
  BY CoreStep
<1> QED
  BY <1>1, <1>2, PTL DEF Spec

(* Speeds are numbers above zero, or NaN where a rate was; a stepped sweep *)
(* stays at or below the ceiling whatever its step, wrapped or not.        *)
THEOREM TypeCorrect == Spec => []TypeOK
<1>1. CoreInv => TypeOK
  <2> SUFFICES ASSUME CoreInv PROVE TypeOK
    OBVIOUS
  <2>1. ASSUME phase = "stepped" PROVE rpm \in 0 .. Ceiling
    <3>1. c \in ConfigType /\ Accepted /\ rpm \in 0 .. c.end
      BY <2>1, Checked DEF CoreInv, Running, StepTypes
    <3>2. c.end \in Nat /\ c.end <= Ceiling
      BY <3>1, AcceptedTypes
    <3> QED
      BY <3>1, <3>2, SpeedsFit
  <2> QED
    BY <2>1 DEF CoreInv, TypeOK, RampTypes, HoldTypes, Counters, SpeedTypes
<1> QED
  BY <1>1, CoreHolds, PTL

(* The hold approaches what it last read and never runs past it            *)
(* (core1_main.cpp:937-938): with every rate that is accepted, NaN         *)
(* included, every dt, every target a probe writes, and rounded as floats  *)
(* are.  A step rounds to no further than the target since the target is   *)
(* itself a float, and not away from it since the speed is.                *)
THEOREM NoOvershoot == Spec => HoldNoOvershoot
<1> DEFINE A == phase = "hold" => rpm' # NaN /\ Between(rpm', rpm, Goal)
<1>1. ASSUME CoreInv, [Next]_vars PROVE [A]_vars
  <2> SUFFICES ASSUME phase = "hold", ~UNCHANGED vars
               PROVE  rpm' # NaN /\ Between(rpm', rpm, Goal)
    OBVIOUS
  <2>1. NaN \notin Int /\ rpm \in Nat /\ Goal \in Nat
    <3>1. NaN \notin Int
      BY NumbersAssumption
    <3>2. rpm \in Nat /\ target \in Nat
      BY <1>1 DEF CoreInv, HoldTypes, Counters
    <3> QED
      BY <3>1, <3>2, GoalIs
  <2>2. Next
    BY <1>1
  <2>3. (\E dt \in Passes : HoldPass(dt)) \/ Retarget \/ Stop
    BY <2>2 DEF Next, Pass, ReadText, LoadConfig, Reject, StartStepped, AdvanceStep, StartRamp,
                RampCapped, StartHold, RampPass
  <2>4. CASE \E dt \in Passes : HoldPass(dt)
    BY <1>1, <2>1, <2>4, HoldPassIs
  <2>5. CASE Retarget \/ Stop
    <3>1. rpm' = rpm
      BY <2>5 DEF Retarget, Stop, runVars
    <3> QED
      BY <2>1, <3>1 DEF Between
  <2> QED
    BY <2>3, <2>4, <2>5
<1>2. CoreInv /\ [Next]_vars => [A]_vars
  BY <1>1
<1> QED
  BY <1>2, CoreHolds, PTL DEF Spec, HoldNoOvershoot

-----------------------------------------------------------------------------
(* The configuration is the file's. *)

(* What the file says of a key that stands in it once. *)
LEMMA SaidIs ==
    ASSUME NEW k, NEW i, Setting(k) = {i}
    PROVE  Said(k) = SaidAt(i)
<1>1. (CHOOSE j \in Setting(k) : TRUE) = i
  OBVIOUS
<1> QED
  BY <1>1 DEF Said, SaidAt

(* A key that is there was set by one line, to what is read of it. *)
LEMMA KeySaid ==
    ASSUME IniInv, ini = "ok", Len(file) <= Room, NEW k \in kKnownKeys
    PROVE  /\ HasKey(k) => Cardinality(Setting(k)) = 1 /\ ValueOf(k) = Said(k)
           /\ ~HasKey(k) => Setting(k) = {}
<1>1. IniTypes /\ pos > Length /\ Length = Len(file) /\ Kept(k, pos, pairs) /\ Length \in Nat
      /\ pos \in Nat
  BY LengthIs DEF IniInv, IniTypes
<1>2. \A i \in Setting(k) : ~(i >= pos)
  BY <1>1 DEF Setting
<1>3. CASE KeysAs(k, pairs) = {} /\ \A i \in Setting(k) : i >= pos
  <2>1. ~HasKey(k)
    BY <1>1, <1>3, KeysAre
  <2> QED
    BY <1>2, <1>3, <2>1
<1>4. CASE \E i \in Setting(k), n \in DOMAIN pairs :
          /\ i < pos /\ \A j \in Setting(k) : j = i \/ j >= pos
          /\ KeysAs(k, pairs) = {n} /\ pairs[n].value = SaidAt(i)
  <2>1. PICK i \in Setting(k), n \in DOMAIN pairs :
          /\ i < pos /\ \A j \in Setting(k) : j = i \/ j >= pos
          /\ KeysAs(k, pairs) = {n} /\ pairs[n].value = SaidAt(i)
    BY <1>4
  <2>2. Setting(k) = {i}
    BY <1>2, <2>1
  <2>3. Cardinality(Setting(k)) = 1
    BY <2>2, FS_Singleton
  <2>4. /\ HasKey(k) /\ ValueOf(k) = pairs[Min(KeysAs(k, pairs))].value
        /\ KeysAs(k, pairs) \in SUBSET Nat
    BY <1>1, <2>1, KeysAre
  <2>5. Min(KeysAs(k, pairs)) \in KeysAs(k, pairs)
    BY <2>1, <2>4, MinIsLeast
  <2>6. Min(KeysAs(k, pairs)) = n
    BY <2>1, <2>5
  <2>7. ValueOf(k) = Said(k)
    BY <2>1, <2>2, <2>4, <2>6, SaidIs
  <2> QED
    BY <2>3, <2>4, <2>7
<1> QED
  BY <1>1, <1>3, <1>4 DEF Kept

(* A configuration is what the file says: of every file that fits into the *)
(* buffer, however it is laid out (core/ini.cpp:54-94, core/config.cpp).   *)
THEOREM ConfigFromFile == Spec => []ConfigIsFile
<1>1. ASSUME CoreInv, phase \notin {"read", "rejected"}, Len(file) <= Room
      PROVE  /\ \A k \in kRequiredKeys : Cardinality(Setting(k)) = 1
             /\ Cardinality(Setting(HOLD_RPM)) <= 1
             /\ c.mode = ParseRunMode(Said(RUN_MODE))
             /\ <<c.start, c.end, c.step, c.settle, c.samples>> =
                  [i \in 1 .. 5 |-> ParseU32(Said(SWEEP_START_RPM + i - 1))]
             /\ c.up = ParseF32(Said(RAMP_UP_RPM_PER_S))
             /\ c.down = ParseF32(Said(RAMP_DOWN_RPM_PER_S))
             /\ c.hold = IF Setting(HOLD_RPM) = {} THEN DefaultHold ELSE ParseU32(Said(HOLD_RPM))
  <2>1. IniInv /\ ini = "ok" /\ KeysFit /\ c = Config
    BY <1>1 DEF CoreInv, Loaded
  <2>2. \A k \in kRequiredKeys : k \in kKnownKeys /\ HasKey(k)
    BY <2>1 DEF KeysFit, kRequiredKeys
  <2>3. \A k \in kRequiredKeys : Cardinality(Setting(k)) = 1 /\ ValueOf(k) = Said(k)
    BY <1>1, <2>1, <2>2, KeySaid
  <2>4. HOLD_RPM \in kKnownKeys
    BY DEF HOLD_RPM, kKnownKeys
  <2>5. /\ HasKey(HOLD_RPM) => Cardinality(Setting(HOLD_RPM)) = 1 /\ ValueOf(HOLD_RPM) = Said(HOLD_RPM)
        /\ ~HasKey(HOLD_RPM) => Setting(HOLD_RPM) = {}
    BY <1>1, <2>1, <2>4, KeySaid
  <2>6. Cardinality({}) = 0
    BY FS_EmptySet
  <2>7. HasKey(HOLD_RPM) <=> Setting(HOLD_RPM) # {}
    BY <2>5, <2>6
  <2>8. Cardinality(Setting(HOLD_RPM)) <= 1
    BY <2>5, <2>6
  <2>9. /\ {1, 2, 3, 4, 5, 6, 7, 8} \subseteq kRequiredKeys
        /\ RUN_MODE = 1 /\ SWEEP_START_RPM = 2 /\ SWEEP_END_RPM = 3 /\ SWEEP_STEP_RPM = 4
        /\ SWEEP_SETTLE_REVS = 5 /\ SWEEP_SAMPLES = 6
        /\ RAMP_UP_RPM_PER_S = 7 /\ RAMP_DOWN_RPM_PER_S = 8
    BY DEF kRequiredKeys, kKnownKeys, RUN_MODE, SWEEP_START_RPM, SWEEP_END_RPM, SWEEP_STEP_RPM,
           SWEEP_SETTLE_REVS, SWEEP_SAMPLES, RAMP_UP_RPM_PER_S, RAMP_DOWN_RPM_PER_S, HOLD_RPM
  <2>10. /\ c.mode = ParseRunMode(ValueOf(1))
         /\ c.start = ParseU32(ValueOf(2)) /\ c.end = ParseU32(ValueOf(3))
         /\ c.step = ParseU32(ValueOf(4)) /\ c.settle = ParseU32(ValueOf(5))
         /\ c.samples = ParseU32(ValueOf(6))
         /\ c.up = ParseF32(ValueOf(7)) /\ c.down = ParseF32(ValueOf(8))
         /\ c.hold = IF HasKey(HOLD_RPM) THEN ParseU32(ValueOf(HOLD_RPM)) ELSE DefaultHold
    BY <2>1, <2>9 DEF Config
  <2>11. \A k \in {1, 2, 3, 4, 5, 6, 7, 8} : ValueOf(k) = Said(k)
    BY <2>3, <2>9
  <2>12. <<c.start, c.end, c.step, c.settle, c.samples>> =
           [i \in 1 .. 5 |-> ParseU32(Said(2 + i - 1))]
    <3> DEFINE f == [i \in 1 .. 5 |-> ParseU32(Said(2 + i - 1))]
    <3>1. /\ f[1] = ParseU32(Said(2)) /\ f[2] = ParseU32(Said(3)) /\ f[3] = ParseU32(Said(4))
          /\ f[4] = ParseU32(Said(5)) /\ f[5] = ParseU32(Said(6)) /\ DOMAIN f = 1 .. 5
      OBVIOUS
    <3>2. /\ f[1] = c.start /\ f[2] = c.end /\ f[3] = c.step /\ f[4] = c.settle
          /\ f[5] = c.samples
      <4> HIDE DEF f
      <4> QED
        BY <2>10, <2>11, <3>1
    <3>3. f = [i \in 1 .. 5 |-> f[i]]
      OBVIOUS
    <3> HIDE DEF f
    <3>4. <<c.start, c.end, c.step, c.settle, c.samples>> = [i \in 1 .. 5 |-> f[i]]
      BY <3>2
    <3> QED
      BY <3>3, <3>4 DEF f
  <2>13. c.hold = IF Setting(HOLD_RPM) = {} THEN DefaultHold ELSE ParseU32(Said(HOLD_RPM))
    BY <2>5, <2>7, <2>10
  <2>14. c.mode = ParseRunMode(Said(1)) /\ c.up = ParseF32(Said(7)) /\ c.down = ParseF32(Said(8))
    BY <2>10, <2>11
  <2> QED
    BY <2>3, <2>8, <2>9, <2>12, <2>13, <2>14
<1>2. CoreInv => ConfigIsFile
  BY <1>1 DEF ConfigIsFile
<1> QED
  BY <1>2, CoreHolds, PTL

-----------------------------------------------------------------------------
(* The grid of a stepped sweep. *)

NoWrap == c.mode = "Stepped" /\ c.end + c.step < Width
Points(x) == {NonZero(s) : s \in {t \in c.start .. x : (t - c.start) % c.step = 0}}
StepInv ==
    /\ phase = "stepped" /\ NoWrap =>
         rpm \in c.start .. c.end /\ (rpm - c.start) % c.step = 0 /\ speeds = Points(rpm)
    /\ phase = "over" /\ NoWrap => speeds = Points(c.end)

(* After a multiple of d the next is d further. *)
LEMMA NextMultiple ==
    ASSUME NEW a \in Nat, NEW d \in Nat \ {0}, a % d = 0
    PROVE  /\ (a + d) % d = 0
           /\ \A b \in Nat : a < b /\ b < a + d => b % d # 0
<1> DEFINE q == a \div d
<1>1. q \in Nat /\ a = d * q
  <2>1. q \in Nat /\ a = d * q + (a % d)
    BY Division
  <2>2. d * q \in Nat
    BY <2>1
  <2> QED
    BY <2>1, <2>2
<1> HIDE DEF q
<1>2. a + d = d * (q + 1) + 0 /\ q + 1 \in Nat /\ 0 < d
  BY <1>1
<1>3. (d * (q + 1) + 0) % d = 0
  BY <1>2, DivisionUnique
<1>4. ASSUME NEW b \in Nat, a < b, b < a + d, b % d = 0 PROVE FALSE
  <2> DEFINE p == b \div d
  <2>1. p \in Nat /\ b = d * p
    <3>1. p \in Nat /\ b = d * p + (b % d)
      BY Division
    <3>2. d * p \in Nat
      BY <3>1
    <3> QED
      BY <1>4, <3>1, <3>2
  <2> HIDE DEF p
  <2>2. d * q < d * p /\ d * p < d * (q + 1)
    BY <1>1, <1>2, <1>4, <2>1
  <2>3. q < p /\ p < q + 1
    BY <1>1, <1>2, <2>1, <2>2, ProductLess
  <2> QED
    BY <1>1, <2>1, <2>3
<1> QED
  BY <1>2, <1>3, <1>4

(* The grid depends on nothing but the configuration. *)
LEMMA SamePoints ==
    ASSUME UNCHANGED c, NEW x
    PROVE  (NoWrap' <=> NoWrap) /\ Points(x)' = Points(x)
  BY DEF NoWrap, Points

(* A sweep begins with the first point of its grid. *)
LEMMA GridStarts ==
    ASSUME CoreInv, StartStepped
    PROVE  StepInv'
<1>1. /\ phase = "load" /\ Accepted /\ phase' = "stepped"
      /\ rpm' = c.start /\ speeds' = {NonZero(c.start)} /\ c' = c
  BY DEF StartStepped
<1>2. c.start \in Nat /\ c.end \in Nat /\ c.start <= c.end /\ c.step \in Nat \ {0}
  BY <1>1, Checked, AcceptedTypes
<1>3. (c.start - c.start) % c.step = 0
  BY <1>2
<1>4. {t \in c.start .. c.start : (t - c.start) % c.step = 0} = {c.start}
  BY <1>2, <1>3
<1>5. Points(c.start) = {NonZero(c.start)}
  BY <1>4 DEF Points
<1>6. Points(rpm)' = Points(c.start)
  BY <1>1 DEF Points
<1> QED
  BY <1>1, <1>2, <1>3, <1>5, <1>6 DEF StepInv

(* A step goes on to the next point, or ends after the last one. *)
LEMMA GridAdvances ==
    ASSUME CoreInv, StepInv, AdvanceStep
    PROVE  StepInv'
<1> DEFINE next == rpm + c.step  S(x) == {t \in c.start .. x : (t - c.start) % c.step = 0}
<1>1. /\ phase = "stepped" /\ c' = c /\ rpm' = (rpm + c.step) % Width
      /\ \/ PastEnd(rpm') /\ phase' = "over" /\ speeds' = speeds
         \/ ~PastEnd(rpm') /\ phase' = "stepped" /\ speeds' = speeds \union {NonZero(rpm')}
  BY DEF AdvanceStep
<1>2. NoWrap' <=> NoWrap
  BY <1>1, SamePoints
<1>3. CASE ~NoWrap
  BY <1>2, <1>3 DEF StepInv
<1>4. CASE NoWrap
  <2>1. /\ rpm \in c.start .. c.end /\ (rpm - c.start) % c.step = 0 /\ speeds = Points(rpm)
    BY <1>1, <1>4 DEF StepInv
  <2>2. /\ c.start \in Nat /\ c.end \in Nat /\ c.step \in Nat \ {0} /\ rpm \in Nat
        /\ c.start <= rpm /\ rpm <= c.end /\ c.end + c.step < Width
    <3>1. Accepted
      BY <1>1 DEF CoreInv, Running
    <3>2. c.start \in Nat /\ c.end \in Nat /\ c.step \in Nat \ {0}
      BY <1>1, <3>1, Checked, AcceptedTypes
    <3> QED
      BY <1>4, <2>1, <3>2 DEF NoWrap
  <2>3. rpm' = next /\ next \in Nat
    BY <1>1, <2>2, TextAssumption
  <2>4. /\ (next - c.start) % c.step = 0
        /\ \A t \in Nat : rpm < t /\ t < next => (t - c.start) % c.step # 0
    <3> DEFINE a == rpm - c.start
    <3>1. a \in Nat /\ a % c.step = 0 /\ a + c.step = next - c.start
      BY <2>1, <2>2
    <3>2. /\ (a + c.step) % c.step = 0
          /\ \A b \in Nat : a < b /\ b < a + c.step => b % c.step # 0
      <4> HIDE DEF a
      <4> QED
        BY <2>2, <3>1, NextMultiple
    <3>3. ASSUME NEW t \in Nat, rpm < t, t < next PROVE (t - c.start) % c.step # 0
      <4>1. t - c.start \in Nat /\ a < t - c.start /\ t - c.start < a + c.step
        BY <2>2, <3>3
      <4> HIDE DEF a
      <4> QED
        BY <3>2, <4>1
    <3> QED
      BY <3>1, <3>2, <3>3
  <2>5. CASE PastEnd(rpm') /\ phase' = "over" /\ speeds' = speeds
    <3>1. next > c.end
      BY <2>3, <2>5 DEF PastEnd
    <3>2. S(c.end) = S(rpm)
      BY <2>2, <2>3, <2>4, <3>1
    <3>3. Points(c.end) = Points(rpm)
      BY <3>2 DEF Points
    <3>4. Points(c.end)' = Points(c.end)
      BY <1>1 DEF Points
    <3> QED
      BY <1>1, <2>1, <2>5, <3>3, <3>4 DEF StepInv
  <2>6. CASE ~PastEnd(rpm') /\ phase' = "stepped" /\ speeds' = speeds \union {NonZero(rpm')}
    <3>1. next <= c.end
      BY <2>2, <2>3, <2>6 DEF PastEnd
    <3>2. S(next) = S(rpm) \union {next}
      <4>1. ASSUME NEW t \in S(next) PROVE t \in S(rpm) \/ t = next
        <5>1. t \in Nat /\ c.start <= t /\ t <= next /\ (t - c.start) % c.step = 0
          BY <2>2, <2>3
        <5>2. ~(rpm < t /\ t < next)
          BY <2>4, <5>1
        <5>3. t <= rpm \/ t = next
          <6> HIDE DEF next
          <6> QED
            BY <2>2, <2>3, <5>1, <5>2
        <5>4. t <= rpm => t \in S(rpm)
          BY <2>2, <5>1
        <5> QED
          BY <5>3, <5>4
      <4>2. next \in S(next) /\ S(rpm) \subseteq S(next)
        BY <2>2, <2>3, <2>4
      <4> QED
        BY <4>1, <4>2
    <3>3. Points(next) = Points(rpm) \union {NonZero(next)}
      <4>1. Points(next) = {NonZero(s) : s \in S(next)} /\ Points(rpm) = {NonZero(s) : s \in S(rpm)}
        BY DEF Points
      <4> HIDE DEF S, next
      <4> QED
        BY <3>2, <4>1
    <3>4. Points(rpm)' = Points(next)
      BY <1>1, <2>3 DEF Points
    <3>5. speeds' = Points(rpm)'
      BY <2>1, <2>3, <2>6, <3>3, <3>4
    <3>6. rpm' \in c.start .. c.end /\ (rpm' - c.start) % c.step = 0
      BY <2>2, <2>3, <2>4, <3>1
    <3> QED
      BY <1>1, <2>6, <3>5, <3>6 DEF StepInv
  <2> QED
    BY <1>1, <2>5, <2>6
<1> QED
  BY <1>3, <1>4

(* Every step keeps StepInv. *)
LEMMA GridStep ==
    ASSUME CoreInv, StepInv, [Next]_vars
    PROVE  StepInv'
<1>1. CASE phase' \notin {"stepped", "over"}
  BY <1>1 DEF StepInv
<1>2. CASE StartStepped \/ AdvanceStep
  BY <1>2, GridStarts, GridAdvances
<1>3. CASE UNCHANGED vars
  <2>1. UNCHANGED <<phase, c, rpm, speeds>>
    BY <1>3 DEF vars, runVars
  <2>2. Points(rpm)' = Points(rpm) /\ Points(c.end)' = Points(c.end)
    BY <2>1 DEF Points
  <2> QED
    BY <2>1, <2>2, SamePoints DEF StepInv
<1>4. CASE phase \in {"ramp", "hold"} /\ phase' \in {phase, "over"} /\ c' = c
  <2>1. c.mode # "Stepped"
    BY <1>4 DEF CoreInv, RampTypes, HoldTypes, Ramps
  <2> QED
    BY <1>4, <2>1 DEF StepInv, NoWrap
<1>5. Next => \/ phase' \notin {"stepped", "over"} \/ StartStepped \/ AdvanceStep
              \/ phase \in {"ramp", "hold"} /\ phase' \in {phase, "over"} /\ c' = c
  <2>1. ReadText \/ LoadConfig \/ Reject \/ StartRamp \/ StartHold => phase' \notin {"stepped", "over"}
    BY DEF ReadText, LoadConfig, Reject, StartRamp, StartHold
  <2>2. RampCapped \/ Retarget \/ Stop =>
          phase \in {"ramp", "hold"} /\ phase' \in {phase, "over"} /\ c' = c
    BY DEF RampCapped, Retarget, Stop
  <2>3. Pass => phase \in {"ramp", "hold"} /\ phase' \in {phase, "over"} /\ c' = c
    BY DEF Pass, RampPass, HoldPass
  <2> QED
    BY <2>1, <2>2, <2>3 DEF Next
<1> QED
  BY <1>1, <1>2, <1>3, <1>4, <1>5

(* A stepped sweep whose end and step add up to less than 2^32 ran at the  *)
(* speeds of its grid, all of them and no other (run_modes.cpp:8-16).      *)
THEOREM GridIsSwept ==
    Spec => [](c.mode = "Stepped" /\ c.end + c.step < Width => GridSwept)
<1>1. Init => StepInv
  BY DEF Init, StepInv
<1>2. CoreInv /\ StepInv /\ [Next]_vars => StepInv'
  BY GridStep
<1>3. StepInv => (c.mode = "Stepped" /\ c.end + c.step < Width => GridSwept)
  BY DEF StepInv, NoWrap, GridSwept, Grid, Points
<1> QED
  BY <1>1, <1>2, <1>3, CoreHolds, PTL DEF Spec

-----------------------------------------------------------------------------
(* The ceiling. *)

Slow(s) == s = NaN \/ s <= Ceiling
SlowInv ==
    /\ \A s \in speeds : Slow(s)
    /\ phase = "ramp" => rpm = NaN \/ rpm <= Scale * Ceiling
    /\ phase = "hold" => rpm <= Scale * Ceiling /\ target <= Ceiling

(* A speed at most the ceiling in quanta is slow in rpm, after rounding too. *)
LEMMA SlowRpm ==
    ASSUME NEW x, x = NaN \/ (x \in Nat /\ x <= Scale * Ceiling)
    PROVE  Slow(Rpm(x))
<1>1. CASE x = NaN
  BY <1>1, RpmIs DEF Slow
<1>2. CASE x # NaN
  BY <1>2, RpmIs, CeilingIs DEF Slow
<1> QED
  BY <1>1, <1>2

(* A whole speed up to the ceiling, zero being made one, is a float up to  *)
(* the ceiling.                                                            *)
LEMMA SlowFloat ==
    ASSUME NEW n \in Nat, n <= Ceiling
    PROVE  /\ NonZero(n) \in Nat \ {0} /\ NonZero(n) <= Ceiling
           /\ Float(n) \in Nat /\ Float(n) <= Scale * Ceiling
<1>1. NonZero(n) \in Nat \ {0} /\ NonZero(n) <= Ceiling
  BY NonZeroIs, CeilingIs
<1>2. n \in 0 .. Exact /\ Scale \in Nat /\ Ceiling \in Nat
  BY SpeedsFit
<1>3. Float(n) = Scale * n /\ Scale * n <= Scale * Ceiling /\ Scale * n \in Nat
  BY <1>2, SmallIsExact, ProductGrows
<1> QED
  BY <1>1, <1>3

(* Every schedule begins slow enough. *)
LEMMA SlowStarts ==
    ASSUME CoreInv, StartStepped \/ StartRamp \/ StartHold
    PROVE  SlowInv'
<1>1. phase = "load" /\ Accepted /\ c \in ConfigType
  BY Checked DEF StartStepped, StartRamp, StartHold
<1>2. CASE StartStepped
  <2>1. phase' = "stepped" /\ speeds' = {NonZero(c.start)}
    BY <1>2 DEF StartStepped
  <2>2. c.start \in Nat /\ c.end \in Nat /\ c.start <= c.end /\ c.end <= Ceiling
    BY <1>1, AcceptedTypes
  <2>3. c.start <= Ceiling
    BY <2>2, SpeedsFit
  <2>4. Slow(NonZero(c.start))
    BY <2>2, <2>3, SlowFloat DEF Slow
  <2> QED
    BY <2>1, <2>4 DEF SlowInv, Slow
<1>3. CASE StartRamp
  <2>1. phase' = "ramp" /\ rpm' = From /\ speeds' = {Rpm(From)}
    BY <1>3 DEF StartRamp
  <2>2. From \in Nat /\ From <= Scale * Ceiling
    BY <1>1, EndsAre
  <2>3. Slow(Rpm(From))
    BY <2>2, SlowRpm
  <2> QED
    BY <2>1, <2>2, <2>3 DEF SlowInv, Slow
<1>4. CASE StartHold
  <2>1. /\ phase' = "hold" /\ target' = NonZero(c.hold) /\ rpm' = Float(RampIn(NonZero(c.hold)))
        /\ speeds' = {Rpm(rpm')} /\ c.mode = "Hold"
    BY <1>4 DEF StartHold
  <2>2. c.hold \in Nat /\ c.hold <= Ceiling
    BY <1>1, <2>1, AcceptedTypes
  <2>3. target' \in Nat \ {0} /\ target' <= Ceiling
    BY <2>1, <2>2, SlowFloat
  <2>4. RampIn(target') \in Nat /\ RampIn(target') <= Ceiling
    BY <2>3, RampInIs, SpeedsFit
  <2>5. rpm' \in Nat /\ rpm' <= Scale * Ceiling
    BY <2>1, <2>4, SlowFloat
  <2>6. Slow(Rpm(rpm'))
    BY <2>5, SlowRpm
  <2> QED
    BY <2>1, <2>3, <2>5, <2>6 DEF SlowInv, Slow
<1> QED
  BY <1>2, <1>3, <1>4

(* A stepped sweep stays so, *)
LEMMA SlowAdvance ==
    ASSUME CoreInv, SlowInv, AdvanceStep
    PROVE  SlowInv'
<1> DEFINE next == (rpm + c.step) % Width
<1>1. /\ phase = "stepped" /\ phase' \in {"stepped", "over"}
      /\ speeds' = speeds \/ (~PastEnd(next) /\ speeds' = speeds \union {NonZero(next)})
  BY DEF AdvanceStep
<1>2. rpm \in 0 .. c.end /\ Accepted /\ c \in ConfigType
  BY <1>1, Checked DEF CoreInv, Running, StepTypes
<1>3. c.step \in Nat /\ c.end \in Nat /\ c.end <= Ceiling
  BY <1>2, AcceptedTypes
<1>4. next \in Nat
  BY <1>2, <1>3, TextAssumption
<1> HIDE DEF next
<1>5. ~PastEnd(next) => next <= Ceiling
  BY <1>3, <1>4, SpeedsFit DEF PastEnd
<1>6. ~PastEnd(next) => Slow(NonZero(next))
  BY <1>4, <1>5, SlowFloat DEF Slow
<1> QED
  BY <1>1, <1>6 DEF SlowInv, Slow

(* so does a ramp, *)
LEMMA SlowRamp ==
    ASSUME CoreInv, SlowInv, NEW dt \in Passes, RampPass(dt)
    PROVE  SlowInv'
<1>1. /\ phase = "ramp" /\ rpm' = Tick(dt) /\ phase' \in {"over", "ramp"}
      /\ speeds' = speeds \union {Rpm(rpm')}
  BY DEF RampPass
<1>2. /\ dt \in Nat /\ c \in ConfigType /\ Accepted /\ c.mode \in Ramps
      /\ rpm = NaN \/ (rpm \in Nat /\ rpm <= Scale * Ceiling)
  BY <1>1, Checked, PassesAssumption DEF CoreInv, Running, RampTypes, SlowInv
<1>3. rpm' = NaN \/ (rpm' \in Nat /\ rpm' <= Scale * Ceiling)
  <2>1. CASE rpm = NaN
    <3>1. Sum(rpm, Gain(dt)) = NaN
      BY <2>1 DEF Sum
    <3>2. ~Reached(NaN)
      BY DEF Reached, AtMost
    <3>3. Tick(dt) = NaN
      BY <3>1, <3>2 DEF Tick
    <3> QED
      BY <1>1, <3>3
  <2>2. CASE rpm # NaN
    BY <1>1, <1>2, <2>2, TickIs
  <2> QED
    BY <2>1, <2>2
<1>4. Slow(Rpm(rpm'))
  BY <1>3, SlowRpm
<1> QED
  BY <1>1, <1>3, <1>4 DEF SlowInv, Slow

(* and a hold. *)
LEMMA SlowHold ==
    ASSUME CoreInv, SlowInv, NEW dt \in Passes, HoldPass(dt)
    PROVE  SlowInv'
<1>1. /\ phase = "hold" /\ phase' = "hold" /\ target' = target
      /\ speeds' = speeds \union {Rpm(rpm')}
  BY DEF HoldPass
<1>2. rpm' \in Nat /\ rpm \in Nat /\ Goal \in Nat /\ Between(rpm', rpm, Goal)
  BY HoldPassIs
<1>3. target \in Nat /\ target <= Ceiling /\ rpm <= Scale * Ceiling
  BY <1>1 DEF CoreInv, Counters, SlowInv
<1>4. Goal <= Scale * Ceiling
  BY <1>3, SlowFloat DEF Goal
<1>5. rpm' <= Scale * Ceiling
  BY <1>2, <1>3, <1>4, SpeedsFit DEF Between
<1>6. Slow(Rpm(rpm'))
  BY <1>2, <1>5, SlowRpm
<1> QED
  BY <1>1, <1>3, <1>5, <1>6 DEF SlowInv, Slow

(* The other steps command no speed; a probe writes a target within the *)
(* ceiling.                                                             *)
LEMMA SlowRest ==
    ASSUME Targets \subseteq 0 .. Ceiling, SlowInv,
           ReadText \/ LoadConfig \/ Reject \/ RampCapped \/ Stop \/ Retarget \/ UNCHANGED vars
    PROVE  SlowInv'
<1>1. speeds' = speeds
  BY DEF ReadText, LoadConfig, Reject, RampCapped, Stop, Retarget, vars, runVars
<1>2. CASE phase' \notin {"ramp", "hold"}
  BY <1>1, <1>2 DEF SlowInv, Slow
<1>3. CASE phase' \in {"ramp", "hold"}
  <2>1. phase' = phase /\ rpm' = rpm /\ (target' = target \/ target' \in Targets)
    BY <1>3 DEF ReadText, LoadConfig, Reject, RampCapped, Stop, Retarget, vars, runVars
  <2>2. \A t \in Targets : t <= Ceiling
    BY SpeedsFit
  <2> QED
    BY <1>1, <2>1, <2>2 DEF SlowInv, Slow
<1> QED
  BY <1>2, <1>3

(* As long as no debug probe writes a target above the ceiling, which the  *)
(* code does not check, no interval of the pattern is ever emitted in      *)
(* fewer than MinTicks ticks: for every pattern of teeth, every            *)
(* configuration that is accepted and every rounding of the speeds         *)
(* (config.cpp:158-163).                                                   *)
THEOREM EveryIntervalEmittable ==
    ASSUME Targets \subseteq 0 .. Ceiling
    PROVE  Spec => []IntervalsEmittable
<1>1. Init => SlowInv
  BY DEF Init, SlowInv
<1>2. CoreInv /\ SlowInv /\ [Next]_vars => SlowInv'
  BY SlowStarts, SlowAdvance, SlowRamp, SlowHold, SlowRest DEF Next, Pass
<1>3. CoreInv /\ SlowInv => IntervalsEmittable
  <2> SUFFICES ASSUME CoreInv, SlowInv, NEW s \in speeds \ {NaN}, NEW g \in Gaps
               PROVE  g * TicksPerMin >= MinTicks * Wheel * s
    BY DEF IntervalsEmittable
  <2> DEFINE d == Wheel * MinTicks
  <2>1. s \in Nat /\ s <= Ceiling
    BY DEF CoreInv, SpeedTypes, SlowInv, Slow
  <2>2. /\ d \in Nat /\ Ceiling \in Nat /\ g \in Nat /\ TicksPerMin \in Nat
        /\ MinTicks * Wheel = d
    <3>1. Wheel \in Nat /\ MinTicks \in Nat /\ TicksPerMin \in Nat
      BY NumbersAssumption
    <3> QED
      BY <3>1, SpeedsFit, CeilingAssumption
  <2>3. Ceiling * d <= g * TicksPerMin
    BY CeilingIs
  <2> HIDE DEF d
  <2>4. d * s <= d * Ceiling /\ d * Ceiling = Ceiling * d
    BY <2>1, <2>2, ProductGrows
  <2>5. d * s \in Nat /\ Ceiling * d \in Nat /\ g * TicksPerMin \in Nat
    BY <2>1, <2>2
  <2>6. g * TicksPerMin >= d * s
    BY <2>3, <2>4, <2>5
  <2> QED
    BY <2>2, <2>6
<1> QED
  BY <1>1, <1>2, <1>3, CoreHolds, PTL DEF Spec
=============================================================================
