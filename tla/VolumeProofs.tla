---------------------------- MODULE VolumeProofs ----------------------------
(***************************************************************************)
(* FlashSectors keeps its types, and implements SectorStore.  Volume, over *)
(* it, keeps its files: for any number of blocks of any size, of files and *)
(* clusters, and any contents.                                             *)
(***************************************************************************)
EXTENDS Volume, WellFoundedInduction, TLAPS

USE SizeAssumption

(* A sector is its block and its place in the block. *)
LEMMA Place ==
    ASSUME NEW s \in Nat
    PROVE  /\ BlockOf(s) \in Nat
           /\ Within(s) \in 0 .. K - 1
           /\ s = K * BlockOf(s) + Within(s)
  BY SMTT(30) DEF BlockOf, Within

(* Two sectors of a block have different places in it. *)
LEMMA OwnPlace ==
    ASSUME NEW s \in Nat, NEW t \in Nat, SameBlock(s, t), s # t
    PROVE  Within(s) # Within(t)
  BY Place, K * BlockOf(s) = K * BlockOf(t) DEF SameBlock

(* The copy in RAM is a block, and holds what flash holds. *)
LEMMA Loaded ==
    ASSUME FlashTypeOK, NEW s \in Sectors
    PROVE  /\ LoadBlock(s) \in [0 .. K - 1 -> Cells]
           /\ \A t \in Sectors : SameBlock(t, s) => LoadBlock(s)[Within(t)] = flash[t]
  <1>1. LoadBlock(s) \in [0 .. K - 1 -> Cells]
    BY DEF LoadBlock, FlashTypeOK, Cells
  <1>2. ASSUME NEW t \in Sectors, SameBlock(t, s)
        PROVE  LoadBlock(s)[Within(t)] = flash[t]
    <2>1. t \in Nat /\ Within(t) \in 0 .. K - 1
      BY Place DEF Sectors
    <2>2. K * BlockOf(s) + Within(t) = t
      BY <1>2, <2>1, Place DEF SameBlock
    <2> QED
      BY <2>1, <2>2 DEF LoadBlock
  <1> QED
    BY <1>1, <1>2

(* Every step of program_sector keeps the types. *)
LEMMA TypeStep == FlashTypeOK /\ [FlashNext]_flashVars => FlashTypeOK'
  <1> SUFFICES ASSUME FlashTypeOK, [FlashNext]_flashVars PROVE FlashTypeOK'
    OBVIOUS
  <1>p. ASSUME NEW upto \in 0 .. K PROVE Programmed(upto) \in [Sectors -> Cells]
    <2>1. \A s \in Sectors : Within(s) \in 0 .. K - 1
      BY Place DEF Sectors
    <2> QED
      BY <2>1 DEF Programmed, FlashTypeOK
  <1>e. [i \in 0 .. K - 1 |-> Blank] \in [0 .. K - 1 -> Cells]
    BY DEF Cells
  <1>1. ASSUME NEW s \in 0 .. Size, NEW v \in Contents, Patch(s, v) PROVE FlashTypeOK'
    <2>1. s \in Sectors
      BY <1>1 DEF Patch, Accepts, Sectors
    <2>2. LoadBlock(s) \in [0 .. K - 1 -> Cells] /\ Within(s) \in 0 .. K - 1
      BY <2>1, Loaded, Place DEF Sectors
    <2>3. g_rmw' \in [0 .. K - 1 -> Cells]
      BY <1>1, <2>2 DEF Patch, Cells
    <2> QED
      BY <1>1, <2>1, <2>3 DEF Patch, FlashTypeOK, Sectors
  <1>2. CASE Erase
    BY <1>2 DEF Erase, FlashTypeOK, Cells
  <1>3. CASE Program
    BY <1>3, <1>p DEF Program, FlashTypeOK
  <1>4. CASE Cut
    <2>1. flash' \in [Sectors -> Cells]
      BY <1>4, <1>p DEF Cut, FlashTypeOK
    <2> QED
      BY <1>4, <1>e, <2>1 DEF Cut, FlashTypeOK
  <1>5. CASE UNCHANGED flashVars
    BY <1>5 DEF flashVars, FlashTypeOK
  <1> QED
    BY <1>1, <1>2, <1>3, <1>4, <1>5 DEF FlashNext

(* The volume and the copy in RAM keep their types (program_sector).       *)
THEOREM FlashTypeCorrect == FlashSpec => []FlashTypeOK
  <1>1. FlashInit => FlashTypeOK
    BY DEF FlashInit, FlashTypeOK, Cells
  <1> QED
    BY <1>1, TypeStep, PTL DEF FlashSpec

(* From the patch until the block is programmed, no step changes the copy *)
(* in RAM.                                                                *)
LEMMA PatchStep ==
    FlashTypeOK /\ BlockInRam /\ [FlashNext]_flashVars => BlockInRam'
  <1> SUFFICES ASSUME FlashTypeOK, BlockInRam, [FlashNext]_flashVars PROVE BlockInRam'
    OBVIOUS
  <1>1. ASSUME NEW s \in 0 .. Size, NEW v \in Contents, Patch(s, v) PROVE BlockInRam'
    <2>1. s \in Sectors
      BY <1>1 DEF Patch, Accepts, Sectors
    <2>2. /\ LoadBlock(s) \in [0 .. K - 1 -> Cells] /\ Within(s) \in 0 .. K - 1
          /\ \A t \in Sectors : SameBlock(t, s) => LoadBlock(s)[Within(t)] = flash[t]
      BY <2>1, Loaded, Place DEF Sectors
    <2>3. lba' = s /\ flash' = flash /\ g_rmw' = [LoadBlock(s) EXCEPT ![Within(s)] = v]
      BY <1>1 DEF Patch
    <2>4. g_rmw'[Within(s)] = v
      BY <2>2, <2>3
    <2>5. ASSUME NEW t \in Sectors, SameBlock(t, s), t # s
          PROVE  g_rmw'[Within(t)] = flash[t]
      <3>1. Within(t) # Within(s) /\ Within(t) \in 0 .. K - 1
        BY <2>1, <2>5, OwnPlace, Place DEF Sectors
      <3> QED
        BY <2>2, <2>3, <2>5, <3>1
    <2> QED
      BY <1>1, <2>3, <2>4, <2>5 DEF Patch, BlockInRam, SameBlock, BlockOf, Within
  <1>2. CASE Erase
    <2>1. \A s \in Sectors : SameBlock(s, lba) => flash'[s] = Blank
      BY <1>2 DEF Erase
    <2> QED
      BY <1>2, <2>1 DEF Erase, BlockInRam, SameBlock, BlockOf
  <1>3. CASE Program \/ Cut
    BY <1>3 DEF Program, Cut, BlockInRam
  <1>4. CASE UNCHANGED flashVars
    BY <1>4 DEF flashVars, BlockInRam, SameBlock, BlockOf, Within
  <1> QED
    BY <1>1, <1>2, <1>3, <1>4 DEF FlashNext

(* Until the block is programmed, RAM holds what flash is about to lose    *)
(* (diskio_flash.cpp:62-69).                                               *)
THEOREM BlockInRamHolds == FlashSpec => []BlockInRam
  <1>1. FlashInit => FlashTypeOK /\ BlockInRam
    BY DEF FlashInit, FlashTypeOK, BlockInRam, Cells
  <1> QED
    BY <1>1, TypeStep, PatchStep, PTL DEF FlashSpec

-----------------------------------------------------------------------------
(* What the reader sees during each step.                                  *)

(* Unless a block is erased, flash is what a reader sees. *)
LEMMA SeenIdle == ASSUME FlashTypeOK, stage # "erased" PROVE Visible = flash
  BY DEF Visible, FlashTypeOK

(* To a reader, erasing a block is writing the sector it is erased for. *)
LEMMA EraseShows ==
    ASSUME FlashTypeOK, BlockInRam, Erase
    PROVE  /\ lba \in Sectors /\ g_rmw[Within(lba)] \in Contents
           /\ Visible' = [Visible EXCEPT ![lba] = g_rmw[Within(lba)]]
           /\ Visible'[lba] = g_rmw[Within(lba)]
  <1>1. Visible = flash
    BY SeenIdle DEF Erase
  <1>2. lba \in Sectors /\ g_rmw[Within(lba)] \in Contents
    BY DEF Erase, FlashTypeOK, BlockInRam
  <1>3. Visible' = [s \in Sectors |->
                      IF SameBlock(s, lba) THEN g_rmw[Within(s)] ELSE flash[s]]
    BY DEF Erase, Visible, SameBlock, BlockOf, Within
  <1>4. SameBlock(lba, lba)
    BY DEF SameBlock
  <1>5. Visible' = [flash EXCEPT ![lba] = g_rmw[Within(lba)]]
    BY <1>2, <1>3, <1>4 DEF Erase, BlockInRam, FlashTypeOK
  <1>6. Visible'[lba] = g_rmw[Within(lba)]
    BY <1>2, <1>5 DEF FlashTypeOK
  <1> QED
    BY <1>1, <1>2, <1>5, <1>6

(* Programming the block changes nothing for a reader. *)
LEMMA ProgramShows ==
    ASSUME FlashTypeOK, Program
    PROVE  Visible' = Visible
  <1>1. \A s \in Sectors : Within(s) < K
    BY Place DEF Sectors
  <1>2. Visible' = flash'
    BY DEF Program, Visible, Programmed, Sectors
  <1>3. flash' = Visible
    BY <1>1 DEF Program, Visible, Programmed
  <1> QED
    BY <1>2, <1>3

(* A power cut takes sectors of the block that is erased. *)
LEMMA CutShows ==
    ASSUME FlashTypeOK, FlashTypeOK', BlockInRam, Cut
    PROVE  /\ stage # "erased" => Visible' = Visible
           /\ stage = "erased" =>
                \E lost \in SUBSET {s \in Sectors : SameBlock(s, lba)} :
                    Visible' = [s \in Sectors |-> IF s \in lost THEN Blank ELSE Visible[s]]
  <1>1. CASE stage # "erased"
    <2>1. Visible = flash /\ Visible' = flash'
      BY <1>1, SeenIdle DEF Cut, Visible, FlashTypeOK
    <2> QED
      BY <1>1, <2>1 DEF Cut
  <1>2. CASE stage = "erased"
    <2>1. PICK upto \in 0 .. K - 1 : flash' = Programmed(upto)
      BY <1>2 DEF Cut
    <2> DEFINE lost == {s \in Sectors : SameBlock(s, lba) /\ ~(Within(s) < upto)}
    <2>2. Visible' = flash'
      BY <1>2 DEF Cut, Visible, FlashTypeOK
    <2>3. \A s \in lost : flash[s] = Blank
      BY <1>2 DEF BlockInRam
    <2>4. flash' = [s \in Sectors |-> IF s \in lost THEN Blank ELSE Visible[s]]
      BY <1>2, <2>1, <2>3 DEF Programmed, Visible
    <2>5. lost \in SUBSET {s \in Sectors : SameBlock(s, lba)}
      OBVIOUS
    <2> HIDE DEF lost
    <2> QED
      BY <1>2, <2>2, <2>4, <2>5
  <1> QED
    BY <1>1, <1>2

(* Every step is a step of the store or changes nothing that can be read. *)
LEMMA StoreStep ==
    FlashTypeOK /\ FlashTypeOK' /\ BlockInRam /\ [FlashNext]_flashVars
        => [Store!Next]_Visible
  <1> SUFFICES ASSUME FlashTypeOK, FlashTypeOK', BlockInRam, [FlashNext]_flashVars
               PROVE  [Store!Next]_Visible
    OBVIOUS
  <1>s. Store!Sectors = Sectors /\ \A s : Store!BlockOf(s) = BlockOf(s)
    BY DEF Store!Sectors, Sectors, Store!BlockOf, BlockOf
  <1>1. ASSUME NEW s \in 0 .. Size, NEW v \in Contents, Patch(s, v)
        PROVE  UNCHANGED Visible
    BY <1>1 DEF Patch, Visible
  <1>2. CASE Erase
    <2>1. Store!Write(lba) /\ lba \in Sectors
      BY <1>2, EraseShows DEF Store!Write
    <2> QED
      BY <1>s, <2>1 DEF Store!Next
  <1>3. CASE Program
    BY <1>3, ProgramShows
  <1>4. CASE Cut /\ stage # "erased"
    BY <1>4, CutShows
  <1>5. CASE Cut /\ stage = "erased"
    <2>1. PICK lost \in SUBSET {s \in Sectors : SameBlock(s, lba)} :
              Visible' = [s \in Sectors |-> IF s \in lost THEN Blank ELSE Visible[s]]
      BY <1>5, CutShows
    <2>2. lba \in Sectors /\ lost \in SUBSET {s \in Sectors : BlockOf(s) = BlockOf(lba)}
      BY <1>5 DEF FlashTypeOK, SameBlock
    <2>3. Store!Tear(lost)
      BY <1>s, <2>1 DEF Store!Tear
    <2> QED
      BY <1>s, <2>2, <2>3 DEF Store!Next, Store!InBlock
  <1>6. CASE UNCHANGED flashVars
    BY <1>6 DEF flashVars, Visible, SameBlock, BlockOf, Within
  <1> QED
    BY <1>1, <1>2, <1>3, <1>4, <1>5, <1>6 DEF FlashNext

(* Rewriting erase blocks implements a store of sectors, of which a power  *)
(* cut takes those of one block at most (diskio_flash.cpp:51-71).          *)
THEOREM ImplementsStore == FlashSpec => IsSectorStore
  <1>1. FlashInit => FlashTypeOK /\ BlockInRam /\ Store!Init
    BY DEF FlashInit, FlashTypeOK, BlockInRam, Visible, Store!Init, Store!Sectors, Sectors, Cells
  <1>2. FlashTypeOK /\ BlockInRam /\ [FlashNext]_flashVars
            => (FlashTypeOK /\ BlockInRam)' /\ [Store!Next]_Visible
    BY TypeStep, PatchStep, StoreStep
  <1> QED
    BY <1>1, <1>2, PTL DEF FlashSpec, IsSectorStore, Store!Spec

-----------------------------------------------------------------------------
(* The volume.  A state of the volume is what its sectors hold; what the   *)
(* next writes will make of it is a course of such states, each of which   *)
(* must be good, because power may fail in any of them.                    *)

States == [Sectors -> Cells]
Reserved == {Mbr, Vbr, Fat, Dir}
Places == Reserved \union Data
Writes == Places \X Contents
Put(v, s, x) == [v EXCEPT ![s] = x]

RootOf(v) == IF v[Dir] = Blank THEN [n \in Names |-> Absent] ELSE v[Dir]
UsedOf(v) == IF v[Fat] = Blank THEN Data ELSE {c \in Data : v[Fat][c]}
ReadOf(v, n) == IF RootOf(v)[n] \in Data THEN v[RootOf(v)[n]] ELSE RootOf(v)[n]

(* The types of the sectors. *)
Typed(v) ==
    /\ \A c \in Data : v[c] \in Texts \union {Blank}
    /\ v[Fat] # Blank => v[Fat] \in [Data -> BOOLEAN]
    /\ v[Dir] # Blank => v[Dir] \in [Names -> Entries]

(* No cluster has two owners, or an owner and the mark of a free one. *)
Separate(v) ==
    \A n \in Names : RootOf(v)[n] \in Data =>
        RootOf(v)[n] \in UsedOf(v) /\ \A m \in Names : RootOf(v)[m] = RootOf(v)[n] => m = n

(* The files of k read as k has them. *)
Holds(v, k) == \A n \in Names : k[n] # Absent => ReadOf(v, n) = k[n]

(* Before the partition table is there, there is no file. *)
Bare(v, k) == \A n \in Names : k[n] = Absent /\ RootOf(v)[n] = Absent
Formatted(v, k) == IF v[Mbr] = Blank THEN Bare(v, k) ELSE v[Vbr] # Blank

Fresh(v, fw) == ReadOf(v, Version) \in {fw, Empty}

GoodFor(k, serving, fw) ==
    {v \in States : /\ Typed(v) /\ Separate(v) /\ Holds(v, k) /\ Formatted(v, k)
                    /\ serving => Fresh(v, fw) /\ v[Mbr] # Blank}

(* The same while the host has freed a cluster and not removed its entry.  *)
LooseFor(k, serving, fw) ==
    {v \in States : /\ Typed(v) /\ Holds(v, k) /\ Formatted(v, k)
                    /\ serving => Fresh(v, fw) /\ v[Mbr] # Blank}

(* The tables that a format writes are written while there is none. *)
Allowed(v, s) == s \in {Mbr, Vbr} => v[Mbr] = Blank

(* From v the writes w lead through states of G to one of F. *)
Course(v, w, G, F) ==
    \E S :
        /\ S[0] = v /\ S[Len(w)] \in F
        /\ \A i \in 0 .. Len(w) : S[i] \in G
        /\ \A i \in 1 .. Len(w) :
              S[i] = Put(S[i - 1], w[i][1], w[i][2]) /\ Allowed(S[i - 1], w[i][1])

(* No write leads on from a state that is good and final. *)
LEMMA CourseNil ==
    ASSUME NEW v, NEW G, NEW F, v \in G, v \in F
    PROVE  Course(v, <<>>, G, F)
<1> DEFINE S == [i \in {0} |-> v]
<1>1. S[0] = v /\ S[Len(<<>>)] \in F /\ \A i \in 0 .. Len(<<>>) : S[i] \in G
  OBVIOUS
<1>2. \A i \in 1 .. Len(<<>>) : FALSE
  OBVIOUS
<1> HIDE DEF S
<1> QED
  BY <1>1, <1>2 DEF Course

(* The state a course begins in is good, and final if no write is left. *)
LEMMA CourseHere ==
    ASSUME NEW v, NEW G, NEW F, NEW w \in Seq(Writes), Course(v, w, G, F)
    PROVE  v \in G /\ (w = <<>> => v \in F)
BY DEF Course

(* A write in front of a course, from a good state. *)
LEMMA CourseCons ==
    ASSUME NEW G, NEW F, NEW v \in G, NEW s \in Places, NEW c \in Contents,
           NEW w \in Seq(Writes), Allowed(v, s), Course(Put(v, s, c), w, G, F)
    PROVE  /\ <<<<s, c>>>> \o w \in Seq(Writes)
           /\ Course(v, <<<<s, c>>>> \o w, G, F)
<1>1. PICK S :
        /\ S[0] = Put(v, s, c) /\ S[Len(w)] \in F
        /\ \A i \in 0 .. Len(w) : S[i] \in G
        /\ \A i \in 1 .. Len(w) :
              S[i] = Put(S[i - 1], w[i][1], w[i][2]) /\ Allowed(S[i - 1], w[i][1])
  BY DEF Course
<1> DEFINE x == <<<<s, c>>>> \o w
           R == [i \in 0 .. Len(w) + 1 |-> IF i = 0 THEN v ELSE S[i - 1]]
<1>2. <<s, c>> \in Writes
  BY DEF Writes
<1>3. x \in Seq(Writes) /\ Len(x) = Len(w) + 1 /\ x[1] = <<s, c>>
  BY <1>2
<1>4. \A i \in 2 .. Len(w) + 1 : x[i] = w[i - 1]
  BY <1>2
<1> HIDE DEF x
<1>5. Len(w) \in Nat
  OBVIOUS
<1>6. R[0] = v /\ R[1] = S[0] /\ R[Len(x)] = S[Len(w)]
  BY <1>3, <1>5
<1>7. \A i \in 0 .. Len(x) : R[i] \in G
  <2> SUFFICES ASSUME NEW i \in 0 .. Len(x) PROVE R[i] \in G
    OBVIOUS
  <2>1. CASE i = 0
    BY <2>1, <1>6
  <2>2. CASE i # 0
    <3>1. i - 1 \in 0 .. Len(w) /\ R[i] = S[i - 1]
      BY <2>2, <1>3, <1>5
    <3> QED
      BY <3>1, <1>1
  <2> QED
    BY <2>1, <2>2
<1>8. \A i \in 1 .. Len(x) :
         R[i] = Put(R[i - 1], x[i][1], x[i][2]) /\ Allowed(R[i - 1], x[i][1])
  <2> SUFFICES ASSUME NEW i \in 1 .. Len(x)
               PROVE  R[i] = Put(R[i - 1], x[i][1], x[i][2]) /\ Allowed(R[i - 1], x[i][1])
    OBVIOUS
  <2>1. CASE i = 1
    BY <2>1, <1>1, <1>3, <1>6
  <2>2. CASE i # 1
    <3>1. /\ i \in 2 .. Len(w) + 1 /\ i - 1 \in 1 .. Len(w) /\ i \in Int
          /\ R[i] = S[i - 1] /\ R[i - 1] = S[(i - 1) - 1]
      BY <2>2, <1>3, <1>5
    <3>2. x[i] = w[i - 1]
      BY <3>1, <1>4
    <3> DEFINE j == i - 1
    <3>3. S[j] = Put(S[j - 1], w[j][1], w[j][2]) /\ Allowed(S[j - 1], w[j][1])
      BY <3>1, <1>1, Zenon
    <3> QED
      BY <3>1, <3>2, <3>3, Zenon
  <2> QED
    BY <2>1, <2>2
<1> HIDE DEF R
<1>9. Course(v, x, G, F)
  BY <1>1, <1>6, <1>7, <1>8 DEF Course
<1> QED
  BY <1>3, <1>9 DEF x

(* The first write of a course leads to the state the rest begins in. *)
LEMMA CourseStep ==
    ASSUME NEW G, NEW F, NEW v, NEW w \in Seq(Writes), w # <<>>, Course(v, w, G, F)
    PROVE  /\ Head(w) \in Writes /\ Tail(w) \in Seq(Writes)
           /\ Allowed(v, Head(w)[1])
           /\ Course(Put(v, Head(w)[1], Head(w)[2]), Tail(w), G, F)
<1>1. PICK S :
        /\ S[0] = v /\ S[Len(w)] \in F
        /\ \A i \in 0 .. Len(w) : S[i] \in G
        /\ \A i \in 1 .. Len(w) :
              S[i] = Put(S[i - 1], w[i][1], w[i][2]) /\ Allowed(S[i - 1], w[i][1])
  BY DEF Course
<1>2. /\ Len(w) \in Nat \ {0} /\ Head(w) = w[1] /\ w[1] \in Writes
      /\ Tail(w) \in Seq(Writes) /\ Len(Tail(w)) = Len(w) - 1
      /\ \A i \in 1 .. Len(w) - 1 : Tail(w)[i] = w[i + 1]
  OBVIOUS
<1> DEFINE n == Len(w) - 1
           R == [i \in 0 .. n |-> S[i + 1]]
<1>3. R[0] = S[1] /\ R[n] = S[Len(w)] /\ n \in Nat
  BY <1>2
<1>4. S[1] = Put(v, Head(w)[1], Head(w)[2]) /\ Allowed(v, Head(w)[1])
  <2>1. 1 \in 1 .. Len(w) /\ 1 - 1 = 0
    BY <1>2
  <2>2. /\ S[1] = Put(S[1 - 1], w[1][1], w[1][2]) 
        /\ Allowed(S[1 - 1], w[1][1])
    BY <2>1, <1>1, Zenon
  <2> QED
    BY <2>1, <2>2, <1>1, <1>2, Zenon
<1>5. \A i \in 0 .. n : R[i] \in G
  BY <1>1, <1>2
<1>6. \A i \in 1 .. n :
         R[i] = Put(R[i - 1], Tail(w)[i][1], Tail(w)[i][2])
           /\ Allowed(R[i - 1], Tail(w)[i][1])
  <2> SUFFICES ASSUME NEW i \in 1 .. n
               PROVE  R[i] = Put(R[i - 1], Tail(w)[i][1], Tail(w)[i][2])
                        /\ Allowed(R[i - 1], Tail(w)[i][1])
    OBVIOUS
  <2>1. /\ i + 1 \in 1 .. Len(w) /\ R[i] = S[i + 1] /\ R[i - 1] = S[(i + 1) - 1]
        /\ Tail(w)[i] = w[i + 1]
    BY <1>2
  <2> QED
    BY <2>1, <1>1
<1> HIDE DEF R
<1> DEFINE u == Put(v, Head(w)[1], Head(w)[2])
           t == Tail(w)
<1>7. Len(t) = n /\ R[0] = u /\ R[Len(t)] \in F
  BY <1>1, <1>2, <1>3, <1>4
<1> HIDE DEF n, u, t
<1>8. Course(u, t, G, F)
  BY <1>5, <1>6, <1>7, Zenon DEF Course, t
<1> QED
  BY <1>2, <1>4, <1>8 DEF u, t

(* Weaker demands are met as well. *)
LEMMA CourseMore ==
    ASSUME NEW G, NEW F, NEW H, NEW E, NEW v, NEW w \in Seq(Writes),
           Course(v, w, G, F), G \subseteq H, F \intersect G \subseteq E
    PROVE  Course(v, w, H, E)
<1>1. PICK S :
        /\ S[0] = v /\ S[Len(w)] \in F
        /\ \A i \in 0 .. Len(w) : S[i] \in G
        /\ \A i \in 1 .. Len(w) :
              S[i] = Put(S[i - 1], w[i][1], w[i][2]) /\ Allowed(S[i - 1], w[i][1])
  BY Zenon DEF Course
<1>2. Len(w) \in 0 .. Len(w)
  OBVIOUS
<1> QED
  BY <1>1, <1>2, Zenon DEF Course

-----------------------------------------------------------------------------
(* What one write makes of a volume. *)

Marked(U) == [c \in Data |-> c \in U]
EntryOf(v, n, e) == [RootOf(v) EXCEPT ![n] = e]

(* The places of the volume are sectors, and different ones. *)
LEMMA Layout ==
    /\ {Mbr, Vbr, Fat, Dir} \subseteq Sectors /\ Data \subseteq Sectors
    /\ Vbr # Mbr /\ Fat # Mbr /\ Dir # Mbr /\ Fat # Vbr /\ Dir # Vbr /\ Fat # Dir
    /\ Mbr \notin Data /\ Vbr \notin Data /\ Fat \notin Data /\ Dir \notin Data
<1>1. \A s : SameBlock(s, s)
  BY DEF SameBlock
<1> QED
  BY <1>1, VolumeAssumption, LayoutAssumption

(* What is written into a sector are contents of a sector. *)
LEMMA Fits ==
    /\ Texts \subseteq Contents /\ [Data -> BOOLEAN] \subseteq Contents
    /\ [Names -> Entries] \subseteq Contents /\ Record \in Contents
    /\ Blank \notin Contents /\ Contents \subseteq Cells /\ Blank \in Cells
BY ContentsAssumption DEF Cells

(* An entry is absent, empty or a cluster, never two of these. *)
LEMMA Marks == Absent # Empty /\ Absent \notin Data /\ Empty \notin Data
BY NamesAssumption

(* Writing a sector changes that sector only. *)
LEMMA PutIs ==
    ASSUME NEW v \in States, NEW s \in Sectors, NEW x \in Contents
    PROVE  /\ Put(v, s, x) \in States /\ Put(v, s, x)[s] = x
           /\ \A t \in Sectors \ {s} : Put(v, s, x)[t] = v[t]
BY Fits DEF Put, States

(* A table marks the clusters it was made from. *)
LEMMA MarkedIs ==
    ASSUME NEW U \in SUBSET Data
    PROVE  /\ Marked(U) \in [Data -> BOOLEAN] /\ Marked(U) \in Contents /\ Marked(U) # Blank
           /\ {c \in Data : Marked(U)[c]} = U
<1>1. Marked(U) \in [Data -> BOOLEAN]
  BY DEF Marked
<1>2. {c \in Data : Marked(U)[c]} = U
  <2>1. \A c \in Data : Marked(U)[c] = (c \in U)
    BY Zenon DEF Marked
  <2> QED
    BY <2>1, Zenon
<1> QED
  BY <1>1, <1>2, Fits

(* What a directory and a table mean, torn or not. *)
LEMMA RootType ==
    ASSUME NEW v, Typed(v)
    PROVE  RootOf(v) \in [Names -> Entries] /\ UsedOf(v) \in SUBSET Data
BY DEF RootOf, UsedOf, Typed, Entries

(* A directory with one entry replaced. *)
LEMMA EntryIs ==
    ASSUME NEW v, Typed(v), NEW n \in Names, NEW e \in Entries
    PROVE  /\ EntryOf(v, n, e) \in [Names -> Entries] /\ EntryOf(v, n, e) \in Contents
           /\ EntryOf(v, n, e) # Blank /\ EntryOf(v, n, e)[n] = e
           /\ \A m \in Names \ {n} : EntryOf(v, n, e)[m] = RootOf(v)[m]
BY RootType, Fits DEF EntryOf

(* Writing the directory changes the directory only. *)
LEMMA WriteDir ==
    ASSUME NEW v \in States, Typed(v), NEW d \in [Names -> Entries]
    PROVE  LET u == Put(v, Dir, d) IN
           /\ u \in States /\ Typed(u)
           /\ RootOf(u) = d /\ UsedOf(u) = UsedOf(v)
           /\ \A s \in Sectors \ {Dir} : u[s] = v[s]
<1> DEFINE u == Put(v, Dir, d)
<1>1. u \in States /\ u[Dir] = d /\ \A s \in Sectors \ {Dir} : u[s] = v[s]
  BY PutIs, Layout, Fits
<1> HIDE DEF u
<1>2. u[Fat] = v[Fat] /\ \A c \in Data : u[c] = v[c]
  BY <1>1, Layout
<1>3. d # Blank
  BY Fits
<1>4. RootOf(u) = d
  BY <1>1, <1>3 DEF RootOf
<1>5. UsedOf(u) = UsedOf(v)
  BY <1>2 DEF UsedOf
<1>6. Typed(u)
  BY <1>1, <1>2 DEF Typed
<1> QED
  BY <1>1, <1>4, <1>5, <1>6 DEF u

(* Writing the table changes the table only. *)
LEMMA WriteFat ==
    ASSUME NEW v \in States, Typed(v), NEW U \in SUBSET Data
    PROVE  LET u == Put(v, Fat, Marked(U)) IN
           /\ u \in States /\ Typed(u)
           /\ RootOf(u) = RootOf(v) /\ UsedOf(u) = U
           /\ \A s \in Sectors \ {Fat} : u[s] = v[s]
<1> DEFINE u == Put(v, Fat, Marked(U))
<1>1. u \in States /\ u[Fat] = Marked(U) /\ \A s \in Sectors \ {Fat} : u[s] = v[s]
  BY PutIs, Layout, MarkedIs
<1> HIDE DEF u
<1>2. u[Dir] = v[Dir] /\ \A c \in Data : u[c] = v[c]
  BY <1>1, Layout
<1>3. UsedOf(u) = U
  <2>1. u[Fat] # Blank /\ {c \in Data : Marked(U)[c]} = U
    BY <1>1, MarkedIs
  <2>2. UsedOf(u) = {c \in Data : u[Fat][c]}
    BY <2>1 DEF UsedOf
  <2> QED
    BY <1>1, <2>1, <2>2, Zenon
<1>4. RootOf(u) = RootOf(v)
  BY <1>2 DEF RootOf
<1>5. Typed(u)
  BY <1>1, <1>2, MarkedIs DEF Typed
<1> QED
  BY <1>1, <1>3, <1>4, <1>5 DEF u

(* Writing a cluster changes neither directory nor table. *)
LEMMA WriteText ==
    ASSUME NEW v \in States, Typed(v), NEW c \in Data, NEW text \in Texts
    PROVE  LET u == Put(v, c, text) IN
           /\ u \in States /\ Typed(u) /\ u[c] = text
           /\ RootOf(u) = RootOf(v) /\ UsedOf(u) = UsedOf(v)
           /\ \A s \in Sectors \ {c} : u[s] = v[s]
<1> DEFINE u == Put(v, c, text)
<1>1. u \in States /\ u[c] = text /\ \A s \in Sectors \ {c} : u[s] = v[s]
  BY PutIs, Layout, Fits
<1> HIDE DEF u
<1>2. u[Dir] = v[Dir] /\ u[Fat] = v[Fat]
  BY <1>1, Layout
<1>3. Typed(u)
  <2>1. ASSUME NEW e \in Data PROVE u[e] \in Texts \union {Blank}
    BY <1>1, Layout DEF Typed
  <2> QED
    BY <2>1, <1>2 DEF Typed
<1> QED
  BY <1>1, <1>2, <1>3 DEF RootOf, UsedOf, u

(* Whether a state is good depends on its entries, its table, the clusters *)
(* of its files and the partition table only.                              *)
LEMMA GoodAfter ==
    ASSUME NEW k, NEW q \in BOOLEAN, NEW fw, NEW v \in GoodFor(k, q, fw), v[Mbr] # Blank,
           NEW u \in States, Typed(u), Separate(u), u[Mbr] = v[Mbr], u[Vbr] = v[Vbr],
           \A n \in Names : k[n] # Absent \/ (q /\ n = Version) => ReadOf(u, n) = ReadOf(v, n)
    PROVE  u \in GoodFor(k, q, fw) /\ u[Mbr] # Blank
<1>1. Holds(u, k)
  BY DEF GoodFor, Holds
<1>2. Formatted(u, k)
  BY DEF GoodFor, Formatted
<1>3. Version \in Names
  BY DEF Names
<1>4. q => Fresh(u, fw)
  BY <1>3 DEF GoodFor, Fresh
<1> QED
  BY <1>1, <1>2, <1>4 DEF GoodFor

(* The entry of n is emptied or removed. *)
LEMMA DropEntry ==
    ASSUME NEW k, NEW q \in BOOLEAN, NEW fw, NEW v \in GoodFor(k, q, fw), v[Mbr] # Blank,
           NEW n \in Names, k[n] = Absent, q => n # Version, NEW e \in {Absent, Empty}
    PROVE  LET u == Put(v, Dir, EntryOf(v, n, e)) IN
           /\ u \in GoodFor(k, q, fw) /\ u[Mbr] # Blank
           /\ EntryOf(v, n, e) \in Contents
           /\ RootOf(u) = EntryOf(v, n, e) /\ UsedOf(u) = UsedOf(v)
<1> DEFINE d == EntryOf(v, n, e)
           u == Put(v, Dir, d)
<1>1. v \in States /\ Typed(v) /\ Separate(v)
  BY DEF GoodFor
<1>2. e \in Entries /\ e \notin Data
  BY Marks DEF Entries
<1>3. /\ d \in [Names -> Entries] /\ d \in Contents /\ d[n] = e
      /\ \A m \in Names \ {n} : d[m] = RootOf(v)[m]
  BY <1>1, <1>2, EntryIs
<1> HIDE DEF d
<1>4. /\ u \in States /\ Typed(u) /\ RootOf(u) = d /\ UsedOf(u) = UsedOf(v)
      /\ \A s \in Sectors \ {Dir} : u[s] = v[s]
  BY <1>1, <1>3, WriteDir
<1> HIDE DEF u
<1>5. ASSUME NEW m \in Names, d[m] \in Data PROVE m # n /\ d[m] = RootOf(v)[m]
  BY <1>2, <1>3, <1>5
<1>6. Separate(u)
  BY <1>1, <1>4, <1>5 DEF Separate
<1>7. u[Mbr] = v[Mbr] /\ u[Vbr] = v[Vbr] /\ \A c \in Data : u[c] = v[c]
  BY <1>4, Layout
<1>8. \A m \in Names : k[m] # Absent \/ (q /\ m = Version) => ReadOf(u, m) = ReadOf(v, m)
  BY <1>3, <1>4, <1>7 DEF ReadOf
<1>9. u \in GoodFor(k, q, fw) /\ u[Mbr] # Blank
  BY <1>4, <1>6, <1>7, <1>8, GoodAfter
<1> QED
  BY <1>3, <1>4, <1>9 DEF d, u

(* The entry of n becomes a cluster that is in use, and no other's. *)
LEMMA AddEntry ==
    ASSUME NEW k, NEW q \in BOOLEAN, NEW fw, NEW v \in GoodFor(k, q, fw), v[Mbr] # Blank,
           NEW n \in Names, k[n] = Absent, q => n # Version, NEW c \in UsedOf(v),
           \A m \in Names : RootOf(v)[m] = c => m = n
    PROVE  LET u == Put(v, Dir, EntryOf(v, n, c)) IN
           /\ u \in GoodFor(k, q, fw) /\ u[Mbr] # Blank
           /\ EntryOf(v, n, c) \in Contents
           /\ ReadOf(u, n) = v[c]
<1> DEFINE d == EntryOf(v, n, c)
           u == Put(v, Dir, d)
<1>1. v \in States /\ Typed(v) /\ Separate(v)
  BY DEF GoodFor
<1>2. c \in Entries /\ c \in Data
  BY <1>1, RootType DEF Entries
<1>3. /\ d \in [Names -> Entries] /\ d \in Contents /\ d[n] = c
      /\ \A m \in Names \ {n} : d[m] = RootOf(v)[m]
  BY <1>1, <1>2, EntryIs
<1> HIDE DEF d
<1>4. /\ u \in States /\ Typed(u) /\ RootOf(u) = d /\ UsedOf(u) = UsedOf(v)
      /\ \A s \in Sectors \ {Dir} : u[s] = v[s]
  BY <1>1, <1>3, WriteDir
<1> HIDE DEF u
<1>5. ASSUME NEW m \in Names, d[m] \in Data
      PROVE  d[m] \in UsedOf(v) /\ \A l \in Names : d[l] = d[m] => l = m
  <2>1. CASE m = n
    BY <2>1, <1>3
  <2>2. CASE m # n
    BY <2>2, <1>1, <1>3, <1>5 DEF Separate
  <2> QED
    BY <2>1, <2>2
<1>6. Separate(u)
  BY <1>4, <1>5 DEF Separate
<1>7. u[Mbr] = v[Mbr] /\ u[Vbr] = v[Vbr] /\ \A e \in Data : u[e] = v[e]
  BY <1>4, Layout
<1>8. \A m \in Names : k[m] # Absent \/ (q /\ m = Version) => ReadOf(u, m) = ReadOf(v, m)
  BY <1>3, <1>4, <1>7 DEF ReadOf
<1>9. u \in GoodFor(k, q, fw) /\ u[Mbr] # Blank
  BY <1>4, <1>6, <1>7, <1>8, GoodAfter
<1>10. ReadOf(u, n) = v[c]
  BY <1>2, <1>3, <1>4, <1>7 DEF ReadOf
<1> QED
  BY <1>3, <1>9, <1>10 DEF d, u

(* The table changes, and every file's cluster stays in use. *)
LEMMA ChangeTable ==
    ASSUME NEW k, NEW q \in BOOLEAN, NEW fw, NEW v \in GoodFor(k, q, fw), v[Mbr] # Blank,
           NEW U \in SUBSET Data, \A n \in Names : RootOf(v)[n] \in Data => RootOf(v)[n] \in U
    PROVE  LET u == Put(v, Fat, Marked(U)) IN
           /\ u \in GoodFor(k, q, fw) /\ u[Mbr] # Blank /\ Marked(U) \in Contents
           /\ RootOf(u) = RootOf(v) /\ UsedOf(u) = U /\ \A c \in Data : u[c] = v[c]
<1> DEFINE u == Put(v, Fat, Marked(U))
<1>1. v \in States /\ Typed(v) /\ Separate(v)
  BY DEF GoodFor
<1>2. /\ u \in States /\ Typed(u) /\ RootOf(u) = RootOf(v) /\ UsedOf(u) = U
      /\ \A s \in Sectors \ {Fat} : u[s] = v[s]
  BY <1>1, WriteFat
<1> HIDE DEF u
<1>3. Separate(u)
  BY <1>1, <1>2 DEF Separate
<1>4. u[Mbr] = v[Mbr] /\ u[Vbr] = v[Vbr] /\ \A c \in Data : u[c] = v[c]
  BY <1>2, Layout
<1>5. \A n \in Names : ReadOf(u, n) = ReadOf(v, n)
  BY <1>2, <1>4 DEF ReadOf
<1>6. u \in GoodFor(k, q, fw) /\ u[Mbr] # Blank
  BY <1>2, <1>3, <1>4, <1>5, GoodAfter
<1> QED
  BY <1>2, <1>4, <1>6, MarkedIs DEF u

(* A cluster is written that belongs to n or to nobody. *)
LEMMA ChangeText ==
    ASSUME NEW k, NEW q \in BOOLEAN, NEW fw, NEW v \in GoodFor(k, q, fw), v[Mbr] # Blank,
           NEW n \in Names, k[n] = Absent, q => n # Version,
           NEW c \in Data, \A m \in Names : RootOf(v)[m] = c => m = n, NEW text \in Texts
    PROVE  LET u == Put(v, c, text) IN
           /\ u \in GoodFor(k, q, fw) /\ u[Mbr] # Blank /\ text \in Contents
           /\ RootOf(u) = RootOf(v) /\ UsedOf(u) = UsedOf(v) /\ u[c] = text
<1> DEFINE u == Put(v, c, text)
<1>1. v \in States /\ Typed(v) /\ Separate(v)
  BY DEF GoodFor
<1>2. /\ u \in States /\ Typed(u) /\ RootOf(u) = RootOf(v) /\ UsedOf(u) = UsedOf(v)
      /\ u[c] = text /\ \A s \in Sectors \ {c} : u[s] = v[s]
  BY <1>1, WriteText
<1> HIDE DEF u
<1>3. Separate(u)
  BY <1>1, <1>2 DEF Separate
<1>4. u[Mbr] = v[Mbr] /\ u[Vbr] = v[Vbr] /\ \A e \in Data \ {c} : u[e] = v[e]
  BY <1>2, Layout
<1>5. \A m \in Names : k[m] # Absent \/ (q /\ m = Version) => ReadOf(u, m) = ReadOf(v, m)
  BY <1>2, <1>4 DEF ReadOf
<1>6. u \in GoodFor(k, q, fw) /\ u[Mbr] # Blank
  BY <1>2, <1>3, <1>4, <1>5, GoodAfter
<1> QED
  BY <1>2, <1>6, Fits DEF u

-----------------------------------------------------------------------------
(* The courses of main.cpp's and the host's writes. *)

(* Two lists of writes that agree everywhere are the same. *)
LEMMA SameSeq ==
    ASSUME NEW s \in Seq(Writes), NEW t \in Seq(Writes), Len(s) = Len(t),
           \A i \in 1 .. Len(s) : s[i] = t[i]
    PROVE  s = t
OBVIOUS

(* Lists of two writes, one after another. *)
LEMMA Two ==
    ASSUME NEW a \in Writes, NEW b \in Writes
    PROVE  <<a>> \o <<b>> = <<a, b>>
<1> DEFINE s == <<a>> \o <<b>>
           t == <<a, b>>
<1>1. s \in Seq(Writes) /\ Len(s) = 2 /\ s[1] = a /\ s[2] = b
  OBVIOUS
<1>2. t \in Seq(Writes) /\ Len(t) = 2 /\ t[1] = a /\ t[2] = b
  OBVIOUS
<1> HIDE DEF s, t
<1>3. \A i \in 1 .. 2 : i = 1 \/ i = 2
  OBVIOUS
<1>4. s = t
  BY <1>1, <1>2, <1>3, SameSeq
<1> QED
  BY <1>4, Zenon DEF s, t

(* Of three, *)
LEMMA Three ==
    ASSUME NEW a \in Writes, NEW b \in Writes, NEW c \in Writes
    PROVE  <<a>> \o <<b, c>> = <<a, b, c>>
<1> DEFINE s == <<a>> \o <<b, c>>
           t == <<a, b, c>>
<1>1. s \in Seq(Writes) /\ Len(s) = 3 /\ s[1] = a /\ s[2] = b /\ s[3] = c
  OBVIOUS
<1>2. t \in Seq(Writes) /\ Len(t) = 3 /\ t[1] = a /\ t[2] = b /\ t[3] = c
  OBVIOUS
<1> HIDE DEF s, t
<1>3. \A i \in 1 .. 3 : i = 1 \/ i = 2 \/ i = 3
  OBVIOUS
<1>4. s = t
  BY <1>1, <1>2, <1>3, SameSeq
<1> QED
  BY <1>4, Zenon DEF s, t

(* of four, *)
LEMMA Four ==
    ASSUME NEW a \in Writes, NEW b \in Writes, NEW c \in Writes, NEW d \in Writes
    PROVE  <<a>> \o <<b, c, d>> = <<a, b, c, d>>
<1> DEFINE s == <<a>> \o <<b, c, d>>
           t == <<a, b, c, d>>
<1>1. s \in Seq(Writes) /\ Len(s) = 4 /\ s[1] = a /\ s[2] = b /\ s[3] = c /\ s[4] = d
  OBVIOUS
<1>2. t \in Seq(Writes) /\ Len(t) = 4 /\ t[1] = a /\ t[2] = b /\ t[3] = c /\ t[4] = d
  OBVIOUS
<1> HIDE DEF s, t
<1>3. \A i \in 1 .. 4 : i = 1 \/ i = 2 \/ i = 3 \/ i = 4
  OBVIOUS
<1>4. s = t
  BY <1>1, <1>2, <1>3, SameSeq
<1> QED
  BY <1>4, Zenon DEF s, t

(* of one and what follows, *)
LEMMA OneMore ==
    ASSUME NEW a \in Writes, NEW w \in Seq(Writes)
    PROVE  <<a>> \o <<>> = <<a>> /\ (<<a>> \o <<>>) \o w = <<a>> \o w
OBVIOUS

(* and of two and what follows. *)
LEMMA TwoMore ==
    ASSUME NEW a \in Writes, NEW b \in Writes, NEW w \in Seq(Writes)
    PROVE  (<<a>> \o <<b>>) \o w = <<a>> \o (<<b>> \o w)
OBVIOUS

(* Outside the partition table and the boot record every write is allowed. *)
LEMMA OpenPlaces ==
    ASSUME NEW v, NEW s \in {Fat, Dir} \union Data
    PROVE  s \in Places /\ s \in Sectors /\ Allowed(v, s)
BY Layout DEF Places, Reserved, Allowed

(* The cluster of a file is marked as used, and belongs to no other. *)
LEMMA InUse ==
    ASSUME NEW v, Typed(v), Separate(v), NEW n \in Names, RootOf(v)[n] \in Data
    PROVE  /\ RootOf(v)[n] \in UsedOf(v)
           /\ \A m \in Names : RootOf(v)[m] = RootOf(v)[n] => m = n
BY DEF Separate

(* Replacing an entry twice is replacing it once. *)
LEMMA SameEntry ==
    ASSUME NEW v, Typed(v), NEW u, NEW n \in Names, NEW e \in Entries, NEW f,
           RootOf(u) = EntryOf(v, n, e)
    PROVE  EntryOf(u, n, f) = EntryOf(v, n, f)
BY RootType DEF EntryOf

(* An empty file is given the free cluster c, which holds text. *)
LEMMA StoreCourse ==
    ASSUME NEW k, NEW q \in BOOLEAN, NEW fw, NEW v \in GoodFor(k, q, fw), v[Mbr] # Blank,
           NEW n \in Names, k[n] = Absent, q => n # Version,
           NEW c \in Data \ UsedOf(v), NEW text \in Texts, NEW F,
           \A u \in GoodFor(k, q, fw) : u[Mbr] # Blank /\ ReadOf(u, n) = text => u \in F
    PROVE  LET w == << <<c, text>>, <<Fat, Marked(UsedOf(v) \union {c})>>,
                       <<Dir, EntryOf(v, n, c)>> >>
           IN  w \in Seq(Writes) /\ Course(v, w, GoodFor(k, q, fw), F)
<1> DEFINE G == GoodFor(k, q, fw)
           U == UsedOf(v) \union {c}
           d == EntryOf(v, n, c)
           v1 == Put(v, c, text)
           v2 == Put(v1, Fat, Marked(U))
           v3 == Put(v2, Dir, d)
<1>1. Typed(v) /\ Separate(v)
  BY DEF GoodFor
<1>2. RootOf(v) \in [Names -> Entries] /\ UsedOf(v) \in SUBSET Data /\ U \in SUBSET Data
  BY <1>1, RootType
<1>3. \A m \in Names : RootOf(v)[m] # c
  BY <1>1, InUse
<1>4. /\ v1 \in G /\ v1[Mbr] # Blank /\ text \in Contents
      /\ RootOf(v1) = RootOf(v) /\ v1[c] = text
  BY <1>3, ChangeText
<1> HIDE DEF v1
<1>5. \A m \in Names : RootOf(v1)[m] \in Data => RootOf(v1)[m] \in U
  BY <1>1, <1>4, InUse
<1> HIDE DEF U
<1>6. /\ v2 \in G /\ v2[Mbr] # Blank /\ Marked(U) \in Contents
      /\ RootOf(v2) = RootOf(v) /\ UsedOf(v2) = U /\ v2[c] = text
  BY <1>2, <1>4, <1>5, ChangeTable
<1> HIDE DEF v2
<1>7. EntryOf(v2, n, c) = d /\ c \in UsedOf(v2) /\ \A m \in Names : RootOf(v2)[m] = c => m = n
  BY <1>3, <1>6 DEF EntryOf, U
<1> HIDE DEF d
<1>8. v3 \in G /\ v3[Mbr] # Blank /\ d \in Contents /\ ReadOf(v3, n) = text
  BY <1>6, <1>7, AddEntry
<1> HIDE DEF v3
<1>9. v3 \in F
  BY <1>8
<1> HIDE DEF G
<1>a. /\ <<c, text>> \in Writes /\ <<Fat, Marked(U)>> \in Writes /\ <<Dir, d>> \in Writes
      /\ v \in G /\ c \in {Fat, Dir} \union Data
  BY <1>4, <1>6, <1>8, OpenPlaces DEF Writes, G
<1> DEFINE w1 == <<<<Dir, d>>>>
           w2 == <<<<Fat, Marked(U)>>, <<Dir, d>>>>
           w3 == <<<<c, text>>, <<Fat, Marked(U)>>, <<Dir, d>>>>
<1>b. /\ <<<<Dir, d>>>> \o <<>> = w1 /\ <<<<Fat, Marked(U)>>>> \o w1 = w2
      /\ <<<<c, text>>>> \o w2 = w3
  BY <1>a, OneMore, Two, Three
<1>c. Course(v3, <<>>, G, F) /\ <<>> \in Seq(Writes)
  BY <1>8, <1>9, CourseNil
<1>d. w1 \in Seq(Writes) /\ Course(v2, w1, G, F)
  <2>1. /\ <<<<Dir, d>>>> \o <<>> \in Seq(Writes)
        /\ Course(v2, <<<<Dir, d>>>> \o <<>>, G, F)
    BY <1>6, <1>8, <1>c, OpenPlaces, CourseCons DEF v3
  <2> QED
    BY <1>b, <2>1, Zenon
<1> HIDE DEF w1
<1>e. w2 \in Seq(Writes) /\ Course(v1, w2, G, F)
  <2>1. /\ <<<<Fat, Marked(U)>>>> \o w1 \in Seq(Writes)
        /\ Course(v1, <<<<Fat, Marked(U)>>>> \o w1, G, F)
    BY <1>4, <1>6, <1>d, OpenPlaces, CourseCons DEF v2
  <2> QED
    BY <1>b, <2>1, Zenon
<1> HIDE DEF w2
<1>f. w3 \in Seq(Writes) /\ Course(v, w3, G, F)
  <2>1. /\ <<<<c, text>>>> \o w2 \in Seq(Writes)
        /\ Course(v, <<<<c, text>>>> \o w2, G, F)
    BY <1>4, <1>a, <1>e, OpenPlaces, CourseCons DEF v1
  <2> QED
    BY <1>b, <2>1, Zenon
<1> QED
  BY <1>f DEF G, U, d

(* The volume's operators are those of a state, taken of what a reader sees. *)
LEMMA Terms ==
    /\ Root = RootOf(Visible) /\ Used = UsedOf(Visible)
    /\ \A n, e : Entry(n, e) = <<Dir, EntryOf(Visible, n, e)>>
    /\ \A U : Table(U) = <<Fat, Marked(U)>>
    /\ \A n : fs_read(n) = ReadOf(Visible, n)
BY Zenon DEF Root, RootOf, Used, UsedOf, Entry, EntryOf, Table, Marked, fs_read, ReadOf

(* An entry is written by a write of the directory, *)
LEMMA DirWrite ==
    ASSUME NEW v, Typed(v), NEW n \in Names, NEW e \in Entries
    PROVE  <<Dir, EntryOf(v, n, e)>> \in Writes
BY EntryIs, OpenPlaces DEF Writes

(* and a table by one of the table. *)
LEMMA FatWrite ==
    ASSUME NEW U \in SUBSET Data
    PROVE  <<Fat, Marked(U)>> \in Writes
BY MarkedIs, OpenPlaces DEF Writes

(* f_open, f_write and f_close of n, that is absent or replaced. *)
LEMMA NewFileCourse ==
    ASSUME NEW k, NEW q \in BOOLEAN, NEW fw, Visible \in GoodFor(k, q, fw), Visible[Mbr] # Blank,
           NEW n \in Names, k[n] = Absent, q => n # Version, NEW text \in Texts,
           NEW job \in NewFile(n, text), NEW F,
           \A u \in GoodFor(k, q, fw) : u[Mbr] # Blank /\ ReadOf(u, n) = job.hold => u \in F
    PROVE  /\ job.write \in Seq(Writes) /\ job.hold \in {text, Empty}
           /\ Course(Visible, job.write, GoodFor(k, q, fw), F)
<1> DEFINE G == GoodFor(k, q, fw)
           v == Visible
           d1 == EntryOf(v, n, Empty)
           v1 == Put(v, Dir, d1)
           w1 == <<<<Dir, d1>>>>
<1>1. Typed(v) /\ Separate(v)
  BY DEF GoodFor
<1>2. RootOf(v) \in [Names -> Entries] /\ UsedOf(v) \in SUBSET Data /\ Empty \in Entries
  BY <1>1, RootType DEF Entries
<1>3. /\ v1 \in G /\ v1[Mbr] # Blank /\ d1 \in Contents
      /\ RootOf(v1) = d1 /\ UsedOf(v1) = UsedOf(v)
  BY DropEntry
<1>4. d1[n] = Empty /\ \A m \in Names \ {n} : d1[m] = RootOf(v)[m]
  BY <1>1, <1>2, EntryIs
<1>5. \A e : EntryOf(v1, n, e) = EntryOf(v, n, e)
  BY <1>1, <1>2, <1>3, SameEntry
<1>6. <<Dir, d1>> \in Writes
  BY <1>1, <1>2, DirWrite
<1>7. v \in G /\ v1 \in G
  BY <1>3
<1>p. ASSUME NEW w \in Seq(Writes), Course(v1, w, G, F)
      PROVE  <<<<Dir, d1>>>> \o w \in Seq(Writes) /\ Course(v, <<<<Dir, d1>>>> \o w, G, F)
  <2> HIDE DEF d1, v
  <2> HIDE DEF G
  <2> QED
    BY <1>3, <1>7, <1>p, OpenPlaces, CourseCons DEF v1
<1>t. /\ OldCluster(n) = {RootOf(v)[n]} \ {Absent, Empty}
      /\ Entry(n, Empty) = <<Dir, d1>>
      /\ \A c : Entry(n, c) = <<Dir, EntryOf(v, n, c)>>
      /\ \A U : Table(U) = <<Fat, Marked(U)>>
  BY Terms, Zenon DEF OldCluster
<1> HIDE DEF d1, v1
<1>8. CASE OldCluster(n) # {}
  <2> DEFINE c == RootOf(v)[n]
             U == UsedOf(v) \ {c}
             v2 == Put(v1, Fat, Marked(U))
             w3 == << <<c, text>>, <<Fat, Marked(U \union {c})>>, <<Dir, EntryOf(v2, n, c)>> >>
  <2>1. OldCluster(n) = {c} /\ c \in Data
    BY <1>2, <1>8, <1>t DEF Entries
  <2>2. c \in UsedOf(v) /\ \A m \in Names : RootOf(v)[m] = c => m = n
    BY <1>1, <2>1, InUse
  <2>3. \A m \in Names : RootOf(v1)[m] \in Data => RootOf(v1)[m] \in U
    <3> SUFFICES ASSUME NEW m \in Names, d1[m] \in Data PROVE d1[m] \in U
      BY <1>3
    <3>1. m # n /\ d1[m] = RootOf(v)[m]
      BY <1>4, Marks
    <3>2. RootOf(v)[m] \in UsedOf(v) /\ RootOf(v)[m] # c
      BY <1>1, <2>2, <3>1, InUse
    <3> QED
      BY <3>1, <3>2
  <2>4. U \in SUBSET Data /\ c \notin U
    BY <1>2
  <2> HIDE DEF U, v
  <2>5. /\ v2 \in G /\ v2[Mbr] # Blank /\ RootOf(v2) = d1 /\ UsedOf(v2) = U
        /\ Marked(U) \in Contents
    BY <1>3, <2>3, <2>4, ChangeTable
  <2>6. <<Fat, Marked(U)>> \in Writes
    BY <2>4, FatWrite
  <2>7. EntryOf(v2, n, c) = EntryOf(v, n, c)
    BY <1>1, <1>2, <2>5, SameEntry DEF d1
  <2>8. job.write = (<<<<Dir, d1>>>> \o <<<<Fat, Marked(U)>>>>) \o w3 /\ job.hold = text
    <3>1. Chosen(n) = {c} /\ Chosen(n) # {}
      BY <2>1 DEF Chosen
    <3>2. /\ Truncate(n) = <<<<Dir, d1>>>> \o <<<<Fat, Marked(U)>>>>
          /\ StoreText(n, text, c) = w3
      BY <1>t, <2>1, <2>7, Terms DEF Truncate, StoreText, U, v
    <3>3. job = [write |-> Truncate(n) \o StoreText(n, text, c), hold |-> text]
      BY <3>1, Zenon DEF NewFile
    <3> QED
      BY <3>2, <3>3
  <2> HIDE DEF c
  <2>9. w3 \in Seq(Writes) /\ Course(v2, w3, G, F)
    <3>1. c \in Data \ UsedOf(v2)
      BY <2>1, <2>4, <2>5
    <3> HIDE DEF v2
    <3>2. \A u \in G : u[Mbr] # Blank /\ ReadOf(u, n) = text => u \in F
      BY <2>8
    <3> QED
      BY <2>5, <3>1, <3>2, StoreCourse
  <2> HIDE DEF w3
  <2> HIDE DEF G
  <2>10. /\ <<<<Fat, Marked(U)>>>> \o w3 \in Seq(Writes)
         /\ Course(v1, <<<<Fat, Marked(U)>>>> \o w3, G, F)
    BY <1>7, <2>5, <2>9, OpenPlaces, CourseCons DEF v2
  <2>11. /\ <<<<Dir, d1>>>> \o (<<<<Fat, Marked(U)>>>> \o w3) \in Seq(Writes)
         /\ Course(v, <<<<Dir, d1>>>> \o (<<<<Fat, Marked(U)>>>> \o w3), G, F)
    BY <1>p, <2>10
  <2>12. job.write = <<<<Dir, d1>>>> \o (<<<<Fat, Marked(U)>>>> \o w3)
    BY <1>6, <2>6, <2>8, <2>9, TwoMore
  <2> QED
    BY <2>8, <2>11, <2>12 DEF G, v
<1>9. CASE OldCluster(n) = {} /\ Data \ UsedOf(v) # {}
  <2>1. /\ Chosen(n) = Data \ UsedOf(v) /\ Chosen(n) # {}
        /\ Truncate(n) = <<<<Dir, d1>>>> \o <<>>
    BY <1>9, <1>t, Terms DEF Chosen, Truncate
  <2>2. PICK c \in Data \ UsedOf(v) :
            job = [write |-> Truncate(n) \o StoreText(n, text, c), hold |-> text]
    BY <2>1, Zenon DEF NewFile
  <2> DEFINE w3 == << <<c, text>>, <<Fat, Marked(UsedOf(v1) \union {c})>>,
                      <<Dir, EntryOf(v1, n, c)>> >>
  <2>3. StoreText(n, text, c) = w3
    <3>1. (Used \ OldCluster(n)) \union {c} = UsedOf(v1) \union {c}
      BY <1>3, <1>9, Terms
    <3> QED
      BY <1>5, <1>t, <3>1, Zenon DEF StoreText
  <2>4. w3 \in Seq(Writes) /\ Course(v1, w3, G, F)
    <3>1. c \in Data \ UsedOf(v1) 
      BY <1>3
    <3>2. \A u \in G : u[Mbr] # Blank /\ ReadOf(u, n) = text => u \in F
      BY <2>2
    <3> QED
      BY <1>3, <3>1, <3>2, StoreCourse
  <2> HIDE DEF w3
  <2>5. job.write = <<<<Dir, d1>>>> \o w3 /\ job.hold = text
    <3>1. (<<<<Dir, d1>>>> \o <<>>) \o w3 = <<<<Dir, d1>>>> \o w3
      BY <1>6, <2>4, OneMore
    <3> QED
      BY <2>1, <2>2, <2>3, <3>1
  <2> QED
    BY <1>p, <2>4, <2>5
<1>10. CASE OldCluster(n) = {} /\ Data \ UsedOf(v) = {}
  <2> DEFINE v2 == Put(v1, Dir, d1)
  <2>1. Chosen(n) = {} /\ Truncate(n) = <<<<Dir, d1>>>> \o <<>>
    BY <1>10, <1>t, Terms DEF Chosen, Truncate
  <2>2. job = [write |-> Truncate(n) \o <<Entry(n, Empty)>>, hold |-> Empty]
    BY <2>1, Zenon DEF NewFile
  <2>3. job.write = <<<<Dir, d1>>>> \o (<<<<Dir, d1>>>> \o <<>>) /\ job.hold = Empty
    <3>1. <<<<Dir, d1>>>> \in Seq(Writes) /\ <<<<Dir, d1>>>> \o <<>> = <<<<Dir, d1>>>>
      BY <1>6, OneMore
    <3> QED
      BY <1>t, <2>1, <2>2, <3>1
  <2>4. v2 \in G /\ v2[Mbr] # Blank /\ RootOf(v2) = d1
    BY <1>3, <1>5, DropEntry DEF d1
  <2> HIDE DEF v2
  <2>5. ReadOf(v2, n) = Empty
    BY <1>4, <2>4, Marks DEF ReadOf
  <2>6. v2 \in F
    BY <2>3, <2>4, <2>5
  <2> HIDE DEF G, v
  <2>7. Course(v2, <<>>, G, F) /\ <<>> \in Seq(Writes)
    BY <2>4, <2>6, CourseNil
  <2>8. /\ <<<<Dir, d1>>>> \o <<>> \in Seq(Writes)
        /\ Course(v1, <<<<Dir, d1>>>> \o <<>>, G, F)
    BY <1>3, <1>7, <2>7, OpenPlaces, CourseCons DEF v2
  <2>9. /\ <<<<Dir, d1>>>> \o (<<<<Dir, d1>>>> \o <<>>) \in Seq(Writes)
        /\ Course(v, <<<<Dir, d1>>>> \o (<<<<Dir, d1>>>> \o <<>>), G, F)
    BY <1>p, <2>8
  <2> QED
    BY <2>3, <2>9 DEF G, v
<1> QED
  BY <1>8, <1>9, <1>10

(* A volume without files is good unless it has a partition table and no *)
(* boot record.                                                          *)
LEMMA BareGood ==
    ASSUME NEW k, NEW fw, NEW u \in States, Typed(u), Bare(u, k),
           u[Mbr] = Blank \/ u[Vbr] # Blank
    PROVE  u \in GoodFor(k, FALSE, fw)
<1>1. \A n \in Names : k[n] = Absent /\ RootOf(u)[n] \notin Data
  BY Marks DEF Bare
<1>2. Separate(u) /\ Holds(u, k) /\ Formatted(u, k)
  BY <1>1 DEF Separate, Holds, Formatted
<1> QED
  BY <1>2 DEF GoodFor

(* f_mkfs *)
LEMMA FormatCourse ==
    ASSUME NEW k, NEW fw, NEW v \in GoodFor(k, FALSE, fw), v[Mbr] = Blank, NEW F,
           \A u \in GoodFor(k, FALSE, fw) : u[Mbr] # Blank => u \in F
    PROVE  FormatWrites \in Seq(Writes) /\ Course(v, FormatWrites, GoodFor(k, FALSE, fw), F)
<1> DEFINE G == GoodFor(k, FALSE, fw)
           d == [n \in Names |-> Absent]
           v1 == Put(v, Vbr, Record)
           v2 == Put(v1, Fat, Marked({}))
           v3 == Put(v2, Dir, d)
           v4 == Put(v3, Mbr, Record)
<1>1. /\ v \in States /\ Typed(v) /\ Bare(v, k)
      /\ Record \in Contents /\ Record # Blank
  BY Fits DEF GoodFor, Formatted
<1>2. d \in [Names -> Entries] /\ d \in Contents /\ d # Blank
  BY Fits DEF Entries
<1>3. Marked({}) \in [Data -> BOOLEAN] /\ Marked({}) \in Contents /\ {} \in SUBSET Data
  BY MarkedIs
<1>4. /\ v1 \in States /\ Typed(v1) /\ Bare(v1, k) /\ v1[Mbr] = Blank
      /\ v1[Vbr] = Record
  <2>1. v1 \in States /\ v1[Vbr] = Record /\ \A s \in Sectors \ {Vbr} : v1[s] = v[s]
    BY <1>1, Layout, PutIs
  <2> HIDE DEF v1
  <2>2. /\ v1[Mbr] = Blank /\ v1[Fat] = v[Fat] /\ v1[Dir] = v[Dir]
        /\ \A c \in Data : v1[c] = v[c]
    BY <2>1, Layout
  <2>3. Typed(v1)
    BY <1>1, <2>2 DEF Typed
  <2>4. Bare(v1, k)
    BY <1>1, <2>2 DEF Bare, RootOf
  <2> QED
    BY <2>1, <2>2, <2>3, <2>4
<1> HIDE DEF v1
<1>5. /\ v2 \in States /\ Typed(v2) /\ Bare(v2, k) /\ v2[Mbr] = Blank
      /\ v2[Vbr] = Record
  <2>1. /\ v2 \in States /\ Typed(v2) /\ RootOf(v2) = RootOf(v1)
        /\ \A s \in Sectors \ {Fat} : v2[s] = v1[s]
    BY <1>3, <1>4, WriteFat
  <2> QED
    BY <1>4, <2>1, Layout DEF Bare
<1> HIDE DEF v2, d
<1>6. /\ v3 \in States /\ Typed(v3) /\ Bare(v3, k) /\ v3[Mbr] = Blank
      /\ v3[Vbr] = Record
  <2>1. /\ v3 \in States /\ Typed(v3) /\ RootOf(v3) = d
        /\ \A s \in Sectors \ {Dir} : v3[s] = v2[s]
    BY <1>2, <1>5, WriteDir
  <2>2. \A n \in Names : d[n] = Absent
    BY DEF d
  <2> QED
    BY <1>5, <2>1, <2>2, Layout DEF Bare
<1> HIDE DEF v3
<1>7. /\ v4 \in States /\ Typed(v4) /\ Bare(v4, k) /\ v4[Mbr] # Blank
      /\ v4[Vbr] = Record
  <2>1. v4 \in States /\ v4[Mbr] = Record /\ \A s \in Sectors \ {Mbr} : v4[s] = v3[s]
    BY <1>1, <1>6, Layout, PutIs
  <2> HIDE DEF v4
  <2>2. /\ v4[Vbr] = Record /\ v4[Fat] = v3[Fat] /\ v4[Dir] = v3[Dir]
        /\ \A c \in Data : v4[c] = v3[c]
    BY <1>6, <2>1, Layout
  <2>3. Typed(v4)
    BY <1>6, <2>2 DEF Typed
  <2>4. Bare(v4, k)
    BY <1>6, <2>2 DEF Bare, RootOf
  <2> QED
    BY <1>1, <2>1, <2>2, <2>3, <2>4
<1> HIDE DEF v4
<1>8. v \in G /\ v1 \in G /\ v2 \in G /\ v3 \in G /\ v4 \in G
  BY <1>1, <1>4, <1>5, <1>6, <1>7, BareGood
<1>9. v4 \in F
  BY <1>7, <1>8
<1>a. /\ Vbr \in Places /\ Mbr \in Places /\ Fat \in Places /\ Dir \in Places
      /\ Allowed(v, Vbr) /\ Allowed(v1, Fat) /\ Allowed(v2, Dir) /\ Allowed(v3, Mbr)
  BY <1>4, <1>5, <1>6 DEF Places, Reserved, Allowed
<1> DEFINE b == <<Vbr, Record>>
           f == <<Fat, Marked({})>>
           r == <<Dir, d>>
           t == <<Mbr, Record>>
<1>b. b \in Writes /\ f \in Writes /\ r \in Writes /\ t \in Writes
  BY <1>1, <1>2, <1>3, <1>a DEF Writes
<1>c. FormatWrites = <<b, f, r, t>>
  BY Terms, Zenon DEF FormatWrites, d
<1> HIDE DEF G
<1>d. Course(v4, <<>>, G, F) /\ <<>> \in Seq(Writes)
  BY <1>8, <1>9, CourseNil
<1>e. <<t>> \o <<>> \in Seq(Writes) /\ Course(v3, <<t>> \o <<>>, G, F)
  BY <1>1, <1>8, <1>a, <1>d, CourseCons DEF v4
<1>f. <<r>> \o (<<t>> \o <<>>) \in Seq(Writes) /\ Course(v2, <<r>> \o (<<t>> \o <<>>), G, F)
  BY <1>2, <1>8, <1>a, <1>e, CourseCons DEF v3
<1>g. /\ <<f>> \o (<<r>> \o (<<t>> \o <<>>)) \in Seq(Writes)
      /\ Course(v1, <<f>> \o (<<r>> \o (<<t>> \o <<>>)), G, F)
  BY <1>3, <1>8, <1>a, <1>f, CourseCons DEF v2
<1>h. /\ <<b>> \o (<<f>> \o (<<r>> \o (<<t>> \o <<>>))) \in Seq(Writes)
      /\ Course(v, <<b>> \o (<<f>> \o (<<r>> \o (<<t>> \o <<>>))), G, F)
  BY <1>1, <1>8, <1>a, <1>g, CourseCons DEF v1
<1> HIDE DEF b, f, r, t
<1>i. <<b>> \o (<<f>> \o (<<r>> \o (<<t>> \o <<>>))) = <<b, f, r, t>>
  <2>1. <<t>> \o <<>> = <<t>>
    BY <1>b, <1>d, OneMore
  <2>2. <<r>> \o <<t>> = <<r, t>>
    BY <1>b, Two
  <2>3. <<f>> \o <<r, t>> = <<f, r, t>>
    BY <1>b, Three
  <2>4. <<b>> \o <<f, r, t>> = <<b, f, r, t>>
    BY <1>b, Four
  <2> QED
    BY <2>1, <2>2, <2>3, <2>4, Zenon
<1> QED
  BY <1>c, <1>h, <1>i DEF G

(* The host writes the cluster of a file. *)
LEMMA EditCourse ==
    ASSUME NEW k, NEW q \in BOOLEAN, NEW fw, NEW v \in GoodFor(k, q, fw), v[Mbr] # Blank,
           NEW n \in Names, k[n] = Absent, q => n # Version, NEW text \in Texts,
           RootOf(v)[n] \in Data, NEW F,
           \A u \in GoodFor(k, q, fw) : u[Mbr] # Blank /\ ReadOf(u, n) = text => u \in F
    PROVE  /\ << <<RootOf(v)[n], text>> >> \in Seq(Writes)
           /\ Course(v, << <<RootOf(v)[n], text>> >>, GoodFor(k, q, fw), F)
<1> DEFINE G == GoodFor(k, q, fw)
           c == RootOf(v)[n]
           v1 == Put(v, c, text)
<1>1. Typed(v) /\ Separate(v)
  BY DEF GoodFor
<1>2. \A m \in Names : RootOf(v)[m] = c => m = n
  BY <1>1, InUse
<1>3. /\ v1 \in G /\ v1[Mbr] # Blank /\ text \in Contents
      /\ RootOf(v1) = RootOf(v) /\ v1[c] = text
  BY <1>2, ChangeText
<1> HIDE DEF v1
<1>4. ReadOf(v1, n) = text
  BY <1>3 DEF ReadOf
<1>5. v1 \in F
  BY <1>3, <1>4
<1>6. v \in G /\ c \in {Fat, Dir} \union Data
  OBVIOUS
<1>7. <<c, text>> \in Writes
  BY <1>3, <1>6, OpenPlaces DEF Writes
<1> HIDE DEF G, c
<1>8. Course(v1, <<>>, G, F) /\ <<>> \in Seq(Writes)
  BY <1>3, <1>5, CourseNil
<1>9. <<<<c, text>>>> \o <<>> \in Seq(Writes) /\ Course(v, <<<<c, text>>>> \o <<>>, G, F)
  BY <1>3, <1>6, <1>8, OpenPlaces, CourseCons DEF v1
<1>10. <<<<c, text>>>> \o <<>> = <<<<c, text>>>>
  BY <1>7, <1>8, OneMore
<1> QED
  BY <1>9, <1>10 DEF G, c

(* The host removes an entry, and then frees its cluster. *)
LEMMA DeleteCourse ==
    ASSUME NEW k, NEW q \in BOOLEAN, NEW fw, NEW v \in GoodFor(k, q, fw), v[Mbr] # Blank,
           NEW n \in Names, k[n] = Absent, q => n # Version, NEW F,
           \A u \in GoodFor(k, q, fw) : u[Mbr] # Blank => u \in F
    PROVE  LET w == << <<Dir, EntryOf(v, n, Absent)>>,
                       <<Fat, Marked(UsedOf(v) \ ({RootOf(v)[n]} \ {Absent, Empty}))>> >>
           IN  w \in Seq(Writes) /\ Course(v, w, GoodFor(k, q, fw), F)
<1> DEFINE G == GoodFor(k, q, fw)
           d == EntryOf(v, n, Absent)
           v1 == Put(v, Dir, d)
           U == UsedOf(v) \ ({RootOf(v)[n]} \ {Absent, Empty})
           v2 == Put(v1, Fat, Marked(U))
<1>1. Typed(v) /\ Separate(v)
  BY DEF GoodFor
<1>2. UsedOf(v) \in SUBSET Data /\ Absent \in Entries
  BY <1>1, RootType DEF Entries
<1>3. /\ v1 \in G /\ v1[Mbr] # Blank /\ d \in Contents
      /\ RootOf(v1) = d /\ UsedOf(v1) = UsedOf(v)
  BY DropEntry
<1>4. d[n] = Absent /\ \A m \in Names \ {n} : d[m] = RootOf(v)[m]
  BY <1>1, <1>2, EntryIs
<1>5. <<Dir, d>> \in Writes
  BY <1>1, <1>2, DirWrite
<1> HIDE DEF d, v1
<1>6. \A m \in Names : RootOf(v1)[m] \in Data => RootOf(v1)[m] \in U
  <2> SUFFICES ASSUME NEW m \in Names, d[m] \in Data PROVE d[m] \in U
    BY <1>3
  <2>1. m # n /\ d[m] = RootOf(v)[m]
    BY <1>4, Marks
  <2>2. RootOf(v)[m] \in UsedOf(v) /\ RootOf(v)[m] # RootOf(v)[n]
    BY <1>1, <2>1, InUse
  <2> QED
    BY <2>1, <2>2
<1>7. U \in SUBSET Data
  BY <1>2
<1> HIDE DEF U
<1>8. v2 \in G /\ v2[Mbr] # Blank /\ Marked(U) \in Contents
  BY <1>3, <1>6, <1>7, ChangeTable
<1>9. <<Fat, Marked(U)>> \in Writes
  BY <1>7, FatWrite
<1> HIDE DEF v2
<1>a. v \in G /\ v2 \in F
  BY <1>8
<1> HIDE DEF G
<1>b. Course(v2, <<>>, G, F) /\ <<>> \in Seq(Writes)
  BY <1>8, <1>a, CourseNil
<1>c. /\ <<<<Fat, Marked(U)>>>> \o <<>> \in Seq(Writes)
      /\ Course(v1, <<<<Fat, Marked(U)>>>> \o <<>>, G, F)
  BY <1>3, <1>8, <1>b, OpenPlaces, CourseCons DEF v2
<1>d. /\ <<<<Dir, d>>>> \o (<<<<Fat, Marked(U)>>>> \o <<>>) \in Seq(Writes)
      /\ Course(v, <<<<Dir, d>>>> \o (<<<<Fat, Marked(U)>>>> \o <<>>), G, F)
  BY <1>3, <1>a, <1>c, OpenPlaces, CourseCons DEF v1
<1>e. <<<<Dir, d>>>> \o (<<<<Fat, Marked(U)>>>> \o <<>>) = << <<Dir, d>>, <<Fat, Marked(U)>> >>
  BY <1>5, <1>9, <1>b, OneMore, Two
<1> QED
  BY <1>d, <1>e DEF G, d, U

(* The host frees the cluster of an entry, and then removes the entry. *)
LEMMA FreeCourse ==
    ASSUME NEW k, NEW q \in BOOLEAN, NEW fw, NEW v \in GoodFor(k, q, fw), v[Mbr] # Blank,
           NEW n \in Names, k[n] = Absent, q => n # Version, NEW F,
           \A u \in GoodFor(k, q, fw) : u[Mbr] # Blank => u \in F
    PROVE  LET w == << <<Fat, Marked(UsedOf(v) \ ({RootOf(v)[n]} \ {Absent, Empty}))>>,
                       <<Dir, EntryOf(v, n, Absent)>> >>
           IN  w \in Seq(Writes) /\ Course(v, w, LooseFor(k, q, fw), F)
<1> DEFINE L == LooseFor(k, q, fw)
           d == EntryOf(v, n, Absent)
           U == UsedOf(v) \ ({RootOf(v)[n]} \ {Absent, Empty})
           v1 == Put(v, Fat, Marked(U))
           v2 == Put(v1, Dir, d)
<1>1. v \in States /\ Typed(v) /\ Separate(v) /\ v \in L
  BY DEF GoodFor, LooseFor
<1>2. UsedOf(v) \in SUBSET Data /\ Absent \in Entries /\ U \in SUBSET Data
  BY <1>1, RootType DEF Entries
<1>3. /\ d \in [Names -> Entries] /\ d \in Contents /\ d[n] = Absent
      /\ \A m \in Names \ {n} : d[m] = RootOf(v)[m]
  BY <1>1, <1>2, EntryIs
<1>4. <<Dir, d>> \in Writes
  BY <1>1, <1>2, DirWrite
<1>5. ASSUME NEW m \in Names, d[m] \in Data
      PROVE  d[m] \in U /\ \A l \in Names : d[l] = d[m] => l = m
  <2>1. m # n /\ d[m] = RootOf(v)[m]
    BY <1>3, <1>5, Marks
  <2>2. RootOf(v)[m] \in UsedOf(v) /\ RootOf(v)[m] # RootOf(v)[n]
    BY <1>1, <1>5, <2>1, InUse
  <2>3. ASSUME NEW l \in Names, d[l] = d[m] PROVE l = m
    <3>1. l # n
      BY <1>3, <1>5, <2>3, Marks
    <3> QED
      BY <1>1, <1>3, <1>5, <2>1, <2>3, <3>1, InUse
  <2> QED
    BY <2>1, <2>2, <2>3
<1> HIDE DEF d, U
<1>6. /\ v1 \in States /\ Typed(v1) /\ RootOf(v1) = RootOf(v) /\ UsedOf(v1) = U
      /\ \A s \in Sectors \ {Fat} : v1[s] = v[s]
  BY <1>1, <1>2, WriteFat
<1> HIDE DEF v1
<1>7. v1[Mbr] = v[Mbr] /\ v1[Vbr] = v[Vbr] /\ \A c \in Data : v1[c] = v[c]
  BY <1>6, Layout
<1>8. v1 \in L
  <2>1. \A m \in Names : ReadOf(v1, m) = ReadOf(v, m)
    BY <1>6, <1>7 DEF ReadOf
  <2>2. Version \in Names
    BY DEF Names
  <2>3. Holds(v1, k)
    BY <2>1 DEF GoodFor, Holds
  <2>4. q => Fresh(v1, fw)
    BY <2>1, <2>2 DEF GoodFor, Fresh
  <2>5. Formatted(v1, k)
    BY <1>7 DEF GoodFor, Formatted
  <2> QED
    BY <1>6, <1>7, <2>3, <2>4, <2>5 DEF LooseFor
<1>9. /\ v2 \in States /\ Typed(v2) /\ RootOf(v2) = d /\ UsedOf(v2) = U
      /\ \A s \in Sectors \ {Dir} : v2[s] = v1[s]
  BY <1>3, <1>6, WriteDir
<1> HIDE DEF v2
<1>10. v2[Mbr] = v[Mbr] /\ v2[Vbr] = v[Vbr] /\ \A c \in Data : v2[c] = v[c]
  BY <1>7, <1>9, Layout
<1>11. Separate(v2)
  BY <1>5, <1>9 DEF Separate
<1>12. \A m \in Names : k[m] # Absent \/ (q /\ m = Version) => ReadOf(v2, m) = ReadOf(v, m)
  BY <1>3, <1>9, <1>10 DEF ReadOf
<1>13. v2 \in GoodFor(k, q, fw) /\ v2[Mbr] # Blank
  BY <1>9, <1>10, <1>11, <1>12, GoodAfter
<1>14. v2 \in L /\ v2 \in F
  BY <1>13 DEF GoodFor, LooseFor
<1>15. <<Fat, Marked(U)>> \in Writes /\ Marked(U) \in Contents
  BY <1>2, FatWrite, MarkedIs
<1> HIDE DEF L
<1>b. Course(v2, <<>>, L, F) /\ <<>> \in Seq(Writes)
  BY <1>14, CourseNil
<1>c. <<<<Dir, d>>>> \o <<>> \in Seq(Writes) /\ Course(v1, <<<<Dir, d>>>> \o <<>>, L, F)
  BY <1>3, <1>8, <1>b, OpenPlaces, CourseCons DEF v2
<1>d. /\ <<<<Fat, Marked(U)>>>> \o (<<<<Dir, d>>>> \o <<>>) \in Seq(Writes)
      /\ Course(v, <<<<Fat, Marked(U)>>>> \o (<<<<Dir, d>>>> \o <<>>), L, F)
  BY <1>1, <1>15, <1>c, OpenPlaces, CourseCons DEF v1
<1>e. <<<<Fat, Marked(U)>>>> \o (<<<<Dir, d>>>> \o <<>>) = << <<Fat, Marked(U)>>, <<Dir, d>> >>
  BY <1>4, <1>15, <1>b, OneMore, Two
<1> QED
  BY <1>d, <1>e DEF L, d, U

-----------------------------------------------------------------------------
(* The inductive invariant. *)

Good ==
    IF host = "freeing"
    THEN LooseFor(kept, phase = "serving", firmware)
    ELSE GoodFor(kept, phase = "serving", firmware)

(* What holds when the last of the writes is done. *)
Done ==
    {v \in States :
        /\ Separate(v)
        /\ ~Idle /\ file.hold # Absent => ReadOf(v, file.name) = file.hold
        /\ phase \notin {"off", "mount"} => v[Mbr] # Blank
        /\ phase \in {"usb", "serving"} => Fresh(v, firmware)}

(* The volume with the sector that is being written. *)
Ahead == IF stage = "patched" THEN Put(Visible, lba, g_rmw[Within(lba)]) ELSE Visible

(* The partition table is not safely there yet. *)
Early == Visible[Mbr] = Blank \/ (stage = "erased" /\ lba = Mbr)

VolumeTypes ==
    /\ phase \in {"off", "mount", "config", "version", "usb", "serving"}
    /\ firmware \in Firmware
    /\ writes \in Seq(Writes)
    /\ file \in [name : Names, hold : Texts \union {Empty, Absent}]
    /\ kept \in [Names -> Texts \union {Empty, Absent}]
    /\ host \in {"none", "tidy", "freeing"} /\ torn \in BOOLEAN
    /\ runs \in Nat /\ hostOps \in Nat /\ cuts \in Nat /\ runs + hostOps + cuts <= MaxEvents

Rest == (phase \in {"off", "mount"} => Idle) /\ (Idle => host = "none")

Tables ==
    /\ stage # "idle" => lba \in Places /\ (lba \in {Mbr, Vbr} => Early)
    /\ Early => Bare(Visible, kept) /\ file.hold = Absent

OnCourse == Visible \in Good /\ Course(Ahead, writes, Good, Done)

VolumeInv == FlashTypeOK /\ BlockInRam /\ VolumeTypes /\ Rest /\ Tables /\ OnCourse

(* A good state is one for the files it keeps, free of cross links unless  *)
(* the host is freeing a cluster.                                          *)
LEMMA GoodIs ==
    /\ \A v \in Good : /\ v \in States /\ Typed(v) /\ Holds(v, kept) /\ Formatted(v, kept)
                       /\ phase = "serving" => Fresh(v, firmware) /\ v[Mbr] # Blank
    /\ host # "freeing" => Good = GoodFor(kept, phase = "serving", firmware)
BY DEF Good, GoodFor, LooseFor

(* The places are sectors of flash. *)
LEMMA PlacesFit == Places \subseteq Sectors /\ Places \subseteq 0 .. Size
BY Layout, VolumeAssumption DEF Places, Reserved, Sectors

(* Every step of the volume is one of the flash, or leaves it alone. *)
LEMMA VolumeOverFlash ==
    VolumeTypes /\ [Next]_vars => [FlashNext]_flashVars
<1> SUFFICES ASSUME VolumeTypes, [Next]_vars PROVE [FlashNext]_flashVars
  OBVIOUS
<1>1. CASE NextSector
  <2>1. Head(writes) \in Writes
    BY <1>1 DEF NextSector, VolumeTypes
  <2>2. Head(writes)[1] \in 0 .. Size /\ Head(writes)[2] \in Contents
    BY <2>1, PlacesFit DEF Writes
  <2> QED
    BY <1>1, <2>2 DEF NextSector, FlashNext
<1>2. CASE EraseSector \/ ProgramSector \/ PowerCut
  BY <1>2 DEF EraseSector, ProgramSector, PowerCut, FlashNext
<1>3. CASE Boots
  BY <1>3 DEF Boots, PowerOn, MountOrFormat, EnsureConfig, RefreshVersion, Serve, Keep, Begin
<1>4. CASE Changes
  BY <1>4 DEF Changes, FlushResults, HostEdits, HostDeletes, HostChanges, Begin
<1>5. CASE UNCHANGED vars
  BY <1>5 DEF vars
<1> QED
  BY <1>1, <1>2, <1>3, <1>4, <1>5 DEF Next

(* Every step of Volume is a step of FlashSectors. *)
LEMMA VolumeFlashStep ==
    FlashTypeOK /\ BlockInRam /\ VolumeTypes /\ [Next]_vars
        => FlashTypeOK' /\ BlockInRam' /\ [FlashNext]_flashVars
BY VolumeOverFlash, TypeStep, PatchStep

(* Nothing is being written: what holds now is good and done. *)
LEMMA AtRest ==
    ASSUME VolumeInv, Idle
    PROVE  /\ Visible \in Good /\ Visible \in Done /\ Visible = flash
           /\ Visible \in GoodFor(kept, phase = "serving", firmware) /\ host = "none"
<1>1. Ahead = Visible
  BY DEF Idle, Ahead
<1>2. Course(Visible, <<>>, Good, Done) /\ <<>> \in Seq(Writes)
  BY <1>1 DEF VolumeInv, OnCourse, Idle
<1>3. Visible \in Done
  BY <1>2, CourseHere
<1>4. Visible \in Good /\ host = "none"
  BY DEF VolumeInv, OnCourse, Rest
<1>5. Visible \in GoodFor(kept, phase = "serving", firmware)
  BY <1>4, GoodIs
<1> QED
  BY <1>3, <1>4, <1>5, SeenIdle DEF VolumeInv, Idle

(* No sector is being written, and no cluster freed: what holds now is     *)
(* good.                                                                   *)
LEMMA AtPause ==
    ASSUME VolumeInv, BetweenWrites, host # "freeing"
    PROVE  /\ stage = "idle" /\ Visible \in GoodFor(kept, phase = "serving", firmware)
           /\ phase = "serving" => Visible[Mbr] # Blank
<1>1. Visible \in Good
  BY DEF VolumeInv, OnCourse
<1>2. Visible \in GoodFor(kept, phase = "serving", firmware)
  BY <1>1, GoodIs
<1> QED
  BY <1>1, <1>2, GoodIs DEF BetweenWrites

(* A step that leaves the flash alone while no sector is being written. *)
LEMMA Settle ==
    ASSUME VolumeInv, stage = "idle", UNCHANGED flashVars, VolumeTypes', Rest',
           Visible[Mbr] = Blank => Bare(Visible, kept') /\ file'.hold = Absent,
           Visible \in Good', Course(Visible, writes', Good', Done')
    PROVE  VolumeInv'
<1>1. Visible' = Visible /\ stage' = stage /\ lba' = lba /\ stage = "idle"
  BY DEF flashVars, Visible, SameBlock, BlockOf, Within
<1>2. FlashTypeOK' /\ BlockInRam'
  BY TypeStep, PatchStep DEF VolumeInv
<1>3. Tables'
  BY <1>1 DEF Tables, Early
<1>4. Ahead' = Visible'
  BY <1>1 DEF Ahead
<1> QED
  BY <1>1, <1>2, <1>3, <1>4 DEF VolumeInv, OnCourse

(* The files that are kept may become fewer. *)
LEMMA DropKept ==
    ASSUME NEW k \in [Names -> Texts \union {Empty, Absent}], NEW q \in BOOLEAN, NEW fw,
           NEW v \in GoodFor(k, q, fw), NEW n
    PROVE  v \in GoodFor([k EXCEPT ![n] = Absent], q, fw)
<1> DEFINE l == [k EXCEPT ![n] = Absent]
<1>1. \A m \in Names : l[m] = k[m] \/ l[m] = Absent
  OBVIOUS
<1> HIDE DEF l
<1>2. Holds(v, l) /\ (Bare(v, k) => Bare(v, l))
  BY <1>1 DEF GoodFor, Holds, Bare
<1> QED
  BY <1>2 DEF GoodFor, Formatted, l

(* A job of main.cpp or of the host begins. *)
LEMMA BeginKeeps ==
    ASSUME VolumeInv, stage = "idle", Visible[Mbr] # Blank,
           phase' \in {"config", "version", "usb", "serving"}, firmware' = firmware,
           runs' \in Nat, hostOps' \in Nat, cuts' \in Nat, runs' + hostOps' + cuts' <= MaxEvents,
           host' \in {"none", "tidy", "freeing"}, torn' \in BOOLEAN,
           NEW n \in Names, NEW job, Begin(n, job), host' # "none" => job.write # <<>>,
           job.write \in Seq(Writes), job.hold \in Texts \union {Empty, Absent},
           Course(Visible, job.write, Good', Done')
    PROVE  VolumeInv'
<1>1. VolumeTypes'
  BY DEF VolumeTypes, VolumeInv, Begin
<1>2. Visible \in Good'
  BY CourseHere
<1>3. writes' = job.write /\ UNCHANGED flashVars
  BY DEF Begin
<1>4. Rest'
  BY <1>3 DEF Rest, Idle
<1> QED
  BY <1>1, <1>2, <1>3, <1>4, Settle

(* What a job aims at. *)
LEMMA Aim ==
    ASSUME NEW n \in Names, NEW job, Begin(n, job), phase' \notin {"off", "mount"},
           NEW u \in GoodFor(kept', phase' = "serving", firmware'), u[Mbr] # Blank,
           job.hold # Absent => ReadOf(u, n) = job.hold,
           phase' = "usb" => Fresh(u, firmware')
    PROVE  u \in Done'
<1>1. u \in States /\ Separate(u) /\ (phase' = "serving" => Fresh(u, firmware'))
  BY DEF GoodFor
<1>2. file' = [name |-> n, hold |-> job.hold]
  BY DEF Begin
<1>3. file'.hold # Absent => ReadOf(u, file'.name) = file'.hold
  BY <1>2
<1> QED
  BY <1>1, <1>3 DEF Done

(* Giving up a name makes no state worse. *)
LEMMA GoodDropped ==
    ASSUME VolumeInv, Visible \in GoodFor(kept, phase = "serving", firmware),
           NEW n \in Names, kept' = [kept EXCEPT ![n] = Absent],
           firmware' = firmware, phase' = "serving" => phase = "serving"
    PROVE  /\ Visible \in GoodFor(kept', phase' = "serving", firmware)
           /\ host' # "freeing" => Good' = GoodFor(kept', phase' = "serving", firmware)
           /\ kept'[n] = Absent /\ (phase' = "serving") \in BOOLEAN
<1>1. Visible \in GoodFor(kept, phase' = "serving", firmware)
  BY DEF GoodFor
<1>2. (phase' = "serving") \in BOOLEAN /\ kept \in [Names -> Texts \union {Empty, Absent}]
  BY DEF VolumeInv, VolumeTypes
<1> QED
  BY <1>1, <1>2, DropKept DEF Good

(* Beginning a new file keeps the invariant: its writes, in their order, *)
(* leave every other file as it is.                                      *)
LEMMA NewFileKeeps ==
    ASSUME VolumeInv, stage = "idle", Visible[Mbr] # Blank,
           Visible \in GoodFor(kept, phase = "serving", firmware),
           host' = "none", torn' \in BOOLEAN,
           phase' \in {"config", "version", "usb", "serving"}, firmware' = firmware,
           runs' \in Nat, hostOps' \in Nat, cuts' \in Nat, runs' + hostOps' + cuts' <= MaxEvents,
           phase' = "serving" => phase = "serving",
           NEW n \in Names, NEW text \in Texts, NEW job \in NewFile(n, text), Begin(n, job),
           phase' = "serving" => n # Version,
           phase' = "usb" => n = Version /\ text = firmware
    PROVE  VolumeInv'
<1> DEFINE k == kept'
           q == phase' = "serving"
           F == Done'
           G == GoodFor(k, q, firmware)
<1>1. /\ Visible \in G /\ Good' = G /\ k[n] = Absent /\ q \in BOOLEAN
  BY GoodDropped DEF Begin
<1>2. Visible[Mbr] # Blank
  OBVIOUS
<1>3. job.hold \in {text, Empty}
  <2>1. CASE Chosen(n) = {}
    BY <2>1 DEF NewFile
  <2>2. CASE Chosen(n) # {}
    <3>1. PICK c \in Chosen(n) :
            job = [write |-> Truncate(n) \o StoreText(n, text, c), hold |-> text]
      BY <2>2, Zenon DEF NewFile
    <3> QED
      BY <3>1
  <2> QED
    BY <2>1, <2>2
<1>4. \A u \in G : u[Mbr] # Blank /\ ReadOf(u, n) = job.hold => u \in F
  <2> SUFFICES ASSUME NEW u \in G, u[Mbr] # Blank, ReadOf(u, n) = job.hold PROVE u \in F
    OBVIOUS
  <2>1. phase' = "usb" => Fresh(u, firmware')
    BY <1>3 DEF Fresh
  <2>2. u \in GoodFor(kept', phase' = "serving", firmware')
    OBVIOUS
  <2> HIDE DEF F, G
  <2> QED
    BY <2>1, <2>2, Aim DEF F
<1> HIDE DEF F, G, k, q
<1>5. job.write \in Seq(Writes) /\ Course(Visible, job.write, G, F)
  BY <1>1, <1>2, <1>4, NewFileCourse DEF q, G
<1> QED
  BY <1>1, <1>3, <1>5, BeginKeeps DEF F

(* What the boot begins keeps the invariant. *)
LEMMA BootSteps == ASSUME VolumeInv, Boots PROVE VolumeInv'
<1>t. /\ VolumeTypes /\ Rest /\ Tables /\ Visible \in Good
      /\ Config \in Names /\ Version \in Names /\ Default \in Texts /\ firmware \in Texts
  BY DEF VolumeInv, OnCourse, Names, Texts, VolumeTypes
<1>g. Idle => /\ Visible \in GoodFor(kept, phase = "serving", firmware) /\ host = "none"
              /\ Visible \in Done /\ Visible \in States /\ Separate(Visible) /\ stage = "idle"
  BY AtRest DEF GoodFor, Idle
<1>i. ASSUME Idle, Keep, phase # "off" /\ phase # "mount" => phase' \notin {"off", "mount"},
             VolumeTypes', Visible \in Good', Visible \in Done'
      PROVE  VolumeInv'
  <2>1. Course(Visible, writes', Good', Done') /\ UNCHANGED flashVars /\ Idle'
    BY <1>i, CourseNil DEF Idle, Keep, flashVars
  <2>2. Visible[Mbr] = Blank => Bare(Visible, kept') /\ file'.hold = Absent
    BY <1>t, <1>i DEF Tables, Early, Keep
  <2>3. Rest' /\ stage = "idle"
    BY <1>g, <1>i, <2>1 DEF Rest, Keep, Idle
  <2> QED
    BY <1>i, <2>1, <2>2, <2>3, Settle
<1>1. CASE PowerOn
  <2>1. Idle /\ Idle' /\ Keep /\ phase' = "mount" /\ phase = "off"
    BY <1>1, <1>t DEF PowerOn, Rest, Idle, Keep, flashVars
  <2>2. VolumeTypes'
    BY <1>1, <1>t DEF PowerOn, VolumeTypes, Keep
  <2>3. Visible \in Good'
    BY <1>g, <2>1 DEF Good, GoodFor, Keep
  <2>4. Visible \in Done'
    BY <1>g, <2>1 DEF Done
  <2> QED
    BY <1>i, <2>1, <2>2, <2>3, <2>4
<1>2. CASE MountOrFormat /\ fs_mount
  <2>1. Idle /\ Idle' /\ Keep /\ phase' = "config" /\ phase = "mount"
    BY <1>2, <1>t DEF MountOrFormat, Rest, Idle, Keep, flashVars
  <2>2. VolumeTypes'
    BY <1>2, <1>t, <2>1 DEF MountOrFormat, VolumeTypes, Keep
  <2>3. Visible \in Good'
    BY <1>2, <1>g, <2>1 DEF Good, GoodFor, Keep, MountOrFormat
  <2>4. Visible[Mbr] # Blank
    BY <1>2, <2>1, AtRest DEF fs_mount
  <2>5. Visible \in Done'
    BY <1>g, <2>1, <2>4 DEF Done
  <2> QED
    BY <1>i, <2>1, <2>2, <2>3, <2>5
<1>3. CASE MountOrFormat /\ ~fs_mount
  <2>1. /\ Idle /\ phase' = "config" /\ phase = "mount" /\ writes' = FormatWrites
        /\ UNCHANGED <<firmware, runs, hostOps, cuts, file, kept, host, torn>>
        /\ UNCHANGED flashVars
    BY <1>3, <1>t DEF MountOrFormat, Rest
  <2>2. Visible = flash /\ Visible[Mbr] = Blank /\ file.hold = Absent /\ Bare(Visible, kept)
    <3>1. Visible = flash
      BY <2>1, AtRest
    <3>2. Visible[Mbr] = Blank
      BY <1>3, <1>g, <2>1, <3>1 DEF fs_mount, GoodFor, Formatted
    <3> QED
      BY <1>t, <3>1, <3>2 DEF Tables, Early
  <2>3. Good' = GoodFor(kept, FALSE, firmware) /\ Visible \in GoodFor(kept, FALSE, firmware)
    BY <1>g, <2>1 DEF Good, GoodFor
  <2>4. \A u \in GoodFor(kept, FALSE, firmware) : u[Mbr] # Blank => u \in Done'
    BY <2>1, <2>2 DEF Done, GoodFor
  <2> DEFINE F == Done'
  <2> HIDE DEF F
  <2>5. /\ FormatWrites \in Seq(Writes)
        /\ Course(Visible, FormatWrites, GoodFor(kept, FALSE, firmware), F)
    BY <2>2, <2>3, <2>4, FormatCourse DEF F
  <2>6. VolumeTypes' /\ Rest' /\ stage = "idle"
    BY <1>t, <1>g, <2>1, <2>5 DEF VolumeTypes, Rest
  <2> QED
    BY <2>1, <2>2, <2>3, <2>5, <2>6, Settle DEF F
<1>4. CASE EnsureConfig
  <2>1. /\ Idle /\ phase = "config"
        /\ phase' = "version" /\ UNCHANGED <<firmware, runs, hostOps, cuts>>
    BY <1>4 DEF EnsureConfig
  <2>2. Visible \in Done
    BY <2>1, AtRest
  <2>3. CASE fs_exists(Config)
    <3>1. Keep
      BY <1>4, <2>3 DEF EnsureConfig
    <3>2. VolumeTypes' /\ Idle'
      BY <1>t, <2>1, <3>1 DEF VolumeTypes, Keep, Idle, flashVars
    <3>3. Visible \in Good' /\ Visible \in Done'
      BY <1>g, <2>1, <2>2, <3>1, <3>2 DEF Good, GoodFor, Done, Keep
    <3> QED
      BY <1>i, <2>1, <3>1, <3>2, <3>3
  <2>4. CASE ~fs_exists(Config)
    <3>1. PICK job \in NewFile(Config, Default) : Begin(Config, job) /\ UNCHANGED <<host, torn>>
      BY <1>4, <2>4 DEF EnsureConfig
    <3>2. /\ runs' \in Nat /\ hostOps' \in Nat
          /\ cuts' \in Nat /\ runs' + hostOps' + cuts' <= MaxEvents
      BY <1>t, <2>1 DEF VolumeTypes
    <3>3. Visible[Mbr] # Blank /\ host' = "none" /\ torn' \in BOOLEAN
      BY <1>t, <1>g, <2>1, <3>1 DEF Done, VolumeTypes
    <3> QED
      BY <1>t, <1>g, <2>1, <3>1, <3>2, <3>3, NewFileKeeps
  <2> QED
    BY <2>3, <2>4
<1>5. CASE RefreshVersion
  <2>1. Idle /\ phase = "version" /\ phase' = "usb" /\ UNCHANGED <<firmware, runs, hostOps, cuts>>
    BY <1>5 DEF RefreshVersion
  <2>2. Visible \in Done
    BY <2>1, AtRest
  <2>3. CASE VersionUpToDate
    <3>1. Keep
      BY <1>5, <2>3 DEF RefreshVersion
    <3>2. VolumeTypes' /\ Idle'
      BY <1>t, <2>1, <3>1 DEF VolumeTypes, Keep, Idle, flashVars
    <3>3. Fresh(Visible, firmware)
      BY <2>3, Terms DEF VersionUpToDate, Fresh
    <3>4. Visible \in Good' /\ Visible \in Done'
      BY <1>g, <2>1, <2>2, <3>1, <3>2, <3>3 DEF Good, GoodFor, Done, Keep
    <3> QED
      BY <1>i, <2>1, <3>1, <3>2, <3>4
  <2>4. CASE ~VersionUpToDate
    <3>1. PICK job \in NewFile(Version, firmware) : Begin(Version, job) /\ UNCHANGED <<host, torn>>
      BY <1>5, <2>4 DEF RefreshVersion
    <3>2. /\ runs' \in Nat /\ hostOps' \in Nat
          /\ cuts' \in Nat /\ runs' + hostOps' + cuts' <= MaxEvents
      BY <1>t, <2>1 DEF VolumeTypes
    <3>3. Visible[Mbr] # Blank /\ host' = "none" /\ torn' \in BOOLEAN
      BY <1>t, <1>g, <2>1, <3>1 DEF Done, VolumeTypes
    <3> QED
      BY <1>t, <1>g, <2>1, <3>1, <3>2, <3>3, NewFileKeeps
  <2> QED
    BY <2>3, <2>4
<1>6. CASE Serve
  <2>1. /\ Idle /\ phase = "usb" /\ phase' = "serving" /\ Keep
        /\ UNCHANGED <<firmware, runs, hostOps, cuts>>
    BY <1>6 DEF Serve
  <2>2. Visible \in Done
    BY <2>1, AtRest
  <2>3. VolumeTypes' /\ Idle'
    BY <1>t, <2>1 DEF VolumeTypes, Keep, Idle, flashVars
  <2>4. Fresh(Visible, firmware)
    BY <2>1, <2>2 DEF Done
  <2>5. Visible \in Good' /\ Visible \in Done'
    BY <1>g, <2>1, <2>2, <2>3, <2>4 DEF Good, GoodFor, Done, Keep
  <2> QED
    BY <1>i, <2>1, <2>3, <2>5
<1> QED
  BY <1>1, <1>2, <1>3, <1>4, <1>5, <1>6 DEF Boots

(* The first free number, and the last one if none is free. *)
LEMMA LowestIs ==
    ASSUME NEW S \in SUBSET Nat
    PROVE  /\ S = {} => LowestOf(S) = LastName
           /\ S # {} => LowestOf(S) \in S /\ \A j \in S : LowestOf(S) <= j
<1>1. CASE S = {}
  BY <1>1 DEF LowestOf
<1>2. CASE S # {}
  <2>1. PICK x \in S : \A j \in S : ~(<<j, x>> \in OpToRel(<, Nat))
    BY <1>2, NatLessThanWellFounded, WFMin
  <2>2. ASSUME NEW j \in S PROVE ~(j < x)
    <3>1. /\ <<j, x>> \in Nat \X Nat /\ <<j, x>>[1] = j /\ <<j, x>>[2] = x
          /\ ~(<<j, x>> \in OpToRel(<, Nat))
      BY <2>1, Zenon
    <3> QED
      BY <3>1, Zenon DEF OpToRel
  <2>3. x \in S /\ \A j \in S : x <= j
    BY <2>2
  <2> QED
    BY <1>2, <2>3 DEF LowestOf
<1> QED
  BY <1>1, <1>2

(* The name for the next results. *)
LEMMA NextName ==
    /\ fs_next_free_name \in Results
    /\ NameLeft => ~fs_exists(fs_next_free_name)
<1> DEFINE S == {k \in Results : ~fs_exists(k)}
<1>1. S \in SUBSET Nat /\ S \subseteq Results /\ LastName \in Results
  BY VolumeAssumption DEF Results
<1>2. fs_next_free_name = LowestOf(S)
  BY DEF fs_next_free_name
<1>3. NameLeft => S # {}
  BY DEF NameLeft
<1>4. \A k \in S : ~fs_exists(k)
  OBVIOUS
<1> HIDE DEF S
<1>5. CASE S = {}
  BY <1>1, <1>2, <1>3, <1>5, LowestIs
<1>6. CASE S # {}
  BY <1>1, <1>2, <1>4, <1>6, LowestIs
<1> QED
  BY <1>5, <1>6

(* What a flush or the host begins keeps it, unless the flush cuts off a   *)
(* host that frees a cluster.                                              *)
LEMMA ChangeSteps == ASSUME VolumeInv, Changes, ~torn' PROVE VolumeInv'
<1>t. /\ VolumeTypes /\ Config \in Names /\ Results \subseteq Names
      /\ Config # Version /\ Version \notin Results
      /\ runs \in Nat /\ hostOps \in Nat /\ cuts \in Nat
      /\ MaxEvents \in Nat
  BY NamesAssumption, VolumeAssumption DEF VolumeInv, Names, VolumeTypes
<1>q. phase = "serving" /\ phase' = "serving" /\ MoreToCome /\ firmware' = firmware
  BY DEF Changes, FlushResults, HostEdits, HostDeletes, HostChanges
<1>1. CASE FlushResults
  <2> DEFINE n == fs_next_free_name
             text == Measured[runs + 1]
  <2>1. PICK job \in NewFile(n, text) : Begin(n, job)
    BY <1>1 DEF FlushResults
  <2>2. n \in Names /\ n # Version
    BY <1>t, NextName
  <2>3. text \in Texts
    <3>1. runs + 1 \in 1 .. MaxEvents
      BY <1>t, <1>q DEF MoreToCome
    <3> QED
      BY <3>1 DEF Texts
  <2>4. /\ runs' \in Nat /\ hostOps' \in Nat
        /\ cuts' \in Nat /\ runs' + hostOps' + cuts' <= MaxEvents
    BY <1>1, <1>t, <1>q DEF FlushResults, MoreToCome
  <2>5. BetweenWrites /\ CutOff
    BY <1>1 DEF FlushResults
  <2>6. host # "freeing" /\ host' = "none" /\ torn' \in BOOLEAN
    BY <2>5 DEF CutOff
  <2>7. /\ stage = "idle" /\ Visible \in GoodFor(kept, phase = "serving", firmware)
        /\ Visible[Mbr] # Blank
    BY <1>q, <2>5, <2>6, AtPause
  <2> HIDE DEF n, text
  <2> QED
    BY <1>q, <2>1, <2>2, <2>3, <2>4, <2>6, <2>7, NewFileKeeps
<1>h. ASSUME NEW n, NEW job, NEW kind, HostChanges(n, job, kind)
      PROVE  /\ runs' \in Nat /\ hostOps' \in Nat
             /\ cuts' \in Nat /\ runs' + hostOps' + cuts' <= MaxEvents
             /\ host' = kind /\ torn' \in BOOLEAN /\ Begin(n, job) /\ stage = "idle"
             /\ Visible \in GoodFor(kept, phase = "serving", firmware) /\ Visible[Mbr] # Blank
  <2>1. Idle
    BY <1>h DEF HostChanges
  <2>2. Visible \in GoodFor(kept, phase = "serving", firmware) /\ Visible[Mbr] # Blank
    BY <1>q, <2>1, AtRest DEF Done
  <2>3. /\ runs' \in Nat /\ hostOps' \in Nat
        /\ cuts' \in Nat /\ runs' + hostOps' + cuts' <= MaxEvents
    BY <1>h, <1>t, <1>q DEF HostChanges, MoreToCome
  <2> QED
    BY <1>h, <1>t, <2>1, <2>2, <2>3 DEF HostChanges, VolumeTypes, Idle
<1>2. CASE HostEdits
  <2>1. PICK text \in Edits :
            HostChanges(Config, [write |-> << <<Root[Config], text>> >>, hold |-> text], "tidy")
    BY <1>2 DEF HostEdits
  <2> DEFINE job == [write |-> << <<Root[Config], text>> >>, hold |-> text]
             F == Done'
             G == GoodFor(kept', phase' = "serving", firmware)
             w == << <<RootOf(Visible)[Config], text>> >>
  <2>2. text \in Texts /\ RootOf(Visible)[Config] \in Data
    BY <1>2, Terms DEF Texts, HostEdits
  <2>3. HostChanges(Config, job, "tidy")
    BY <2>1
  <2>5. job.write = w /\ job.hold = text
    BY Terms
  <2> HIDE DEF job
  <2>h. /\ runs' \in Nat /\ hostOps' \in Nat
        /\ cuts' \in Nat /\ runs' + hostOps' + cuts' <= MaxEvents
        /\ host' = "tidy" /\ torn' \in BOOLEAN /\ Begin(Config, job) /\ stage = "idle"
        /\ Visible \in GoodFor(kept, phase = "serving", firmware) /\ Visible[Mbr] # Blank
    BY <1>h, <2>3
  <2>4. Visible \in G /\ Good' = G /\ kept'[Config] = Absent /\ (phase' = "serving") \in BOOLEAN
    BY <1>t, <1>q, <2>h, GoodDropped DEF Begin
  <2>6. \A u \in G : u[Mbr] # Blank /\ ReadOf(u, Config) = text => u \in F
    BY <1>t, <1>q, <2>h, <2>5, Aim
  <2> HIDE DEF F, G
  <2>7. w \in Seq(Writes) /\ Course(Visible, w, G, F) /\ w # <<>>
    BY <1>t, <2>2, <2>4, <2>6, <2>h, EditCourse DEF G
  <2> HIDE DEF w
  <2> QED
    BY <1>t, <1>q, <2>2, <2>4, <2>5, <2>7, <2>h, BeginKeeps DEF F
<1>3. CASE HostDeletes
  <2>1. PICK n \in Results :
            \/ HostChanges(n, [write |-> <<Unlink(n), FreeCluster(n)>>, hold |-> Absent], "tidy")
            \/ HostChanges(n, [write |-> <<FreeCluster(n), Unlink(n)>>, hold |-> Absent], "freeing")
    BY <1>3 DEF HostDeletes
  <2> DEFINE F == Done'
             G == GoodFor(kept', phase' = "serving", firmware)
             d == <<Dir, EntryOf(Visible, n, Absent)>>
             f == <<Fat, Marked(UsedOf(Visible) \ ({RootOf(Visible)[n]} \ {Absent, Empty}))>>
  <2>2. n \in Names /\ n # Version
    BY <1>t
  <2>3. Unlink(n) = d /\ FreeCluster(n) = f
    BY Terms, Zenon DEF OldCluster, Unlink, FreeCluster
  <2>f. ASSUME NEW job, Begin(n, job), job.hold = Absent, NEW u \in G, u[Mbr] # Blank
        PROVE  u \in F
    BY <1>q, <2>2, <2>f, Aim
  <2>4. CASE HostChanges(n, [write |-> <<Unlink(n), FreeCluster(n)>>, hold |-> Absent], "tidy")
    <3> DEFINE job == [write |-> <<Unlink(n), FreeCluster(n)>>, hold |-> Absent]
               w == <<d, f>>
    <3>1. job.write = w /\ job.hold = Absent
      BY <2>3
    <3>2. HostChanges(n, job, "tidy")
      BY <2>4
    <3> HIDE DEF job
    <3>h. /\ runs' \in Nat /\ hostOps' \in Nat
          /\ cuts' \in Nat /\ runs' + hostOps' + cuts' <= MaxEvents
          /\ host' = "tidy" /\ torn' \in BOOLEAN /\ Begin(n, job) /\ stage = "idle"
          /\ Visible \in GoodFor(kept, phase = "serving", firmware) /\ Visible[Mbr] # Blank
      BY <1>h, <3>2
    <3>3. Visible \in G /\ Good' = G /\ kept'[n] = Absent /\ (phase' = "serving") \in BOOLEAN
      BY <1>q, <2>2, <3>h, GoodDropped DEF Begin
    <3>4. \A u \in G : u[Mbr] # Blank => u \in F
      BY <2>f, <3>1, <3>h
    <3> HIDE DEF F, G
    <3>5. w \in Seq(Writes) /\ Course(Visible, w, G, F) /\ w # <<>>
      BY <2>2, <3>3, <3>4, <3>h, DeleteCourse DEF G
    <3> HIDE DEF w
    <3> QED
      BY <1>q, <2>2, <3>1, <3>3, <3>5, <3>h, BeginKeeps DEF F
  <2>5. CASE HostChanges(n, [write |-> <<FreeCluster(n), Unlink(n)>>, hold |-> Absent], "freeing")
    <3> DEFINE job == [write |-> <<FreeCluster(n), Unlink(n)>>, hold |-> Absent]
               w == <<f, d>>
               L == LooseFor(kept', phase' = "serving", firmware)
    <3>1. job.write = w /\ job.hold = Absent
      BY <2>3
    <3>2. HostChanges(n, job, "freeing")
      BY <2>5
    <3> HIDE DEF job
    <3>h. /\ runs' \in Nat /\ hostOps' \in Nat
          /\ cuts' \in Nat /\ runs' + hostOps' + cuts' <= MaxEvents
          /\ host' = "freeing" /\ torn' \in BOOLEAN /\ Begin(n, job) /\ stage = "idle"
          /\ Visible \in GoodFor(kept, phase = "serving", firmware) /\ Visible[Mbr] # Blank
      BY <1>h, <3>2
    <3>3. Visible \in G /\ kept'[n] = Absent /\ (phase' = "serving") \in BOOLEAN
      BY <1>q, <2>2, <3>h, GoodDropped DEF Begin
    <3>l. Good' = L
      BY <1>q, <3>h DEF Good
    <3>4. \A u \in G : u[Mbr] # Blank => u \in F
      BY <2>f, <3>1, <3>h
    <3> HIDE DEF F, G, L
    <3>5. w \in Seq(Writes) /\ Course(Visible, w, L, F) /\ w # <<>>
      BY <2>2, <3>3, <3>4, <3>h, FreeCourse DEF G, L
    <3> HIDE DEF w
    <3> QED
      BY <1>q, <2>2, <3>1, <3>3, <3>l, <3>5, <3>h, BeginKeeps DEF F
  <2> QED
    BY <2>1, <2>4, <2>5
<1> QED
  BY <1>1, <1>2, <1>3 DEF Changes

(* disk_write hands the next sector over. *)
LEMMA NextSectorStep == ASSUME VolumeInv, NextSector PROVE VolumeInv'
<1> DEFINE s == Head(writes)[1]
           x == Head(writes)[2]
<1>1. /\ FlashTypeOK' /\ BlockInRam' /\ VolumeTypes /\ Rest /\ Tables
      /\ Visible \in Good /\ Course(Ahead, writes, Good, Done) /\ FlashTypeOK
  BY VolumeFlashStep DEF VolumeInv, OnCourse, Next
<1>2. stage = "idle" /\ writes # <<>> /\ writes \in Seq(Writes) /\ Ahead = Visible
  BY <1>1 DEF NextSector, Patch, VolumeTypes, Ahead
<1>3. /\ Head(writes) \in Writes /\ Tail(writes) \in Seq(Writes) /\ Allowed(Visible, s)
      /\ Course(Put(Visible, s, x), Tail(writes), Good, Done)
  BY <1>1, <1>2, CourseStep, Zenon
<1>4. s \in Places /\ s \in Sectors
  BY <1>3, PlacesFit DEF Writes
<1>5. /\ stage' = "patched" /\ lba' = s /\ writes' = Tail(writes) /\ flash' = flash
      /\ g_rmw' = [LoadBlock(s) EXCEPT ![Within(s)] = x]
      /\ UNCHANGED <<phase, firmware, file, runs, hostOps, cuts, kept, host, torn>>
  BY DEF NextSector, Patch
<1> HIDE DEF s, x
<1>6. Within(s) \in 0 .. K - 1 /\ LoadBlock(s) \in [0 .. K - 1 -> Cells]
  BY <1>1, <1>4, Place, Loaded DEF Sectors
<1>7. g_rmw'[Within(s)] = x
  BY <1>5, <1>6
<1>8. Visible' = Visible
  <2>1. Visible' = flash'
    BY <1>1, <1>5, SeenIdle DEF Visible, FlashTypeOK
  <2> QED
    BY <1>1, <1>2, <1>5, <2>1, SeenIdle
<1>9. Ahead' = Put(Visible, s, x)
  <2>1. Within(lba)' = Within(s)
    BY <1>5 DEF Within
  <2> QED
    BY <1>5, <1>7, <1>8, <2>1 DEF Ahead
<1>10. Good' = Good /\ Done' = Done
  <2>1. ~Idle /\ ~Idle'
    BY <1>2, <1>5 DEF Idle
  <2> QED
    BY <1>5, <2>1 DEF Good, Done
<1>11. Early' = Early /\ (s \in {Mbr, Vbr} => Early)
  BY <1>2, <1>3, <1>5, <1>8 DEF Early, Allowed
<1>12. VolumeTypes' /\ Rest'
  BY <1>1, <1>2, <1>3, <1>5 DEF VolumeTypes, Rest, Idle
<1>13. Tables'
  BY <1>1, <1>4, <1>5, <1>8, <1>11 DEF Tables
<1>14. OnCourse'
  BY <1>1, <1>3, <1>5, <1>8, <1>9, <1>10 DEF OnCourse
<1> QED
  BY <1>1, <1>12, <1>13, <1>14 DEF VolumeInv

(* An erase goes one write along the course. *)
LEMMA EraseSectorStep == ASSUME VolumeInv, EraseSector PROVE VolumeInv'
<1>1. /\ FlashTypeOK' /\ BlockInRam' /\ VolumeTypes /\ Rest /\ Tables
      /\ Visible \in Good /\ Course(Ahead, writes, Good, Done)
      /\ FlashTypeOK /\ BlockInRam
  BY VolumeFlashStep DEF VolumeInv, OnCourse, Next
<1>2. /\ stage = "patched" /\ stage' = "erased" /\ lba' = lba /\ Erase
      /\ UNCHANGED volumeVars /\ writes \in Seq(Writes) /\ lba \in Places
  BY <1>1 DEF EraseSector, Erase, VolumeTypes, Tables
<1>3. UNCHANGED <<phase, firmware, writes, file, runs, hostOps, cuts, kept, host, torn>>
  BY <1>2 DEF volumeVars
<1>4. /\ Visible' = Put(Visible, lba, g_rmw[Within(lba)]) /\ lba \in Sectors
      /\ g_rmw[Within(lba)] \in Contents
  BY <1>1, <1>2, EraseShows DEF Put
<1>5. Ahead = Visible' /\ Ahead' = Visible'
  BY <1>2, <1>4 DEF Ahead
<1>6. Good' = Good /\ Done' = Done
  <2>1. ~Idle /\ ~Idle'
    BY <1>2 DEF Idle
  <2> QED
    BY <1>3, <2>1 DEF Good, Done
<1>7. Visible' \in Good /\ Course(Visible', writes, Good, Done)
  BY <1>1, <1>2, <1>5, CourseHere
<1>8. OnCourse'
  BY <1>3, <1>5, <1>6, <1>7 DEF OnCourse
<1>9. VolumeTypes' /\ Rest'
  BY <1>1, <1>2, <1>3 DEF VolumeTypes, Rest, Idle
<1>10. \A t \in Sectors \ {lba} : Visible'[t] = Visible[t]
  BY <1>1, <1>4, PutIs, GoodIs
<1>11. lba = Vbr => Visible'[Mbr] = Blank
  BY <1>1, <1>2, <1>10, Layout DEF Tables, Early
<1>12. Early' => Bare(Visible', kept) /\ file.hold = Absent
  <2>1. CASE lba = Mbr
    <3>1. Bare(Visible, kept) /\ file.hold = Absent
      BY <1>1, <1>2, <2>1 DEF Tables
    <3>2. Visible'[Dir] = Visible[Dir]
      BY <1>10, <2>1, Layout
    <3> QED
      BY <3>1, <3>2 DEF Bare, RootOf
  <2>2. CASE lba # Mbr
    <3> SUFFICES ASSUME Early' PROVE Bare(Visible', kept) /\ file.hold = Absent
      OBVIOUS
    <3>1. Visible'[Mbr] = Blank /\ Visible[Mbr] = Blank
      BY <1>2, <1>10, <2>2, Layout DEF Early
    <3>2. file.hold = Absent
      BY <1>1, <3>1 DEF Tables, Early
    <3> QED
      BY <1>7, <3>1, <3>2, GoodIs DEF Formatted
  <2> QED
    BY <2>1, <2>2
<1>13. Tables'
  <2>1. lba \in {Mbr, Vbr} => Early'
    BY <1>2, <1>11 DEF Early
  <2> QED
    BY <1>2, <1>3, <1>12, <2>1 DEF Tables
<1> QED
  BY <1>1, <1>8, <1>9, <1>13 DEF VolumeInv

(* Programming the block stays where it is. *)
LEMMA ProgramSectorStep == ASSUME VolumeInv, ProgramSector PROVE VolumeInv'
<1>1. /\ FlashTypeOK' /\ BlockInRam' /\ VolumeTypes /\ Rest /\ Tables
      /\ Visible \in Good /\ Course(Ahead, writes, Good, Done)
      /\ FlashTypeOK /\ BlockInRam
  BY VolumeFlashStep DEF VolumeInv, OnCourse, Next
<1>2. /\ stage = "erased" /\ stage' = "idle" /\ Program
      /\ kept' = IF writes = <<>> THEN [kept EXCEPT ![file.name] = file.hold] ELSE kept
      /\ host' = IF writes = <<>> THEN "none" ELSE host
      /\ UNCHANGED <<phase, firmware, writes, file, runs, hostOps, cuts, torn>>
      /\ writes \in Seq(Writes)
  BY <1>1 DEF ProgramSector, Program, VolumeTypes
<1>3. Visible' = Visible /\ Ahead = Visible /\ Ahead' = Visible
  BY <1>1, <1>2, ProgramShows DEF Ahead
<1>4. VolumeTypes'
  BY <1>1, <1>2 DEF VolumeTypes
<1>5. Rest'
  BY <1>1, <1>2 DEF Rest, Idle
<1>6. Tables'
  <2>1. ASSUME Visible[Mbr] = Blank PROVE Bare(Visible, kept') /\ file.hold = Absent
    <3>1. Bare(Visible, kept) /\ file.hold = Absent
      BY <1>1, <2>1 DEF Tables, Early
    <3>2. \A n \in Names : kept'[n] = Absent
      BY <1>1, <1>2, <3>1 DEF Bare, VolumeTypes
    <3> QED
      BY <3>1, <3>2 DEF Bare
  <2> QED
    BY <1>2, <1>3, <2>1 DEF Tables, Early
<1>7. CASE writes # <<>>
  <2>1. ~Idle /\ ~Idle' /\ kept' = kept /\ host' = host
    BY <1>2, <1>7 DEF Idle
  <2>2. Good' = Good /\ Done' = Done
    BY <1>2, <2>1 DEF Good, Done
  <2>3. OnCourse'
    BY <1>1, <1>2, <1>3, <2>2 DEF OnCourse
  <2> QED
    BY <1>1, <1>4, <1>5, <1>6, <2>3 DEF VolumeInv
<1>8. CASE writes = <<>>
  <2>1. Visible \in Done
    BY <1>1, <1>2, <1>3, <1>8, CourseHere
  <2>2. ~Idle /\ Idle'
    BY <1>2, <1>8 DEF Idle
  <2>3. Visible \in Done'
    BY <1>2, <2>1, <2>2 DEF Done
  <2>4. Holds(Visible, kept')
    <3>1. ASSUME NEW n \in Names, kept'[n] # Absent PROVE ReadOf(Visible, n) = kept'[n]
      <4>1. CASE n = file.name
        <5>1. kept'[n] = file.hold
          BY <1>1, <1>2, <1>8, <4>1 DEF VolumeTypes
        <5> QED
          BY <2>1, <2>2, <3>1, <4>1, <5>1 DEF Done
      <4>2. CASE n # file.name
        <5>1. kept'[n] = kept[n]
          BY <1>1, <1>2, <1>8, <4>2 DEF VolumeTypes
        <5> QED
          BY <1>1, <3>1, <5>1, GoodIs DEF Holds
      <4> QED
        BY <4>1, <4>2
    <3> QED
      BY <3>1 DEF Holds
  <2>5. Formatted(Visible, kept')
    BY <1>1, <1>2, <1>3, <1>6, GoodIs DEF Tables, Early, Formatted
  <2>6. Visible \in Good'
    <3>1. Separate(Visible) /\ host' = "none"
      BY <1>2, <1>8, <2>1 DEF Done
    <3>2. /\ Visible \in States /\ Typed(Visible)
          /\ phase = "serving" => Fresh(Visible, firmware) /\ Visible[Mbr] # Blank
      BY <1>1, GoodIs
    <3> QED
      BY <1>2, <2>4, <2>5, <3>1, <3>2 DEF Good, GoodFor
  <2>7. OnCourse'
    BY <1>2, <1>3, <1>8, <2>3, <2>6, CourseNil DEF OnCourse
  <2> QED
    BY <1>1, <1>4, <1>5, <1>6, <2>7 DEF VolumeInv
<1> QED
  BY <1>7, <1>8

(* A power cut that takes sectors of one block with it. *)
Without(v, lost) == [s \in Sectors |-> IF s \in lost THEN Blank ELSE v[s]]

(* A volume that lost sectors of an erased block is good for the files it *)
(* still has.                                                             *)
LEMMA TornVolume ==
    ASSUME NEW k \in [Names -> Texts \union {Empty, Absent}], NEW q \in BOOLEAN, NEW fw,
           NEW v \in GoodFor(k, q, fw), NEW lost \in SUBSET Sectors, NEW l,
           \A n \in Names : l[n] # Absent =>
                l[n] = k[n] /\ Dir \notin lost /\ RootOf(v)[n] \notin lost \intersect Data,
           Mbr \in lost => Bare(v, k), Vbr \in lost => v[Mbr] = Blank
    PROVE  Without(v, lost) \in GoodFor(l, FALSE, fw)
<1> DEFINE u == Without(v, lost)
<1>1. /\ v \in States /\ Typed(v) /\ Separate(v) /\ Holds(v, k) /\ Formatted(v, k)
  BY DEF GoodFor
<1>2. /\ u \in States
      /\ \A s \in Sectors : u[s] = IF s \in lost THEN Blank ELSE v[s]
  BY <1>1, Fits DEF States, Without
<1> HIDE DEF u
<1>3. Typed(u)
  <2>1. ASSUME NEW c \in Data PROVE u[c] \in Texts \union {Blank}
    BY <1>1, <1>2, Layout DEF Typed
  <2>2. u[Fat] # Blank => u[Fat] \in [Data -> BOOLEAN]
    BY <1>1, <1>2, Layout DEF Typed
  <2>3. u[Dir] # Blank => u[Dir] \in [Names -> Entries]
    BY <1>1, <1>2, Layout DEF Typed
  <2> QED
    BY <2>1, <2>2, <2>3 DEF Typed
<1>4. \/ \A n \in Names : RootOf(u)[n] = Absent
      \/ RootOf(u) = RootOf(v) /\ Dir \notin lost
  BY <1>2, Layout DEF RootOf
<1>5. UsedOf(v) \subseteq UsedOf(u)
  <2>1. UsedOf(v) \in SUBSET Data
    BY <1>1, RootType
  <2>2. u[Fat] = Blank \/ u[Fat] = v[Fat]
    BY <1>2, Layout
  <2> QED
    BY <2>1, <2>2 DEF UsedOf
<1>6. Separate(u)
  <2>1. CASE \A n \in Names : RootOf(u)[n] = Absent
    BY <2>1, Marks DEF Separate
  <2>2. CASE RootOf(u) = RootOf(v)
    BY <1>1, <1>5, <2>2 DEF Separate
  <2> QED
    BY <1>4, <2>1, <2>2
<1>7. Holds(u, l)
  <2> SUFFICES ASSUME NEW n \in Names, l[n] # Absent PROVE ReadOf(u, n) = l[n]
    BY DEF Holds
  <2>1. l[n] = k[n] /\ Dir \notin lost /\ RootOf(v)[n] \notin lost \intersect Data
    OBVIOUS
  <2>2. RootOf(u) = RootOf(v)
    BY <1>2, <2>1, Layout DEF RootOf
  <2>3. ReadOf(v, n) = k[n]
    BY <1>1, <2>1 DEF Holds
  <2>4. RootOf(v)[n] \in Data => u[RootOf(v)[n]] = v[RootOf(v)[n]]
    BY <1>2, <2>1, Layout
  <2> QED
    BY <2>1, <2>2, <2>3, <2>4 DEF ReadOf
<1>8. Formatted(u, l)
  <2>1. CASE u[Mbr] # Blank
    <3>1. v[Mbr] # Blank /\ Vbr \notin lost
      BY <1>2, <2>1, Layout
    <3> QED
      BY <1>1, <1>2, <2>1, <3>1, Layout DEF Formatted
  <2>2. CASE u[Mbr] = Blank
    <3>1. Bare(v, k)
      BY <1>1, <1>2, <2>2, Layout DEF Formatted
    <3>2. \A n \in Names : l[n] = Absent /\ RootOf(u)[n] = Absent
      BY <1>4, <3>1 DEF Bare
    <3> QED
      BY <2>2, <3>2 DEF Formatted, Bare
  <2> QED
    BY <2>1, <2>2
<1> QED
  BY <1>2, <1>3, <1>6, <1>7, <1>8 DEF GoodFor, u

(* A power cut keeps the invariant, for the files that remain. *)
LEMMA PowerCutStep == ASSUME VolumeInv, PowerCut, ~torn' PROVE VolumeInv'
<1>1. /\ FlashTypeOK' /\ BlockInRam' /\ VolumeTypes /\ Tables
      /\ Visible \in Good /\ FlashTypeOK /\ BlockInRam
  BY VolumeFlashStep DEF VolumeInv, OnCourse, Next
<1>h. host # "freeing" /\ host' = "none" /\ torn' \in BOOLEAN
  BY DEF PowerCut, CutOff
<1>g. Visible \in GoodFor(kept, phase = "serving", firmware)
  BY <1>1, <1>h, GoodIs
<1>2. /\ Cut /\ stage' = "idle" /\ phase' = "off" /\ writes' = <<>> /\ cuts' = cuts + 1
      /\ UNCHANGED <<firmware, file, runs, hostOps>> /\ MoreToCome
      /\ kept' = [n \in Names |->
                    IF Torn(Fat) \/ Torn(Dir) \/ (Root[n] \in Data /\ Torn(Root[n]))
                    THEN Absent ELSE kept[n]]
  BY DEF PowerCut, Cut
<1>3. Idle'
  BY <1>2 DEF Idle
<1>4. VolumeTypes'
  <2>1. kept' \in [Names -> Texts \union {Empty, Absent}]
    BY <1>1, <1>2 DEF VolumeTypes
  <2>2. cuts' \in Nat /\ runs' + hostOps' + cuts' <= MaxEvents
    BY <1>1, <1>2, VolumeAssumption DEF VolumeTypes, MoreToCome
  <2>3. writes' \in Seq(Writes)
    BY <1>2
  <2> QED
    BY <1>1, <1>2, <1>h, <2>1, <2>2, <2>3 DEF VolumeTypes
<1>5. Rest' /\ Ahead' = Visible'
  BY <1>2, <1>3, <1>h DEF Rest, Ahead
<1>6. \A n \in Names : kept'[n] # Absent => kept'[n] = kept[n]
  BY <1>1, <1>2 DEF VolumeTypes
<1>7. Visible' \in GoodFor(kept', FALSE, firmware) /\ (Visible'[Mbr] = Blank => Early)
  <2> DEFINE q == phase = "serving"
             k == kept
             l == kept'
             u == Visible'
             v == Visible
  <2>1. CASE stage # "erased"
    <3>1. Visible' = Visible
      BY <1>1, <1>2, <2>1, CutShows
    <3>2. kept' = kept
      BY <1>1, <1>2, <2>1 DEF Torn, VolumeTypes
    <3> QED
      BY <1>g, <3>1, <3>2 DEF GoodFor, Early
  <2>2. CASE stage = "erased"
    <3>1. PICK lost \in SUBSET {s \in Sectors : SameBlock(s, lba)} :
              Visible' = [s \in Sectors |-> IF s \in lost THEN Blank ELSE Visible[s]]
      BY <1>1, <1>2, <2>2, CutShows
    <3>2. lost \in SUBSET Sectors /\ \A s \in lost : Torn(s)
      BY <2>2, <3>1 DEF Torn
    <3>3. ASSUME NEW n \in Names, kept'[n] # Absent
          PROVE  /\ kept'[n] = kept[n] /\ Dir \notin lost
                 /\ RootOf(Visible)[n] \notin lost \intersect Data
      BY <1>2, <3>2, <3>3, Terms
    <3>4. lba \in Places /\ (lba \in {Mbr, Vbr} => Early)
      BY <1>1, <2>2 DEF Tables
    <3>5. Mbr \in lost => lba = Mbr
      <4>1. Mbr \in lost => SameBlock(lba, Mbr)
        BY <3>1 DEF SameBlock
      <4> QED
        BY <3>4, <4>1, LayoutAssumption DEF Places, Reserved
    <3>6. Vbr \in lost => lba = Vbr
      <4>1. Vbr \in lost => SameBlock(lba, Vbr) /\ SameBlock(Vbr, lba)
        BY <3>1 DEF SameBlock
      <4> QED
        BY <3>4, <4>1, LayoutAssumption DEF Places, Reserved
    <3>7. (Mbr \in lost => Bare(Visible, kept)) /\ (Vbr \in lost => Visible[Mbr] = Blank)
      BY <1>1, <3>4, <3>5, <3>6, Layout DEF Tables, Early
    <3>8. /\ kept \in [Names -> Texts \union {Empty, Absent}] /\ q \in BOOLEAN
          /\ v \in GoodFor(kept, q, firmware)
      BY <1>1, <1>g DEF VolumeTypes
    <3> HIDE DEF q, u, v, k, l
    <3>9. u \in GoodFor(l, FALSE, firmware)
      <4>1. \A n \in Names : l[n] # Absent =>
                l[n] = k[n] /\ Dir \notin lost /\ RootOf(v)[n] \notin lost \intersect Data
        BY <3>3 DEF l, k, v
      <4>2. u = Without(v, lost)
        BY <3>1, Zenon DEF u, v, Without
      <4>3. /\ Mbr \in lost => Bare(v, k)
            /\ Vbr \in lost => v[Mbr] = Blank
        BY <3>7 DEF k, v
      <4>4. k \in [Names -> Texts \union {Empty, Absent}] /\ v \in GoodFor(k, q, firmware)
        BY <3>8 DEF k
      <4> QED
        BY <3>2, <3>8, <4>1, <4>2, <4>3, <4>4, TornVolume
    <3>10. Visible'[Mbr] = Blank => Early
      BY <2>2, <3>1, <3>5, Layout DEF Early
    <3> QED
      BY <3>9, <3>10 DEF u, l
  <2> QED
    BY <2>1, <2>2
<1>8. Visible' \in Good'
  BY <1>2, <1>7, <1>h DEF Good
<1>9. Visible' \in Done'
  BY <1>2, <1>3, <1>7 DEF Done, GoodFor
<1>10. OnCourse'
  BY <1>2, <1>5, <1>8, <1>9, CourseNil DEF OnCourse
<1>11. Tables'
  <2>1. ASSUME Visible'[Mbr] = Blank PROVE Bare(Visible', kept') /\ file'.hold = Absent
    <3>1. Bare(Visible', kept')
      BY <1>7, <2>1 DEF GoodFor, Formatted
    <3>2. file.hold = Absent
      BY <1>1, <1>7, <2>1 DEF Tables
    <3> QED
      BY <1>2, <3>1, <3>2
  <2> QED
    BY <1>2, <2>1 DEF Tables, Early
<1> QED
  BY <1>1, <1>4, <1>5, <1>10, <1>11 DEF VolumeInv

(* The invariant holds on an unformatted volume, *)
LEMMA VolumeStart == Init => VolumeInv
<1> SUFFICES ASSUME Init PROVE VolumeInv
  OBVIOUS
<1>1. FlashTypeOK /\ BlockInRam /\ Visible = flash /\ Ahead = Visible
  BY DEF Init, FlashTypeOK, BlockInRam, Visible, Cells, Ahead
<1>2. VolumeTypes
  <2>1. runs + hostOps + cuts <= MaxEvents
    BY VolumeAssumption DEF Init
  <2>2. writes \in Seq(Writes)
    BY DEF Init
  <2>3. kept \in [Names -> Texts \union {Empty, Absent}]
    BY DEF Init
  <2>4. file \in [name : Names, hold : Texts \union {Empty, Absent}]
    BY DEF Init, Names
  <2>5. /\ phase = "off" /\ host = "none" /\ torn \in BOOLEAN /\ firmware \in Firmware
        /\ runs \in Nat /\ hostOps \in Nat /\ cuts \in Nat
    BY DEF Init
  <2> QED
    BY <2>1, <2>2, <2>3, <2>4, <2>5 DEF VolumeTypes
<1>3. /\ \A s \in Sectors : Visible[s] = Blank
      /\ Visible \in States
  BY <1>1 DEF Init, States, Cells
<1>4. Typed(Visible) /\ Bare(Visible, kept) /\ Visible[Mbr] = Blank
  BY <1>3, Layout DEF Typed, Bare, RootOf, Init
<1>5. Visible \in Good /\ Separate(Visible)
  BY <1>3, <1>4, BareGood DEF Init, Good, GoodFor
<1>6. Idle /\ Rest /\ Tables
  BY <1>4 DEF Init, Idle, Rest, Tables
<1>7. Visible \in Done
  BY <1>3, <1>5, <1>6 DEF Init, Done
<1>8. OnCourse
  BY <1>1, <1>5, <1>7, CourseNil DEF Init, OnCourse
<1> QED
  BY <1>1, <1>2, <1>6, <1>8 DEF VolumeInv

(* and every step keeps it that does not cut off a host that frees a       *)
(* cluster.                                                                *)
LEMMA VolumeStep == VolumeInv /\ [Next]_vars /\ ~torn' => VolumeInv'
<1> SUFFICES ASSUME VolumeInv, [Next]_vars, ~torn' PROVE VolumeInv'
  OBVIOUS
<1>1. CASE UNCHANGED vars
  <2>1. UNCHANGED flashVars /\ UNCHANGED volumeVars
    BY <1>1 DEF vars
  <2>2. /\ Visible' = Visible /\ FlashTypeOK' /\ BlockInRam'
    BY <2>1, VolumeFlashStep DEF VolumeInv, flashVars, Visible, SameBlock, BlockOf, Within
  <2>3. stage' = stage /\ lba' = lba /\ g_rmw' = g_rmw /\ Idle' = Idle
    BY <2>1, Zenon DEF flashVars, volumeVars, Idle
  <2>4. Ahead' = Ahead /\ (Early' <=> Early)
    BY <2>2, <2>3 DEF Ahead, Early, Within
  <2>5. VolumeTypes' /\ Rest' /\ Tables'
    BY <2>1, <2>2, <2>3, <2>4 DEF VolumeInv, volumeVars, VolumeTypes, Rest, Tables
  <2>6. Good' = Good /\ Done' = Done
    BY <2>1, <2>3 DEF Good, Done, volumeVars
  <2>7. OnCourse'
    BY <2>1, <2>2, <2>4, <2>6 DEF VolumeInv, OnCourse, volumeVars
  <2> QED
    BY <2>2, <2>5, <2>7 DEF VolumeInv
<1> QED
  BY <1>1, BootSteps, ChangeSteps, NextSectorStep, EraseSectorStep, ProgramSectorStep,
     PowerCutStep DEF Next

-----------------------------------------------------------------------------
(* The types hold whatever a host left behind that was cut off.            *)

(* Every write has the type of its sector. *)
TypedWrites ==
    UNION {Data \X Texts, {Fat} \X [Data -> BOOLEAN], {Dir} \X [Names -> Entries],
           {Mbr, Vbr} \X {Record}}

TypesInv ==
    /\ FlashTypeOK /\ BlockInRam /\ VolumeTypes /\ Rest
    /\ Typed(Visible) /\ writes \in Seq(TypedWrites)
    /\ stage = "patched" => <<lba, g_rmw[Within(lba)]>> \in TypedWrites

(* What has the type of its sector fits it, *)
LEMMA TypedFit == TypedWrites \subseteq Writes /\ \A w \in Seq(TypedWrites) : w \in Seq(Writes)
<1>1. TypedWrites \subseteq Writes
  BY Fits DEF TypedWrites, Writes, Places, Reserved
<1> QED
  BY <1>1

(* and leaves the volume typed. *)
LEMMA TypedPut ==
    ASSUME NEW v \in States, Typed(v), NEW s, NEW x, <<s, x>> \in TypedWrites
    PROVE  Typed(Put(v, s, x))
<1>1. CASE s \in Data /\ x \in Texts
  BY <1>1, WriteText
<1>2. CASE s = Dir /\ x \in [Names -> Entries]
  BY <1>2, WriteDir
<1>3. CASE s \in {Fat, Mbr, Vbr} /\ x \in Contents /\ (s = Fat => x \in [Data -> BOOLEAN])
  <2> DEFINE u == Put(v, s, x)
  <2>1. s \in Sectors /\ s # Dir /\ s \notin Data
    BY <1>3, Layout
  <2>2. u \in States /\ u[s] = x /\ \A t \in Sectors \ {s} : u[t] = v[t]
    BY <1>3, <2>1, PutIs
  <2> HIDE DEF u
  <2>3. u[Dir] = v[Dir] /\ \A c \in Data : u[c] = v[c]
    BY <2>1, <2>2, Layout
  <2>4. u[Fat] # Blank => u[Fat] \in [Data -> BOOLEAN]
    BY <1>3, <2>2, Layout DEF Typed
  <2> QED
    BY <2>3, <2>4 DEF Typed, u
<1>4. \/ s \in Data /\ x \in Texts
      \/ s = Dir /\ x \in [Names -> Entries]
      \/ s = Fat /\ x \in [Data -> BOOLEAN]
      \/ s \in {Mbr, Vbr} /\ x = Record
  BY DEF TypedWrites
<1>5. CASE s = Fat /\ x \in [Data -> BOOLEAN]
  BY <1>3, <1>5, Fits
<1>6. CASE s \in {Mbr, Vbr} /\ x = Record
  BY <1>3, <1>6, Fits, Layout
<1> QED
  BY <1>1, <1>2, <1>4, <1>5, <1>6

(* So does a loss of sectors. *)
LEMMA TypedWithout ==
    ASSUME NEW v, Typed(v), NEW lost \in SUBSET Sectors
    PROVE  Typed(Without(v, lost))
<1> DEFINE u == Without(v, lost)
<1>1. \A s \in Sectors : u[s] = v[s] \/ u[s] = Blank
  BY DEF Without
<1> HIDE DEF u
<1> QED
  BY <1>1, Layout DEF Typed, u

(* What FatFs writes for a new file has the types of the sectors. *)
LEMMA NewFileTyped ==
    ASSUME Typed(Visible), NEW n \in Names, NEW text \in Texts, NEW job \in NewFile(n, text)
    PROVE  job.write \in Seq(TypedWrites) /\ job.hold \in {text, Empty}
<1>1. Root \in [Names -> Entries] /\ Used \in SUBSET Data
  BY RootType, Terms
<1>2. OldCluster(n) \in SUBSET Data /\ Chosen(n) \in SUBSET Data
  BY <1>1 DEF OldCluster, Chosen, Entries
<1>3. \A e \in Entries : Entry(n, e) \in TypedWrites
  <2>1. \A e \in Entries : [Root EXCEPT ![n] = e] \in [Names -> Entries]
    BY <1>1
  <2> QED
    BY <2>1, Zenon DEF Entry, TypedWrites
<1>4. \A U : Table(U) \in TypedWrites
  <2>1. \A U : [c \in Data |-> c \in U] \in [Data -> BOOLEAN]
    OBVIOUS
  <2> QED
    BY <2>1, Zenon DEF Table, TypedWrites
<1>5. \A c \in Data : <<c, text>> \in TypedWrites
  BY DEF TypedWrites
<1>6. Empty \in Entries /\ Data \subseteq Entries
  BY DEF Entries
<1>7. Truncate(n) \in Seq(TypedWrites)
  BY <1>3, <1>4, <1>6 DEF Truncate
<1>8. \A c \in Data : StoreText(n, text, c) \in Seq(TypedWrites)
  BY <1>3, <1>4, <1>5, <1>6 DEF StoreText
<1>9. <<Entry(n, Empty)>> \in Seq(TypedWrites)
  BY <1>3, <1>6
<1>10. CASE Chosen(n) = {}
  <2>1. job = [write |-> Truncate(n) \o <<Entry(n, Empty)>>, hold |-> Empty]
    BY <1>10, Zenon DEF NewFile
  <2> QED
    BY <1>7, <1>9, <2>1
<1>11. CASE Chosen(n) # {}
  <2>1. PICK c \in Chosen(n) :
            job = [write |-> Truncate(n) \o StoreText(n, text, c), hold |-> text]
    BY <1>11, Zenon DEF NewFile
  <2> QED
    BY <1>2, <1>7, <1>8, <2>1
<1> QED
  BY <1>10, <1>11

(* A format writes the types of the sectors. *)
LEMMA FormatTyped == FormatWrites \in Seq(TypedWrites)
<1>1. [n \in Names |-> Absent] \in [Names -> Entries] /\ [c \in Data |-> c \in {}] \in [Data -> BOOLEAN]
  BY DEF Entries
<1>2. /\ <<Vbr, Record>> \in TypedWrites /\ <<Mbr, Record>> \in TypedWrites
      /\ <<Dir, [n \in Names |-> Absent]>> \in TypedWrites /\ Table({}) \in TypedWrites
  BY <1>1, Zenon DEF TypedWrites, Table
<1> QED
  BY <1>2 DEF FormatWrites

(* A job that begins keeps the types. *)
LEMMA TypesBegin ==
    ASSUME TypesInv, stage = "idle", VolumeTypes', Rest', UNCHANGED flashVars,
           writes' \in Seq(TypedWrites)
    PROVE  TypesInv'
<1>1. Visible' = Visible /\ stage' = stage
  BY DEF flashVars, Visible, SameBlock, BlockOf, Within
<1>2. FlashTypeOK' /\ BlockInRam'
  BY TypeStep, PatchStep DEF TypesInv
<1> QED
  BY <1>1, <1>2 DEF TypesInv

(* What the boot, a flush and the host begin keeps the types. *)
LEMMA TypesJobs == ASSUME TypesInv, Boots \/ Changes PROVE TypesInv'
<1>t. /\ VolumeTypes /\ Rest /\ Typed(Visible) /\ writes \in Seq(TypedWrites)
      /\ Config \in Names /\ Version \in Names /\ Results \subseteq Names
      /\ Default \in Texts /\ Firmware \subseteq Texts /\ Edits \subseteq Texts
      /\ runs \in Nat /\ hostOps \in Nat /\ cuts \in Nat /\ MaxEvents \in Nat
  BY VolumeAssumption DEF TypesInv, Names, Texts, VolumeTypes
<1>j. ASSUME NEW n \in Names, NEW job, Begin(n, job), stage = "idle",
             job.write \in Seq(TypedWrites), job.hold \in Texts \union {Empty, Absent},
             job.write # <<>> \/ host' = "none",
             host' \in {"none", "tidy", "freeing"}, torn' \in BOOLEAN,
             phase' \in {"config", "version", "usb", "serving"}, firmware' \in Firmware,
             runs' \in Nat, hostOps' \in Nat, cuts' \in Nat, runs' + hostOps' + cuts' <= MaxEvents
      PROVE  TypesInv'
  <2>1. /\ writes' = job.write /\ file' = [name |-> n, hold |-> job.hold]
        /\ kept' = [kept EXCEPT ![n] = Absent] /\ UNCHANGED flashVars
    BY <1>j DEF Begin
  <2>2. writes' \in Seq(Writes)
    BY <1>j, <2>1, TypedFit
  <2>3. VolumeTypes'
    BY <1>j, <1>t, <2>1, <2>2 DEF VolumeTypes
  <2>4. Rest'
    BY <1>j, <2>1 DEF Rest, Idle
  <2> QED
    BY <1>j, <2>1, <2>3, <2>4, TypesBegin
<1>k. ASSUME Keep, Idle, firmware' \in Firmware, UNCHANGED <<runs, hostOps, cuts>>,
             phase' \in {"mount", "config", "version", "usb", "serving"}
      PROVE  TypesInv'
  <2>1. VolumeTypes'
    BY <1>k, <1>t DEF VolumeTypes, Keep
  <2>2. Rest' /\ stage = "idle" /\ UNCHANGED flashVars /\ writes' = writes
    BY <1>k, <1>t, Zenon DEF Rest, Idle, Keep, flashVars
  <2> QED
    BY <1>t, <2>1, <2>2, TypesBegin
<1>n. ASSUME NEW n \in Names, NEW text \in Texts, NEW job \in NewFile(n, text), Begin(n, job),
             stage = "idle", host' = "none", torn' \in BOOLEAN,
             phase' \in {"config", "version", "usb", "serving"}, firmware' \in Firmware,
             runs' \in Nat, hostOps' \in Nat, cuts' \in Nat, runs' + hostOps' + cuts' <= MaxEvents
      PROVE  TypesInv'
  <2>1. job.write \in Seq(TypedWrites) /\ job.hold \in Texts \union {Empty, Absent}
    BY <1>n, <1>t, NewFileTyped
  <2> QED
    BY <1>j, <1>n, <2>1
<1>1. CASE PowerOn
  <2>1. Idle /\ Keep /\ firmware' \in Firmware /\ phase' = "mount"
    BY <1>1, <1>t DEF PowerOn, Rest
  <2> QED
    BY <1>1, <1>k, <2>1 DEF PowerOn
<1>2. CASE MountOrFormat
  <2>1. /\ Idle /\ phase = "mount" /\ phase' = "config"
        /\ UNCHANGED <<firmware, runs, hostOps, cuts>> /\ firmware \in Firmware
    BY <1>2, <1>t DEF MountOrFormat, Rest, VolumeTypes
  <2>2. CASE Keep
    BY <1>k, <2>1, <2>2
  <2>3. CASE ~fs_mount
    <3>1. writes' = FormatWrites /\ UNCHANGED <<file, kept, host, torn, flashVars>>
      BY <1>2, <2>3 DEF MountOrFormat
    <3>2. writes' \in Seq(TypedWrites) /\ writes' \in Seq(Writes)
      BY <3>1, FormatTyped, TypedFit
    <3>3. VolumeTypes' /\ Rest' /\ stage = "idle"
      BY <1>t, <2>1, <3>1, <3>2 DEF VolumeTypes, Rest, Idle
    <3> QED
      BY <3>1, <3>2, <3>3, TypesBegin
  <2> QED
    BY <1>2, <2>2, <2>3 DEF MountOrFormat
<1>3. CASE EnsureConfig
  <2>1. /\ Idle /\ phase' = "version" /\ UNCHANGED <<firmware, runs, hostOps, cuts>>
        /\ firmware \in Firmware /\ stage = "idle" /\ host = "none" /\ torn \in BOOLEAN
        /\ runs + hostOps + cuts <= MaxEvents
    BY <1>3, <1>t DEF EnsureConfig, VolumeTypes, Rest, Idle
  <2>2. CASE Keep
    BY <1>k, <2>1, <2>2
  <2>3. CASE \E job \in NewFile(Config, Default) : Begin(Config, job) /\ UNCHANGED <<host, torn>>
    BY <1>n, <1>t, <2>1, <2>3
  <2> QED
    BY <1>3, <2>2, <2>3 DEF EnsureConfig
<1>4. CASE RefreshVersion
  <2>1. /\ Idle /\ phase' = "usb" /\ UNCHANGED <<firmware, runs, hostOps, cuts>>
        /\ firmware \in Firmware /\ stage = "idle" /\ host = "none" /\ torn \in BOOLEAN
        /\ runs + hostOps + cuts <= MaxEvents
    BY <1>4, <1>t DEF RefreshVersion, VolumeTypes, Rest, Idle
  <2>2. CASE Keep
    BY <1>k, <2>1, <2>2
  <2>3. CASE \E job \in NewFile(Version, firmware) : Begin(Version, job) /\ UNCHANGED <<host, torn>>
    BY <1>n, <1>t, <2>1, <2>3
  <2> QED
    BY <1>4, <2>2, <2>3 DEF RefreshVersion
<1>5. CASE Serve
  <2>1. Idle /\ Keep /\ firmware' \in Firmware /\ phase' = "serving"
    BY <1>5, <1>t DEF Serve, VolumeTypes
  <2> QED
    BY <1>5, <1>k, <2>1 DEF Serve
<1>6. CASE FlushResults
  <2>1. /\ phase' = "serving" /\ firmware' \in Firmware /\ stage = "idle"
        /\ host' = "none" /\ torn' \in BOOLEAN
    BY <1>6, <1>t DEF FlushResults, BetweenWrites, CutOff, VolumeTypes
  <2>2. /\ runs' \in Nat /\ hostOps' \in Nat
        /\ cuts' \in Nat /\ runs' + hostOps' + cuts' <= MaxEvents
    BY <1>6, <1>t DEF FlushResults, MoreToCome
  <2>3. Measured[runs + 1] \in Texts
    <3>1. runs + 1 \in 1 .. MaxEvents
      BY <1>6, <1>t DEF FlushResults, MoreToCome
    <3> QED
      BY <3>1 DEF Texts
  <2>4. fs_next_free_name \in Names
    BY <1>t, NextName
  <2>5. \E job \in NewFile(fs_next_free_name, Measured[runs + 1]) : Begin(fs_next_free_name, job)
    BY <1>6 DEF FlushResults
  <2> QED
    BY <1>n, <2>1, <2>2, <2>3, <2>4, <2>5
<1>h. ASSUME NEW n \in Names, NEW job, NEW kind \in {"tidy", "freeing"}, HostChanges(n, job, kind),
             job.write \in Seq(TypedWrites), job.write # <<>>,
             job.hold \in Texts \union {Empty, Absent}
      PROVE  TypesInv'
  <2>1. /\ phase' = "serving" /\ firmware' \in Firmware /\ stage = "idle"
        /\ host' = kind /\ torn' \in BOOLEAN /\ Begin(n, job)
    BY <1>h, <1>t DEF HostChanges, Idle, VolumeTypes
  <2>2. /\ runs' \in Nat /\ hostOps' \in Nat
        /\ cuts' \in Nat /\ runs' + hostOps' + cuts' <= MaxEvents
    BY <1>h, <1>t DEF HostChanges, MoreToCome
  <2> QED
    BY <1>h, <1>j, <2>1, <2>2
<1>7. CASE HostEdits
  <2>1. PICK text \in Edits :
            HostChanges(Config, [write |-> << <<Root[Config], text>> >>, hold |-> text], "tidy")
    BY <1>7 DEF HostEdits
  <2> DEFINE job == [write |-> << <<Root[Config], text>> >>, hold |-> text]
  <2>2. <<Root[Config], text>> \in TypedWrites
    BY <1>7, <1>t DEF HostEdits, TypedWrites
  <2>3. /\ job.write \in Seq(TypedWrites) /\ job.write # <<>>
        /\ job.hold \in Texts \union {Empty, Absent} /\ HostChanges(Config, job, "tidy")
    BY <1>t, <2>1, <2>2
  <2> HIDE DEF job
  <2> QED
    BY <1>h, <1>t, <2>3
<1>8. CASE HostDeletes
  <2>1. PICK n \in Results :
            \/ HostChanges(n, [write |-> <<Unlink(n), FreeCluster(n)>>, hold |-> Absent], "tidy")
            \/ HostChanges(n, [write |-> <<FreeCluster(n), Unlink(n)>>, hold |-> Absent], "freeing")
    BY <1>8 DEF HostDeletes
  <2>2. n \in Names /\ Absent \in Entries
    BY <1>t DEF Entries
  <2>3. Unlink(n) \in TypedWrites
    <3>1. EntryOf(Visible, n, Absent) \in [Names -> Entries]
      BY <1>t, <2>2, EntryIs
    <3>2. Unlink(n) = <<Dir, EntryOf(Visible, n, Absent)>>
      BY Terms DEF Unlink
    <3>3. <<Dir, EntryOf(Visible, n, Absent)>> \in {Dir} \X [Names -> Entries]
      BY <3>1
    <3> QED
      BY <3>2, <3>3 DEF TypedWrites
  <2>4. FreeCluster(n) \in TypedWrites
    <3>1. [c \in Data |-> c \in Used \ OldCluster(n)] \in [Data -> BOOLEAN]
      OBVIOUS
    <3> QED
      BY <3>1, Zenon DEF FreeCluster, Table, TypedWrites
  <2>5. ASSUME NEW w \in Seq(TypedWrites), w # <<>>, NEW kind \in {"tidy", "freeing"},
               HostChanges(n, [write |-> w, hold |-> Absent], kind)
        PROVE  TypesInv'
    <3> DEFINE job == [write |-> w, hold |-> Absent]
    <3>1. job.write = w /\ job.hold = Absent /\ HostChanges(n, job, kind)
      BY <2>5
    <3> HIDE DEF job
    <3> QED
      BY <1>h, <2>2, <2>5, <3>1
  <2>6. /\ <<Unlink(n), FreeCluster(n)>> \in Seq(TypedWrites) /\ <<Unlink(n), FreeCluster(n)>> # <<>>
        /\ <<FreeCluster(n), Unlink(n)>> \in Seq(TypedWrites) /\ <<FreeCluster(n), Unlink(n)>> # <<>>
    BY <2>3, <2>4
  <2> QED
    BY <2>1, <2>5, <2>6
<1> QED
  BY <1>1, <1>2, <1>3, <1>4, <1>5, <1>6, <1>7, <1>8 DEF Boots, Changes

(* The types hold at first, *)
LEMMA TypesStart == Init => TypesInv
<1> SUFFICES ASSUME Init PROVE TypesInv
  OBVIOUS
<1>1. VolumeInv
  BY VolumeStart
<1>2. Visible \in Good /\ writes = <<>> /\ stage = "idle"
  BY <1>1 DEF VolumeInv, OnCourse, Init
<1> QED
  BY <1>1, <1>2, GoodIs DEF VolumeInv, TypesInv

(* and every step keeps them. *)
LEMMA TypesStep == TypesInv /\ [Next]_vars => TypesInv'
<1> SUFFICES ASSUME TypesInv, [Next]_vars PROVE TypesInv'
  OBVIOUS
<1>t. /\ FlashTypeOK /\ BlockInRam /\ VolumeTypes /\ Rest /\ Typed(Visible)
      /\ writes \in Seq(TypedWrites)
  BY DEF TypesInv
<1>f. FlashTypeOK' /\ BlockInRam'
  BY <1>t, VolumeFlashStep
<1>s. Visible \in States
  <2>1. \A s \in Sectors : Within(s) \in 0 .. K - 1
    BY Place DEF Sectors
  <2> QED
    BY <1>t, <2>1 DEF Visible, FlashTypeOK, States
<1>1. CASE NextSector
  <2> DEFINE s == Head(writes)[1]
             x == Head(writes)[2]
  <2>1. /\ stage = "idle" /\ writes # <<>> /\ stage' = "patched" /\ lba' = s
        /\ writes' = Tail(writes) /\ flash' = flash
        /\ g_rmw' = [LoadBlock(s) EXCEPT ![Within(s)] = x]
        /\ UNCHANGED <<phase, firmware, file, runs, hostOps, cuts, kept, host, torn>>
    BY <1>1 DEF NextSector, Patch
  <2>2. Head(writes) \in TypedWrites /\ Tail(writes) \in Seq(TypedWrites)
    BY <1>t, <2>1
  <2>3. Head(writes) = <<s, x>> /\ s \in Sectors
    <3>1. PICK t \in Places, y \in Contents : Head(writes) = <<t, y>>
      <4>1. Head(writes) \in Writes
        BY <2>2, TypedFit
      <4> QED
        BY <4>1 DEF Writes
    <3>2. s = t /\ x = y
      BY <3>1
    <3> QED
      BY <3>1, <3>2, PlacesFit
  <2> HIDE DEF s, x
  <2>4. Within(s) \in 0 .. K - 1 /\ LoadBlock(s) \in [0 .. K - 1 -> Cells]
    BY <1>t, <2>3, Place, Loaded DEF Sectors
  <2>5. g_rmw'[Within(s)] = x /\ Within(lba)' = Within(s)
    BY <2>1, <2>4 DEF Within
  <2>6. Visible' = Visible
    <3>1. Visible' = flash'
      BY <1>f, <2>1, SeenIdle DEF Visible, FlashTypeOK
    <3> QED
      BY <1>t, <2>1, <3>1, SeenIdle
  <2>7. Tail(writes) \in Seq(Writes)
    BY <2>2, TypedFit
  <2>8. VolumeTypes' /\ Rest'
    BY <1>t, <2>1, <2>7 DEF VolumeTypes, Rest, Idle
  <2> QED
    BY <1>f, <1>t, <2>1, <2>2, <2>3, <2>5, <2>6, <2>8 DEF TypesInv
<1>2. CASE EraseSector
  <2>1. /\ stage = "patched" /\ stage' = "erased" /\ Erase
        /\ UNCHANGED <<phase, firmware, writes, file, runs, hostOps, cuts, kept, host, torn>>
    BY <1>2 DEF EraseSector, Erase, volumeVars
  <2>2. Visible' = Put(Visible, lba, g_rmw[Within(lba)])
    BY <1>t, <2>1, EraseShows DEF Put
  <2>3. Typed(Visible')
    BY <1>s, <1>t, <2>1, <2>2, TypedPut DEF TypesInv
  <2>4. VolumeTypes' /\ Rest'
    BY <1>t, <2>1 DEF VolumeTypes, Rest, Idle
  <2> QED
    BY <1>f, <1>t, <2>1, <2>3, <2>4 DEF TypesInv
<1>3. CASE ProgramSector
  <2>1. /\ stage = "erased" /\ stage' = "idle" /\ Program
        /\ kept' = IF writes = <<>> THEN [kept EXCEPT ![file.name] = file.hold] ELSE kept
        /\ host' = IF writes = <<>> THEN "none" ELSE host
        /\ UNCHANGED <<phase, firmware, writes, file, runs, hostOps, cuts, torn>>
    BY <1>3 DEF ProgramSector, Program
  <2>2. Visible' = Visible
    BY <1>t, <2>1, ProgramShows
  <2>3. VolumeTypes'
    BY <1>t, <2>1 DEF VolumeTypes
  <2>4. Rest'
    BY <1>t, <2>1 DEF Rest, Idle
  <2> QED
    BY <1>f, <1>t, <2>1, <2>2, <2>3, <2>4 DEF TypesInv
<1>4. CASE PowerCut
  <2>1. /\ Cut /\ stage' = "idle" /\ phase' = "off" /\ writes' = <<>> /\ cuts' = cuts + 1
        /\ UNCHANGED <<firmware, file, runs, hostOps>> /\ MoreToCome
        /\ host' = "none" /\ torn' \in BOOLEAN
    BY <1>4, <1>t DEF PowerCut, Cut, CutOff, VolumeTypes
  <2>2. kept' \in [Names -> Texts \union {Empty, Absent}]
    BY <1>4, <1>t DEF PowerCut, VolumeTypes
  <2>3. cuts' \in Nat /\ runs' + hostOps' + cuts' <= MaxEvents
    BY <1>t, <2>1, VolumeAssumption DEF VolumeTypes, MoreToCome
  <2>4. writes' \in Seq(Writes) /\ writes' \in Seq(TypedWrites)
    BY <2>1
  <2>5. VolumeTypes' /\ Rest'
    BY <1>t, <2>1, <2>2, <2>3, <2>4 DEF VolumeTypes, Rest, Idle
  <2>6. Typed(Visible')
    <3>1. CASE stage # "erased"
      BY <1>f, <1>t, <2>1, <3>1, CutShows
    <3>2. CASE stage = "erased"
      <4>1. PICK lost \in SUBSET {s \in Sectors : SameBlock(s, lba)} :
                Visible' = [s \in Sectors |-> IF s \in lost THEN Blank ELSE Visible[s]]
        BY <1>f, <1>t, <2>1, <3>2, CutShows
      <4>2. Visible' = Without(Visible, lost) /\ lost \in SUBSET Sectors
        BY <4>1, Zenon DEF Without
      <4> QED
        BY <1>t, <4>2, TypedWithout
    <3> QED
      BY <3>1, <3>2
  <2> QED
    BY <1>f, <2>1, <2>4, <2>5, <2>6 DEF TypesInv
<1>5. CASE UNCHANGED vars
  <2>1. /\ UNCHANGED flashVars /\ UNCHANGED volumeVars /\ stage' = stage /\ lba' = lba
        /\ g_rmw' = g_rmw /\ writes' = writes
    BY <1>5 DEF vars, flashVars, volumeVars
  <2>2. Visible' = Visible /\ Within(lba)' = Within(lba)
    BY <2>1 DEF flashVars, Visible, SameBlock, BlockOf, Within
  <2>3. VolumeTypes' /\ Rest'
    BY <1>t, <2>1 DEF volumeVars, VolumeTypes, Rest, Idle
  <2> QED
    BY <1>f, <1>t, <2>1, <2>2, <2>3 DEF TypesInv
<1> QED
  BY <1>1, <1>2, <1>3, <1>4, <1>5, TypesJobs DEF Next

(* A host that was cut off while it freed a cluster is never forgotten. *)
LEMMA TornStays == TypesInv /\ [Next]_vars /\ torn => torn'
BY DEF TypesInv, VolumeTypes, Next, Boots, Changes, PowerOn, MountOrFormat, EnsureConfig,
       RefreshVersion, Serve, FlushResults, HostEdits, HostDeletes, HostChanges, NextSector,
       EraseSector, ProgramSector, PowerCut, Keep, CutOff, vars, volumeVars

(* Until then the volume is on course. *)
FilesInv == TypesInv /\ (~torn => VolumeInv)

(* So it is always. *)
LEMMA FilesAlways == Spec => []FilesInv
<1>1. Init => FilesInv
  BY TypesStart, VolumeStart DEF FilesInv
<1>2. FilesInv /\ [Next]_vars => FilesInv'
  BY TypesStep, TornStays, VolumeStep DEF FilesInv
<1> QED
  BY <1>1, <1>2, PTL DEF Spec

-----------------------------------------------------------------------------
(* What main.cpp, the host and power cuts make of the volume.              *)

(* The sectors hold what FatFs can read, whatever was interrupted          *)
(* (main.cpp:224-267, diskio_flash.cpp:51-71).                             *)
THEOREM TypeCorrect == Spec => []TypeOK
<1>1. FilesInv => TypeOK
  <2> SUFFICES ASSUME TypesInv PROVE TypeOK
    BY DEF FilesInv
  <2>1. FlashTypeOK /\ BlockInRam /\ VolumeTypes /\ Rest /\ Typed(Visible)
    BY DEF TypesInv
  <2>2. \A s \in Sectors : flash[s] = Visible[s] \/ flash[s] = Blank
    BY <2>1 DEF Visible, BlockInRam
  <2>3. \A s \in Data : flash[s] \in Texts \union {Blank}
    BY <2>1, <2>2, Layout DEF Typed
  <2>4. /\ flash[Fat] # Blank => flash[Fat] \in [Data -> BOOLEAN]
        /\ flash[Dir] # Blank => flash[Dir] \in [Names -> Entries]
    BY <2>1, <2>2, Layout DEF Typed
  <2> QED
    BY <2>1, <2>3, <2>4 DEF TypeOK, VolumeTypes, Rest
<1> QED
  BY <1>1, FilesAlways, PTL

(* A completed file reads back as it was written (diskio_flash.cpp:51-71,  *)
(* main.cpp:224-267).                                                      *)
THEOREM KeepsFiles == Spec => []FilesKept
<1>1. FilesInv => FilesKept
  BY Terms, GoodIs DEF FilesInv, VolumeInv, OnCourse, Holds, FilesKept
<1> QED
  BY <1>1, FilesAlways, PTL

(* No cluster has two owners or is both owned and free, after any write.   *)
THEOREM NeverCrossLinked == Spec => []NoCrossLinks
<1>1. FilesInv => NoCrossLinks
  BY Terms DEF FilesInv, VolumeInv, OnCourse, Good, GoodFor, Separate, NoCrossLinks, LinksSound
<1> QED
  BY <1>1, FilesAlways, PTL

(* A served VERSION.TXT names the running firmware, or is empty            *)
(* (main.cpp:245-248).                                                     *)
THEOREM VersionCurrent == Spec => []VersionNeverStale
<1>1. FilesInv => VersionNeverStale
  BY Terms, GoodIs DEF FilesInv, VolumeInv, OnCourse, Fresh, VersionNeverStale
<1> QED
  BY <1>1, FilesAlways, PTL

(* A flush leaves every earlier result alone while a name is left          *)
(* (main.cpp:107-108).                                                     *)
THEOREM ResultsStay == Spec => NeverOverwritten
<1>1. FilesInv /\ [Next]_vars => [runs' # runs /\ NameLeft /\ ~torn => Untouched]_vars
  <2> SUFFICES ASSUME VolumeInv, Next, runs' # runs, NameLeft,
                      NEW k \in Results, kept[k] # Absent
               PROVE  kept'[k] = kept[k]
    BY DEF FilesInv, Untouched
  <2>1. FlushResults
    BY DEF Next, Boots, Changes, PowerOn, MountOrFormat, EnsureConfig, RefreshVersion, Serve,
           HostEdits, HostDeletes, HostChanges, NextSector, EraseSector, ProgramSector, PowerCut, volumeVars
  <2>2. kept' = [kept EXCEPT ![fs_next_free_name] = Absent]
    BY <2>1 DEF FlushResults, Begin
  <2>3. k \in Names /\ kept \in [Names -> Texts \union {Empty, Absent}]
    BY DEF Names, VolumeInv, VolumeTypes
  <2>4. ReadOf(Visible, k) = kept[k]
    BY <2>3, GoodIs DEF VolumeInv, OnCourse, Holds
  <2>5. fs_exists(k)
    BY <2>4, Terms, Marks DEF ReadOf, fs_exists
  <2>6. k # fs_next_free_name
    BY <2>5, NextName
  <2> QED
    BY <2>2, <2>3, <2>6
<1> QED
  BY <1>1, FilesAlways, PTL DEF Spec, NeverOverwritten

(* The volume's writes are those of a store of sectors                     *)
(* (diskio_flash.cpp:51-71).                                               *)
THEOREM VolumeOnStore == Spec => IsSectorStore
<1>1. Init => Store!Init
  BY DEF Init, Visible, Store!Init, Store!Sectors, Sectors
<1>2. FilesInv /\ [Next]_vars => [Store!Next]_Visible
  BY VolumeFlashStep, StoreStep DEF FilesInv, TypesInv
<1> QED
  BY <1>1, <1>2, FilesAlways, PTL DEF Spec, IsSectorStore, Store!Spec
=============================================================================
