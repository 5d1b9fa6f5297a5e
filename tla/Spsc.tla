-------------------------------- MODULE Spsc --------------------------------
(***************************************************************************)
(* app/spsc.hpp: the lock-free single-producer single-consumer ring that   *)
(* carries result rows from core 1 (producer) to core 0 (consumer).        *)
(*                                                                         *)
(* There is one action per access that the other side can observe.  A      *)
(* relaxed load of a side's own index is folded into the access after it,  *)
(* because nobody else writes that index.                                  *)
(*                                                                         *)
(* Memory model.  An acquire load of the other side's index may return any *)
(* value that side has published since this side's previous load: newer    *)
(* values need not be visible yet, older ones may never reappear.  pHead   *)
(* and cTail remember the value each side acquired last; what a release    *)
(* store published before that value is visible to the side that acquired  *)
(* it.                                                                     *)
(***************************************************************************)
EXTENDS Integers, Sequences

CONSTANTS
    N,          \* slots allocated (kResultRingLen); N-1 of them are usable
    Values,     \* rows, opaque here
    Blank       \* T{}: what the slots hold before they are written

ASSUME NAssumption == N \in Nat /\ N >= 2
ASSUME BlankAssumption == Blank \notin Values

VARIABLES
    buf,        \* buf_: the slots
    head,       \* head_: next slot to pop, written by the consumer only
    tail,       \* tail_: next slot to fill, written by the producer only
    ppc,        \* where the producer is inside push()
    pVal,       \* push()'s argument v
    pHead,      \* the value of head_ the producer acquired last
    pSawEmpty,  \* the producer's last empty() said TRUE and it has not pushed since
    cpc,        \* where the consumer is inside pop()
    cTail,      \* the value of tail_ the consumer acquired last
    cSawRow,    \* the consumer's last empty() said FALSE and it has not popped since
    out         \* pop()'s result parameter

pVars == <<ppc, pVal, pHead, pSawEmpty>>
cVars == <<cpc, cTail, cSawRow, out>>
vars == <<buf, head, tail, pVars, cVars>>

Slots == 0 .. N - 1

Advance(i) == (i + 1) % N

(* How far index a has to advance to reach index b. *)
Dist(a, b) == (b - a) % N

(* The values an acquire load may return for an index that was last seen   *)
(* as seen and is now cur.                                                 *)
Loads(seen, cur) == {i \in Slots : Dist(seen, i) <= Dist(seen, cur)}

EmptyUnchecked(t) == FALSE                  \* the check is left out

(* The two comparisons of the class, on a freshly acquired index. *)
Full(h) == Advance(tail) = h
Empty(t) == head = t

TypeOK ==
    /\ buf \in [Slots -> Values \union {Blank}]
    /\ head \in Slots
    /\ tail \in Slots
    /\ ppc \in {"idle", "store", "publish"}
    /\ pVal \in Values \union {Blank}
    /\ pHead \in Slots
    /\ pSawEmpty \in BOOLEAN
    /\ cpc \in {"idle", "read", "publish"}
    /\ cTail \in Slots
    /\ cSawRow \in BOOLEAN
    /\ out \in Values \union {Blank}

Init ==
    /\ buf = [i \in Slots |-> Blank]
    /\ head = 0 /\ tail = 0
    /\ ppc = "idle" /\ pVal = Blank /\ pHead = 0 /\ pSawEmpty = FALSE
    /\ cpc = "idle" /\ cTail = 0 /\ cSawRow = FALSE /\ out = Blank

-----------------------------------------------------------------------------
(* Producer: push(v) and empty(). *)

PushFull ==
    /\ ppc = "idle"
    /\ \E h \in Loads(pHead, head) : Full(h) /\ pHead' = h
    /\ UNCHANGED <<buf, head, tail, ppc, pVal, pSawEmpty, cVars>>

PushAccept(v) ==
    /\ ppc = "idle"
    /\ \E h \in Loads(pHead, head) : ~Full(h) /\ pHead' = h
    /\ ppc' = "store"
    /\ pVal' = v
    /\ pSawEmpty' = FALSE
    /\ UNCHANGED <<buf, head, tail, cVars>>

PushStore ==
    /\ ppc = "store"
    /\ buf' = [buf EXCEPT ![tail] = pVal]
    /\ ppc' = "publish"
    /\ UNCHANGED <<head, tail, pVal, pHead, pSawEmpty, cVars>>

PushPublish ==
    /\ ppc = "publish"
    /\ tail' = Advance(tail)
    /\ ppc' = "idle"
    /\ UNCHANGED <<buf, head, pVal, pHead, pSawEmpty, cVars>>

ProducerEmpty ==
    /\ ppc = "idle"
    /\ \E h \in Loads(pHead, head) : pHead' = h /\ pSawEmpty' = (h = tail)
    /\ UNCHANGED <<buf, head, tail, ppc, pVal, cVars>>

-----------------------------------------------------------------------------
(* Consumer: pop(out) and empty(). *)

PopEmpty ==
    /\ cpc = "idle"
    /\ \E t \in Loads(cTail, tail) : Empty(t) /\ cTail' = t
    /\ UNCHANGED <<buf, head, tail, cpc, cSawRow, out, pVars>>

PopAccept ==
    /\ cpc = "idle"
    /\ \E t \in Loads(cTail, tail) : ~Empty(t) /\ cTail' = t
    /\ cpc' = "read"
    /\ cSawRow' = FALSE
    /\ UNCHANGED <<buf, head, tail, out, pVars>>

PopRead ==
    /\ cpc = "read"
    /\ out' = buf[head]
    /\ cpc' = "publish"
    /\ UNCHANGED <<buf, head, tail, cTail, cSawRow, pVars>>

(* The release store of head_ is forgotten. *)
PopKeeps ==
    /\ cpc = "publish"
    /\ cpc' = "idle"
    /\ UNCHANGED <<buf, head, tail, cTail, cSawRow, out, pVars>>

PopPublish ==
    /\ cpc = "publish"
    /\ head' = Advance(head)
    /\ cpc' = "idle"
    /\ UNCHANGED <<buf, tail, cTail, cSawRow, out, pVars>>

ConsumerEmpty ==
    /\ cpc = "idle"
    /\ \E t \in Loads(cTail, tail) : cTail' = t /\ cSawRow' = ~Empty(t)
    /\ UNCHANGED <<buf, head, tail, cpc, out, pVars>>

-----------------------------------------------------------------------------
Producer ==
    \/ PushFull
    \/ \E v \in Values : PushAccept(v)
    \/ PushStore
    \/ PushPublish
    \/ ProducerEmpty

Consumer ==
    \/ PopEmpty
    \/ PopAccept
    \/ PopRead
    \/ PopPublish
    \/ ConsumerEmpty

Next == Producer \/ Consumer

Spec == Init /\ [][Next]_vars

-----------------------------------------------------------------------------
(* The indices never lap one another: going round the ring one meets what  *)
(* the producer believes head_ to be, head_ itself, what the consumer      *)
(* believes tail_ to be, and tail_, within one turn.  This is what the     *)
(* sacrificed slot and the two acquire loads of spsc.hpp are for; it must  *)
(* survive every mix of stale loads on the two cores.                      *)
IndexOrder ==
    Dist(pHead, head) + Dist(head, cTail) + Dist(cTail, tail) = Dist(pHead, tail)

(* The producer never writes the slot the consumer is reading: no data     *)
(* race on the plain (non-atomic) array elements of spsc.hpp.              *)
NoDataRace == ~(ppc = "store" /\ cpc = "read" /\ tail = head)

(* An answer of empty() that its caller can act on stays right until that  *)
(* caller acts: TRUE for the producer, FALSE for the consumer, whose next  *)
(* pop() then cannot fail whatever stale index it loads ("Safe to call     *)
(* from either side").                                                     *)
EmptyAnswerHolds ==
    /\ pSawEmpty => head = tail
    /\ cSawRow => \A t \in Loads(cTail, tail) : ~Empty(t)

(* The rows in the ring, oldest first.  A value is taken when pop() has    *)
(* copied it, before the slot is released.                                 *)
First == IF cpc = "publish" THEN Advance(head) ELSE head
Queue == [i \in 1 .. Dist(First, tail) |-> buf[(First + (i - 1)) % N]]

Fifo == INSTANCE BoundedFifo WITH
            queue <- Queue, out <- out, Capacity <- N - 1

(* The ring is a first-in first-out queue of N-1 rows: nothing is lost,    *)
(* duplicated, reordered or read half-written once push() returned TRUE.   *)
IsFifo == Fifo!Spec
=============================================================================
