----------------------------- MODULE RecentRing -----------------------------
(***************************************************************************)
(* core/hold_ring.hpp: the overwrite-oldest ring core 0 drains a hold's    *)
(* rows into.  It is cleared when a run begins and read, oldest row first, *)
(* when the hold is flushed; only core 0 touches it.                       *)
(***************************************************************************)
EXTENDS Integers, Sequences

CONSTANTS
    N,          \* kHoldWindowRows
    Rows,       \* the rows, opaque here
    Blank       \* T{}: what the slots hold before they are written

(* static_assert(N > 0) *)
SizeAssumption == N \in Nat \ {0}

VARIABLES
    buf,        \* buf_
    head,       \* head_: the slot written next
    count       \* count_: valid entries

vars == <<buf, head, count>>

Slots == 0 .. N - 1

TypeOK ==
    /\ buf \in [Slots -> Rows \union {Blank}]
    /\ head \in Slots
    /\ count \in 0 .. N
    /\ count < N => head = count

Init == buf = [i \in Slots |-> Blank] /\ head = 0 /\ count = 0

Push(r) ==
    /\ buf' = [buf EXCEPT ![head] = r]
    /\ head' = (head + 1) % N
    /\ count' = IF count < N THEN count + 1 ELSE count

Clear == head' = 0 /\ count' = 0 /\ UNCHANGED buf

Next == (\E r \in Rows : Push(r)) \/ Clear

Spec == Init /\ [][Next]_vars

-----------------------------------------------------------------------------
(* for_each_chronological: what the visitor is called with, in order. *)
FirstSlot == 0                                 \* the order of the array
Oldest == IF count = N THEN head ELSE 0
Chronological == [k \in 1 .. count |-> buf[(Oldest + k - 1) % N]]

(* Whatever was pushed and however often the ring was cleared, a flush     *)
(* writes the last N rows since the last clear, oldest first               *)
(* (hold_ring.hpp:33-34).                                                  *)
Kept == INSTANCE LastRows WITH Size <- N, window <- Chronological
IsLastRows == Kept!Spec
=============================================================================
