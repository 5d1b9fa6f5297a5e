------------------------------ MODULE LastRows ------------------------------
(***************************************************************************)
(* What a hold keeps of an endless stream of rows: the last Size of them,  *)
(* in the order they came (core/hold_ring.hpp, header comment).            *)
(* Prober's row buffer of a hold is of this kind.                          *)
(***************************************************************************)
EXTENDS Naturals, Sequences

CONSTANTS
    Rows,       \* the rows, opaque here
    Size        \* how many are kept

VARIABLE window     \* the rows kept, oldest first

Init == window = <<>>

Keep(r) ==
    window' = Append(IF Len(window) < Size THEN window ELSE Tail(window), r)

Forget == window' = <<>>

Next == (\E r \in Rows : Keep(r)) \/ Forget

Spec == Init /\ [][Next]_window
=============================================================================
