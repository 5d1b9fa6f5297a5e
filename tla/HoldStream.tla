----------------------------- MODULE HoldStream -----------------------------
(***************************************************************************)
(* What a hold promises of its rows: core 1 sends them one after another,  *)
(* and the window holds the last Size of those that arrived, oldest first; *)
(* what has been sent and has not arrived comes next, in order.            *)
(***************************************************************************)
EXTENDS Naturals, Sequences

CONSTANTS
    Values,     \* the rows, opaque here
    Size,       \* how many are kept
    Flight      \* how many may be on their way

VARIABLES
    kept,       \* the rows of the window, oldest first
    flight      \* the rows sent that have not reached it, oldest first

Init == kept = <<>> /\ flight = <<>>

(* A row that does not fit is not sent at all. *)
Send(v) ==
    /\ Len(flight) < Flight
    /\ flight' = Append(flight, v) /\ UNCHANGED kept

Arrive ==
    /\ flight # <<>>
    /\ kept' = Append(IF Len(kept) < Size THEN kept ELSE Tail(kept), Head(flight))
    /\ flight' = Tail(flight)

Forget == kept' = <<>> /\ UNCHANGED flight

Next == (\E v \in Values : Send(v)) \/ Arrive \/ Forget

Spec == Init /\ [][Next]_<<kept, flight>>
=============================================================================
