---------------------------- MODULE BoundedFifo ----------------------------
(***************************************************************************)
(* What the rows that cross from core 1 to core 0 may rely on: a first-in  *)
(* first-out queue that holds at most Capacity values.  app/spsc.hpp       *)
(* implements it with two indices and an array; Spsc.tla models that       *)
(* implementation and is shown to refine this specification.               *)
(***************************************************************************)
EXTENDS Naturals, Sequences

CONSTANTS
    Values,     \* what may be pushed
    Blank,      \* T{}: what the caller's variable holds before the first pop
    Capacity    \* how many values fit

VARIABLES
    queue,      \* the values pushed and not yet taken, oldest first
    out         \* the value the consumer took last

vars == <<queue, out>>

Init == queue = <<>> /\ out = Blank

(* push() that finds room. *)
Push(v) ==
    /\ Len(queue) < Capacity
    /\ queue' = Append(queue, v)
    /\ UNCHANGED out

(* pop() that finds a value. *)
Pop ==
    /\ queue # <<>>
    /\ out' = Head(queue)
    /\ queue' = Tail(queue)

(* A push() that finds the queue full and a pop() that finds it empty      *)
(* change nothing: they are stuttering steps.                              *)
Next == (\E v \in Values : Push(v)) \/ Pop

Spec == Init /\ [][Next]_vars
=============================================================================
