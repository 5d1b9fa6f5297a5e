----------------------------- MODULE MCHoldPath -----------------------------
(* The ring on four slots, the window on three and two rows that can be    *)
(* told apart: both fill, wrap and empty, and each core's view of the      *)
(* other can lag by a full ring.                                           *)
EXTENDS HoldPath
=============================================================================
