------------------------------ MODULE MCProber ------------------------------
(* The two cores.  The size of the ring and of the buffer is below the rows *)
(* of a run, so that both overrun; the run mode is chosen when the model    *)
(* starts, among those the .cfg names.                                      *)
EXTENDS Prober
=============================================================================
