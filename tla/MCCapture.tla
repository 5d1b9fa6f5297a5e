----------------------------- MODULE MCCapture ------------------------------
(* Two lines on a counter that wraps every three counts, over a bit more   *)
(* than two wraps; ring and output buffer small enough to fill.            *)
EXTENDS Capture
=============================================================================
