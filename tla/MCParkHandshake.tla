-------------------------- MODULE MCParkHandshake ---------------------------
(* Time in units in which a read takes two, the shortest step one; the      *)
(* proportions satisfy the assumptions with as little room as they allow.   *)
EXTENDS ParkHandshake
=============================================================================
