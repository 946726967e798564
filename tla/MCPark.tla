-------------------------------- MODULE MCPark --------------------------------
(* Small instances of Park for TLC: a tree of one or two processes, and the   *)
(* goroutines each configuration names.                                       *)
EXTENDS Park

CONSTANTS p1, p2
=============================================================================
