------------------------------- MODULE MCPipe -------------------------------
(* Instances of Pipe.                                                      *)
EXTENDS Pipe

CONSTANTS w1, w2, r1
=============================================================================
