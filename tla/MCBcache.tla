------------------------------ MODULE MCBcache ------------------------------
(* An instance of Bcache.                                                  *)
EXTENDS Bcache, TLC

CONSTANTS p1, p2, p3, f1, f2, f3

MCValues == {n : n \in Blocks} \cup {-n : n \in Blocks} \cup {0}
Symmetry == Permutations(Procs) \cup Permutations(Bufs)
=============================================================================
