----------------------------- MODULE MCConsole -----------------------------
(* Instances of Console.                                                   *)
EXTENDS Console

CONSTANTS r1, r2, q1

TwoReaders == [p \in {r1, r2} |-> IF p = r1 THEN 2 ELSE 1]
OneWriter == [q \in {q1} |-> 2]
=============================================================================
