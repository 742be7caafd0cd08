------------------------------- MODULE MCLog -------------------------------
(* Instances of Log for TLC. *)
EXTENDS Log

CONSTANTS p1, p2, b1, b2, b3, b4, b5, v1, v2

\* Operations that use all that begin_op() reserves for them.
QuotaExact == [p \in Ops |-> MAXOPBLOCKS]

\* checkpoint_proc() writes the header and every page in one operation: four
\* or more blocks for each page, and so more than the log holds for a process
\* of eight pages.
QuotaCheckpoint == [p \in Ops |-> LOGBLOCKS + 1]
=============================================================================
