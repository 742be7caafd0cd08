----------------------------- MODULE AtomicDisk -----------------------------
(***************************************************************************)
(* What the logging layer (kernel/log.c) promises its callers: a disk on   *)
(* which groups of file system operations take effect all at once.         *)
(*                                                                         *)
(* durable is what a machine that stopped now would find on the disk after *)
(* its next boot; pending is what the running operations read and write.   *)
(* Nothing an operation wrote becomes durable while an operation is in     *)
(* progress, and then everything does, in one step.                        *)
(***************************************************************************)
CONSTANTS
  Ops,      \* threads that run file system operations
  Blocks,   \* home blocks
  Values    \* contents of a block

VARIABLES
  durable,  \* what survives a crash
  pending,  \* what the operations see
  active    \* operations between begin_op() and end_op()

vars == <<durable, pending, active>>

Init ==
  /\ durable \in [Blocks -> Values]
  /\ pending = durable
  /\ active = {}

Begin(p) ==
  /\ p \notin active
  /\ active' = active \cup {p}
  /\ UNCHANGED <<durable, pending>>

Write(p, b, v) ==
  /\ p \in active
  /\ pending' = [pending EXCEPT ![b] = v]
  /\ UNCHANGED <<durable, active>>

End(p) ==
  /\ p \in active
  /\ active' = active \ {p}
  /\ UNCHANGED <<durable, pending>>

\* The group commit: never in the middle of an operation.
Commit ==
  /\ active = {}
  /\ durable' = pending
  /\ UNCHANGED <<pending, active>>

\* The machine stops: what was not durable is gone, and nothing else is.
Crash ==
  /\ pending' = durable
  /\ active' = {}
  /\ UNCHANGED durable

Next ==
  \/ \E p \in Ops : Begin(p) \/ End(p)
  \/ \E p \in Ops, b \in Blocks, v \in Values : Write(p, b, v)
  \/ Commit
  \/ Crash

Spec == Init /\ [][Next]_vars
=============================================================================
