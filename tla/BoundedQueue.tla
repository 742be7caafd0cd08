---------------------------- MODULE BoundedQueue ----------------------------
(* What a pipe promises: a queue of at most Capacity bytes between two     *)
(* ends.  Bytes come out in the order in which they went in, each of them  *)
(* once, and none goes in after the read end is closed.                    *)
EXTENDS Integers, Sequences

CONSTANTS Capacity, Bytes

VARIABLES
  queue,      \* the bytes under way
  readopen, writeopen,
  taken       \* the bytes that the last read() took out

vars == <<queue, readopen, writeopen, taken>>

Init == queue = <<>> /\ readopen = 1 /\ writeopen = 1 /\ taken = <<>>

Put(b) ==
  /\ writeopen = 1 /\ readopen = 1
  /\ Len(queue) < Capacity
  /\ queue' = Append(queue, b)
  /\ UNCHANGED <<readopen, writeopen, taken>>

\* A read() finds the queue empty only when it will stay empty.
Take(n) ==
  /\ readopen = 1
  /\ queue = <<>> => writeopen = 0
  /\ taken' = SubSeq(queue, 1, n)
  /\ queue' = SubSeq(queue, n + 1, Len(queue))
  /\ UNCHANGED <<readopen, writeopen>>

Close ==
  /\ \/ readopen = 1 /\ readopen' = 0 /\ UNCHANGED writeopen
     \/ writeopen = 1 /\ writeopen' = 0 /\ UNCHANGED readopen
  /\ UNCHANGED <<queue, taken>>

\* The reader has the bytes it has read.
Delivered == taken' = <<>> /\ UNCHANGED <<queue, readopen, writeopen>>

Next ==
  \/ Delivered
  \/ \E b \in Bytes : Put(b)
  \/ \E n \in 0..Len(queue) : Take(n)
  \/ Close

Spec == Init /\ [][Next]_vars
=============================================================================
