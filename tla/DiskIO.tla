------------------------------- MODULE DiskIO -------------------------------
(* What virtio_disk_rw() promises to bio.c: a thread that hands a buffer to *)
(* the disk gets it back after the block was transferred, once, and between *)
(* the two nobody else touches the buffer.                                  *)
EXTENDS Integers

CONSTANTS
  Procs,      \* threads
  Bufs,       \* buffers
  Blocks,     \* block numbers
  Values,     \* what a block holds
  NoBuf

VARIABLES
  disk,       \* what the blocks hold
  data,       \* b->data
  req         \* the request that a thread waits for

dvars == <<disk, data, req>>

None == [op |-> "none", b |-> NoBuf, n |-> 0]

DiskInit ==
  /\ disk \in [Blocks -> Values]
  /\ data \in [Bufs -> Values]
  /\ req = [p \in Procs |-> None]

Call(p, op, b, n) ==
  /\ req[p] = None
  /\ \A q \in Procs : req[q].b # b
  /\ req' = [req EXCEPT ![p] = [op |-> op, b |-> b, n |-> n]]
  /\ UNCHANGED <<disk, data>>

Serve(p) ==
  /\ \/ /\ req[p].op = "read"
        /\ data' = [data EXCEPT ![req[p].b] = disk[req[p].n]]
        /\ UNCHANGED disk
     \/ /\ req[p].op = "write"
        /\ disk' = [disk EXCEPT ![req[p].n] = data[req[p].b]]
        /\ UNCHANGED data
  /\ req' = [req EXCEPT ![p].op = "done"]

Return(p) ==
  /\ req[p].op = "done"
  /\ req' = [req EXCEPT ![p] = None]
  /\ UNCHANGED <<disk, data>>

\* Whoever has a buffer may change it while the disk does not own it.
Touch(b, v) ==
  /\ \A p \in Procs : req[p].b # b
  /\ data' = [data EXCEPT ![b] = v]
  /\ UNCHANGED <<disk, req>>

DiskNext ==
  \/ \E p \in Procs :
       \/ \E op \in {"read", "write"}, b \in Bufs, n \in Blocks : Call(p, op, b, n)
       \/ Serve(p) \/ Return(p)
  \/ \E b \in Bufs, v \in Values : Touch(b, v)

DiskSpec == DiskInit /\ [][DiskNext]_dvars
=============================================================================
