-------------------------------- MODULE Log --------------------------------
(***************************************************************************)
(* The write-ahead log of kernel/log.c with the part of the buffer cache   *)
(* (kernel/bio.c) it depends on: which blocks are cached, which are pinned.*)
(*                                                                         *)
(* Several threads bracket file system operations with begin_op() and      *)
(* end_op(); the last end_op() commits for all of them, one disk write per *)
(* step; the machine may stop before any step and recovers at its next     *)
(* boot.  A block is two 512-byte sectors (virtio_disk.c:218), so a stop   *)
(* during a write may leave the block Torn; the header of the log fits in  *)
(* its first sector and is written whole or not at all.                    *)
(*                                                                         *)
(* Steps are atomic where the code holds log.lock, or the sleep lock of    *)
(* the one buffer it works on.                                             *)
(***************************************************************************)
EXTENDS Integers, Sequences, FiniteSets

CONSTANTS
  Ops,          \* threads that run file system operations
  Blocks,       \* home blocks, the ones outside the log
  Values,       \* contents of a block
  LOGBLOCKS,    \* data blocks in the on-disk log (param.h)
  MAXOPBLOCKS,  \* blocks begin_op() reserves for an operation (param.h)
  Quota,        \* Quota[p]: blocks that the operations of p add to the log
  NoBuf,        \* the block is not in the buffer cache
  Torn          \* the contents of a block whose write was cut short

ASSUME LogAssumption ==
  /\ IsFiniteSet(Ops)
  /\ LOGBLOCKS \in Nat
  /\ MAXOPBLOCKS \in Nat
  /\ Quota \in [Ops -> Nat]
  /\ NoBuf \notin Values
  /\ Torn \notin Values
  /\ NoBuf # Torn

VARIABLES
  \* on the disk
  disk,         \* contents of the home blocks
  dlog,         \* contents of the log's data blocks
  dhead,        \* the block numbers in the log's header block
  \* in memory
  cache,        \* buffer contents of each home block, or NoBuf
  pins,         \* references of log_write() in the refcnt of each buffer
  lh,           \* log.lh: the blocks of the current transaction, in order
  outstanding,  \* log.outstanding
  committing,   \* log.committing
  phase,        \* where recover_from_log() or commit() is, or "panic"
  tail,         \* blocks already copied by write_log() or install_trans()
  pc,           \* where each thread is
  used          \* blocks each operation has added to the log

diskVars == <<disk, dlog, dhead>>
opVars == <<pc, used>>
vars == <<disk, dlog, dhead, cache, pins, lh, outstanding, committing,
          phase, tail, pc, used>>

Recovery == {"read_head", "recover"}
CommitPhase == {"write_log", "write_head", "install", "clear", "done"}
Contents == Values \cup {Torn}

\* No two entries are the same.
Distinct(s) == \A i, j \in DOMAIN s : s[i] = s[j] => i = j
Entries(s) == {s[i] : i \in DOMAIN s}

TypeOK ==
  /\ disk \in [Blocks -> Contents]
  /\ dlog \in [1..LOGBLOCKS -> Contents]
  /\ dhead \in Seq(Blocks)
  /\ cache \in [Blocks -> Contents \cup {NoBuf}]
  /\ pins \in [Blocks -> Nat]
  /\ lh \in Seq(Blocks)
  /\ outstanding \in Int
  /\ committing \in {0, 1}
  /\ phase \in Recovery \cup {"up", "panic"} \cup CommitPhase
  /\ tail \in Nat
  /\ pc \in [Ops -> {"idle", "begin", "sleep", "active", "commit"}]
  /\ used \in [Ops -> Nat]

Running == phase \notin Recovery \cup {"panic"}

-----------------------------------------------------------------------------
(* The disk as mkfs leaves it: an empty log, every block complete.         *)

Init ==
  /\ disk \in [Blocks -> Values]
  /\ dlog \in [1..LOGBLOCKS -> Values]
  /\ dhead = <<>>
  /\ cache = [b \in Blocks |-> NoBuf]
  /\ pins = [b \in Blocks |-> 0]
  /\ lh = <<>>
  /\ outstanding = 0
  /\ committing = 0
  /\ phase = "read_head"
  /\ tail = 0
  /\ pc = [p \in Ops |-> "idle"]
  /\ used = [p \in Ops |-> 0]

-----------------------------------------------------------------------------
(* The buffer cache, as the log sees it.                                   *)

\* bread(): the cached contents, or those of the disk.
View(b) == IF cache[b] = NoBuf THEN disk[b] ELSE cache[b]

\* A reader outside any operation (fileread) brings a block in.
Bread(b) ==
  /\ Running
  /\ cache[b] = NoBuf
  /\ cache' = [cache EXCEPT ![b] = View(b)]
  /\ UNCHANGED <<diskVars, pins, lh, outstanding, committing, phase, tail,
                 opVars>>

\* bget() recycles a buffer nobody refers to; its contents are dropped.
Recyclable_Pinned(b) == cache[b] # NoBuf
Recyclable(b) == cache[b] # NoBuf /\ pins[b] = 0

Recycle(b) ==
  /\ Running
  /\ Recyclable(b)
  /\ cache' = [cache EXCEPT ![b] = NoBuf]
  /\ UNCHANGED <<diskVars, pins, lh, outstanding, committing, phase, tail,
                 opVars>>

-----------------------------------------------------------------------------
(* Operations.                                                             *)

\* This operation might exhaust the log's space.
LogFull_OffByOne == Len(lh) + outstanding * MAXOPBLOCKS > LOGBLOCKS
LogFull == Len(lh) + (outstanding + 1) * MAXOPBLOCKS > LOGBLOCKS

\* One turn of the loop of begin_op().
BeginOp(p) ==
  /\ Running
  /\ pc[p] \in {"idle", "begin"}
  /\ IF committing = 1 \/ LogFull
     THEN /\ pc' = [pc EXCEPT ![p] = "sleep"]
          /\ UNCHANGED <<outstanding, used>>
     ELSE /\ pc' = [pc EXCEPT ![p] = "active"]
          /\ outstanding' = outstanding + 1
          /\ used' = [used EXCEPT ![p] = 0]
  /\ UNCHANGED <<diskVars, cache, pins, lh, committing, phase, tail>>

\* bread(), a change to the data, log_write(), brelse(): the buffer is
\* locked throughout.  The operation stays within its quota.
LogWrite(p, b, v) ==
  LET new == b \notin Entries(lh)
      panic == Len(lh) >= LOGBLOCKS \/ outstanding < 1
  IN /\ Running
     /\ pc[p] = "active"
     /\ new => used[p] < Quota[p]
     /\ cache' = [cache EXCEPT ![b] = v]
     /\ phase' = IF panic THEN "panic" ELSE phase
     /\ IF new /\ ~panic
        THEN /\ lh' = Append(lh, b)
             /\ pins' = [pins EXCEPT ![b] = @ + 1]
             /\ used' = [used EXCEPT ![p] = @ + 1]
        ELSE UNCHANGED <<lh, pins, used>>
     /\ UNCHANGED <<diskVars, outstanding, committing, tail, pc>>

\* wakeup(&log): the sleepers run the loop of begin_op() again.
Woken_Nobody(f) == f
Woken(f) == [p \in Ops |-> IF f[p] = "sleep" THEN "begin" ELSE f[p]]

\* end_op() up to its first release().
EndOp(p) ==
  /\ Running
  /\ pc[p] = "active"
  /\ outstanding' = outstanding - 1
  /\ IF committing = 1
     THEN /\ phase' = "panic"
          /\ UNCHANGED <<pc, committing, tail>>
     ELSE IF outstanding' = 0
     THEN /\ committing' = 1
          /\ pc' = [pc EXCEPT ![p] = "commit"]
          /\ phase' = IF Len(lh) > 0 THEN "write_log" ELSE "done"
          /\ tail' = 0
     ELSE /\ pc' = Woken([pc EXCEPT ![p] = "idle"])
          /\ UNCHANGED <<committing, phase, tail>>
  /\ UNCHANGED <<diskVars, cache, pins, lh, used>>

-----------------------------------------------------------------------------
(* commit(), one disk write at a time.                                     *)

\* What commit() does once every block is in the log.
AfterWriteLog_NoHead == "install"
AfterWriteLog == "write_head"

\* One turn of the loop of write_log().
WriteLog ==
  /\ Running
  /\ phase = "write_log"
  /\ dlog' = [dlog EXCEPT ![tail + 1] = View(lh[tail + 1])]
  /\ cache' = [cache EXCEPT ![lh[tail + 1]] = View(lh[tail + 1])]
  /\ IF tail + 1 = Len(lh)
     THEN tail' = 0 /\ phase' = AfterWriteLog
     ELSE tail' = tail + 1 /\ phase' = phase
  /\ UNCHANGED <<disk, dhead, pins, lh, outstanding, committing, opVars>>

\* write_head() with the blocks of the transaction: the commit.
WriteHead ==
  /\ Running
  /\ phase = "write_head"
  /\ dhead' = lh
  /\ phase' = "install"
  /\ UNCHANGED <<disk, dlog, cache, pins, lh, outstanding, committing, tail,
                 opVars>>

\* bunpin(), unless recovering: recovery did not pin.
Unpin(b) == IF phase = "recover" THEN pins ELSE [pins EXCEPT ![b] = @ - 1]

\* One turn of the loop of install_trans(): copy, bwrite(), bunpin().
InstallBlock ==
  LET b == lh[tail + 1]
  IN /\ disk' = [disk EXCEPT ![b] = dlog[tail + 1]]
     /\ cache' = [cache EXCEPT ![b] = dlog[tail + 1]]
     /\ pins' = Unpin(b)
     /\ tail' = tail + 1

Install ==
  /\ Running
  /\ phase = "install"
  /\ InstallBlock
  /\ phase' = IF tail' = Len(lh) THEN "clear" ELSE phase
  /\ UNCHANGED <<dlog, dhead, lh, outstanding, committing, opVars>>

\* log.lh.n = 0; write_head(): the transaction is erased.
Clear ==
  /\ Running
  /\ phase = "clear"
  /\ lh' = <<>>
  /\ dhead' = <<>>
  /\ phase' = "done"
  /\ UNCHANGED <<disk, dlog, cache, pins, outstanding, committing, tail,
                 opVars>>

\* end_op() after commit() returned.
EndCommit(p) ==
  /\ Running
  /\ pc[p] = "commit"
  /\ phase = "done"
  /\ committing' = 0
  /\ pc' = Woken([pc EXCEPT ![p] = "idle"])
  /\ phase' = "up"
  /\ UNCHANGED <<diskVars, cache, pins, lh, outstanding, tail, used>>

-----------------------------------------------------------------------------
(* The machine stops, and boots again: initlog() runs before any           *)
(* operation.                                                              *)

\* What a block may hold when the write to it is cut short.
Tear(f, i) == {f, [f EXCEPT ![i] = Torn]}

Crash ==
  /\ dlog' \in IF phase = "write_log" THEN Tear(dlog, tail + 1) ELSE {dlog}
  /\ disk' \in IF phase = "install" \/ (phase = "recover" /\ tail < Len(lh))
               THEN Tear(disk, lh[tail + 1]) ELSE {disk}
  /\ cache' = [b \in Blocks |-> NoBuf]
  /\ pins' = [b \in Blocks |-> 0]
  /\ lh' = <<>>
  /\ outstanding' = 0
  /\ committing' = 0
  /\ phase' = "read_head"
  /\ tail' = 0
  /\ pc' = [p \in Ops |-> "idle"]
  /\ used' = [p \in Ops |-> 0]
  /\ UNCHANGED dhead

ReadHead ==
  /\ phase = "read_head"
  /\ lh' = dhead
  /\ tail' = 0
  /\ phase' = "recover"
  /\ UNCHANGED <<diskVars, cache, pins, outstanding, committing, opVars>>

\* install_trans(1).
MoreToInstall_OffByOne == tail + 1 < Len(lh)
MoreToInstall == tail < Len(lh)

RecoverBlock ==
  /\ phase = "recover"
  /\ MoreToInstall
  /\ InstallBlock
  /\ UNCHANGED <<dlog, dhead, lh, outstanding, committing, phase, opVars>>

\* log.lh.n = 0; write_head() in recover_from_log().
RecoverClear ==
  /\ phase = "recover"
  /\ ~MoreToInstall
  /\ lh' = <<>>
  /\ dhead' = <<>>
  /\ phase' = "up"
  /\ UNCHANGED <<disk, dlog, cache, pins, outstanding, committing, tail,
                 opVars>>

Next ==
  \/ \E p \in Ops : BeginOp(p) \/ EndOp(p) \/ EndCommit(p)
  \/ \E p \in Ops, b \in Blocks, v \in Values : LogWrite(p, b, v)
  \/ \E b \in Blocks : Bread(b) \/ Recycle(b)
  \/ WriteLog \/ WriteHead \/ Install \/ Clear
  \/ ReadHead \/ RecoverBlock \/ RecoverClear
  \/ Crash

Spec == Init /\ [][Next]_vars

\* Threads get the CPU, and an operation ends: system calls do not loop.  A
\* thread that never starts an operation is fine, and the machine that
\* crashes over and over need not finish its recovery.
Fairness ==
  /\ WF_vars(WriteLog \/ WriteHead \/ Install \/ Clear)
  /\ WF_vars(ReadHead \/ RecoverBlock \/ RecoverClear)
  /\ \A p \in Ops : /\ WF_vars(EndOp(p))
                    /\ WF_vars(EndCommit(p))
                    /\ WF_vars(pc[p] = "begin" /\ BeginOp(p))

FairSpec == Spec /\ Fairness

-----------------------------------------------------------------------------
(* Properties.                                                             *)

\* What a boot would leave in each home block: install_trans(1) applied to
\* the disk as it is.
Durable ==
  [b \in Blocks |->
     IF b \in Entries(dhead)
     THEN dlog[CHOOSE i \in DOMAIN dhead : dhead[i] = b]
     ELSE disk[b]]

Pending == IF phase \in Recovery THEN Durable ELSE [b \in Blocks |-> View(b)]

Active == {p \in Ops : pc[p] = "active"}

AD == INSTANCE AtomicDisk
        WITH durable <- Durable, pending <- Pending, active <- Active

\* log.c:10-16: file system operations take effect on the disk in groups,
\* all or nothing, wherever the machine stops, during recovery included, and
\* a commit never holds the writes of an operation still in progress.
AtomicGroups == AD!Spec

\* log_write() never calls panic("too big a transaction") nor
\* panic("log_write outside of trans"), and end_op() never calls
\* panic("log.committing").
NoPanic == phase # "panic"

\* The blocks that active operations may still add: <<p, i>> is the i-th
\* block of p, with f the control points and u the blocks used so far.
Slots == 1..MAXOPBLOCKS
ReservedOf(f, u) == {s \in Ops \X Slots : f[s[1]] = "active" /\ s[2] > u[s[1]]}
Reserved == ReservedOf(pc, used)

\* begin_op() reserves enough: what the log holds and all that the admitted
\* operations may still add fit into it, so that an operation finds room
\* whatever the others logged meanwhile.
ReservationHolds == Len(lh) + Cardinality(Reserved) <= LOGBLOCKS

\* Write-ahead: a home block changes on the disk only while the header holds
\* a committed transaction, and the log's data blocks only while it does not.
WriteAhead ==
  [][/\ disk' # disk => dhead # <<>>
     /\ dlog' # dlog => dhead = <<>>]_<<disk, dlog>>

\* No wakeup is lost: a thread asleep in begin_op() runs its loop again, or
\* the machine stops.
SleeperWakes ==
  \A p \in Ops : pc[p] = "sleep" ~> pc[p] # "sleep"

-----------------------------------------------------------------------------
(* The inductive invariant behind AtomicGroups.                            *)

\* Blocks of the transaction install_trans() has not reached yet.
Uninstalled ==
  {lh[i] : i \in {j \in DOMAIN lh : phase \in {"install", "clear"} => j > tail}}

\* Which header is on the disk at each point of commit() and of
\* recover_from_log(), and how far the copying loops are.
HeaderInv ==
  /\ Distinct(lh) /\ Distinct(dhead)
  /\ Len(lh) <= LOGBLOCKS /\ Len(dhead) <= LOGBLOCKS
  /\ phase \in {"up", "panic", "write_log", "write_head", "done"} => dhead = <<>>
  /\ phase \in {"install", "clear", "recover"} => dhead = lh
  /\ phase = "done" => lh = <<>>
  /\ phase \in {"write_log", "install"} => tail < Len(lh)
  /\ phase = "recover" => tail <= Len(lh)
  /\ phase = "write_head" => tail = 0 /\ Len(lh) > 0
  /\ phase = "clear" => tail = Len(lh)

\* The cache holds what differs from the disk, and pins it.
CacheInv ==
  \A b \in Blocks :
    /\ phase \in Recovery => pins[b] = 0
    /\ phase \notin Recovery =>
         pins[b] = IF b \in Uninstalled THEN 1 ELSE 0
    /\ phase # "panic" =>
         IF pins[b] = 0 THEN cache[b] \in {NoBuf, disk[b]} ELSE cache[b] # NoBuf
    /\ phase = "read_head" => cache[b] = NoBuf

\* The log holds what it must when the header says so.
CopyInv ==
  \A i \in DOMAIN lh :
    /\ phase = "write_log" /\ i <= tail => dlog[i] = cache[lh[i]]
    /\ phase = "write_head" => dlog[i] = cache[lh[i]]
    /\ phase = "install" /\ i > tail => dlog[i] = cache[lh[i]]
    /\ phase \in {"install", "clear", "recover"} /\ i <= tail =>
         disk[lh[i]] = dlog[i]

\* Nobody is inside an operation while the log commits or recovers.
QuietInv ==
  /\ committing = 1 <=> phase \in CommitPhase
  /\ phase \notin {"up", "panic"} => Active = {}
  /\ outstanding = Cardinality(Active)

\* AtomicGroups follows from this invariant; commit(), install_trans() and
\* recover_from_log() preserve it.
CrashInv == HeaderInv /\ CacheInv /\ CopyInv /\ QuietInv
=============================================================================
