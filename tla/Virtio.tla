------------------------------- MODULE Virtio -------------------------------
(***************************************************************************)
(* The disk driver (kernel/virtio_disk.c) and the device at the other end  *)
(* of its rings: threads in virtio_disk_rw(), the interrupt handler, and a *)
(* device that serves the requests of the avail ring in any order, reports *)
(* each in the used ring and then raises its interrupt.                    *)
(*                                                                         *)
(* vdisk_lock makes a step of what virtio_disk_rw() does between two       *)
(* sleeps.  The device does not take the lock, so the interrupt handler is *)
(* one step per ring entry.                                                *)
(*                                                                         *)
(* A descriptor that points at a request header (disk.ops) is modelled by  *)
(* what the header says.  The used ring is modelled by the entries that    *)
(* the driver has not looked at yet, the avail ring by the requests that   *)
(* the device has not served.  There are never more than NUM of them, so   *)
(* no entry is overwritten; and NUM divides 2^16, so that ring[idx % NUM]  *)
(* is the next entry also when the uint16 idx wraps around.                *)
(***************************************************************************)
EXTENDS Integers, FiniteSets, Functions, Sequences

CONSTANTS
  Procs,      \* threads, each with a buffer whose lock it holds
  Writers,    \* bound: those of them that write; the others read
  Blocks,     \* block numbers
  Uses,       \* bound: <<p, n>> if thread p uses block n
  NUM,        \* descriptors, and entries of each ring
  NoBuf, NoProc

\* What a block holds: at first 0, and what a thread writes there is its name.
Values == Writers \cup {0}

ASSUME VirtioAssumption ==
  /\ NUM \in Nat /\ NUM >= 3
  /\ NoBuf \notin Procs /\ NoProc \notin Procs

Descs == 0..(NUM - 1)
NoHead == -1

VARIABLES
  free, desc, info,       \* struct disk
  avail, used,            \* the rings
  vlock,                  \* who holds vdisk_lock across steps: the handler
  pc,                     \* where a thread is
  arg,                    \* the request: write or not, the block, idx[0]
  data, owned,            \* the thread's buffer: data and disk
  disk, due, isr          \* the device: what the blocks hold, an interrupt that
                          \* it has to raise, InterruptStatus

driver == <<free, desc, info, vlock>>
rings == <<avail, used>>
device == <<disk, due, isr>>
vars == <<driver, rings, pc, arg, data, owned, device>>

NoDesc == [addr |-> NoBuf, write |-> 0, next |-> NoHead]
NoArg == [write |-> 0, n |-> 0, head |-> NoHead]

\* virtio_disk_init(): all NUM descriptors start out unused.
Init ==
  /\ free = [i \in Descs |-> 1]
  /\ desc = [i \in Descs |-> NoDesc]
  /\ info = [i \in Descs |-> [b |-> NoBuf, status |-> 0]]
  /\ avail = {} /\ used = <<>>
  /\ vlock = NoProc
  /\ pc = [p \in Procs |-> "idle"] /\ arg = [p \in Procs |-> NoArg]
  /\ owned = [p \in Procs |-> 0]
  /\ data = [p \in Procs |-> IF p \in Writers THEN p ELSE 0]
  /\ disk = [n \in Blocks |-> 0]
  /\ due = 0 /\ isr = 0

Goto(p, label) == pc' = [pc EXCEPT ![p] = label]

-----------------------------------------------------------------------------
(* virtio_disk_rw().                                                       *)

Call(p, n) ==
  /\ pc[p] = "idle" /\ <<p, n>> \in Uses
  /\ arg' = [arg EXCEPT ![p] = [NoArg EXCEPT !.n = n,
                                  !.write = IF p \in Writers THEN 1 ELSE 0]]
  /\ Goto(p, "alloc")
  /\ UNCHANGED <<driver, rings, data, owned, device>>

FreeDescs == {i \in Descs : free[i] = 1}

\* alloc_desc() with the descriptors of S free: the lowest one.
alloc_desc(S) == CHOOSE i \in S : \A j \in S : i <= j

alloc3_desc ==
  LET i0 == alloc_desc(FreeDescs)
      i1 == alloc_desc(FreeDescs \ {i0})
  IN <<i0, i1, alloc_desc(FreeDescs \ {i0, i1})>>

\* wakeup(&disk.free[0]).
DescWaiters_Nobody(f) == f
DescWaiters(f) == [q \in Procs |-> IF f[q] = "nodesc" THEN "alloc" ELSE f[q]]

\* Too few descriptors are free.  Those that alloc3_desc() got it frees again,
\* and free_desc() wakes whoever waits for one.
NoDescs(p) ==
  /\ pc[p] = "alloc" /\ vlock = NoProc
  /\ Cardinality(FreeDescs) < 3
  /\ pc' = [(IF FreeDescs = {} THEN pc ELSE DescWaiters(pc)) EXCEPT ![p] = "nodesc"]
  /\ UNCHANGED <<driver, rings, arg, data, owned, device>>

\* The chain of three descriptors: header, data, status.
Chain_Reads(d, p) ==
  [desc EXCEPT
     ![d[1]] = [addr |-> [write |-> 0, sector |-> arg[p].n],
                write |-> 0, next |-> d[2]],
     ![d[2]] = [addr |-> p, write |-> 1 - arg[p].write, next |-> d[3]],
     ![d[3]] = [addr |-> "status", write |-> 1, next |-> NoHead]]
Chain(d, p) ==
  [desc EXCEPT
     ![d[1]] = [addr |-> [write |-> arg[p].write, sector |-> arg[p].n],
                write |-> 0, next |-> d[2]],
     ![d[2]] = [addr |-> p, write |-> 1 - arg[p].write, next |-> d[3]],
     ![d[3]] = [addr |-> "status", write |-> 1, next |-> NoHead]]

\* The request is put into the avail ring, and the thread sleeps on b.
Submit(p) ==
  /\ pc[p] = "alloc" /\ vlock = NoProc
  /\ Cardinality(FreeDescs) >= 3
  /\ LET d == alloc3_desc
     IN /\ free' = [i \in Descs |-> IF i \in Range(d) THEN 0 ELSE free[i]]
        /\ desc' = Chain(d, p)
        /\ info' = [info EXCEPT ![d[1]] = [b |-> p, status |-> 255]]
        /\ avail' = avail \cup {d[1]}
        /\ arg' = [arg EXCEPT ![p].head = d[1]]
  /\ owned' = [owned EXCEPT ![p] = 1]
  /\ Goto(p, "sleep")
  /\ UNCHANGED <<used, vlock, data, device>>

\* while(b->disk == 1) sleep(b, ...): kkill() wakes sleepers, too.
IsOwned(p) == owned[p] = 1

Resleep(p) ==
  /\ pc[p] = "awake" /\ vlock = NoProc
  /\ IsOwned(p)
  /\ Goto(p, "sleep")
  /\ UNCHANGED <<driver, rings, arg, data, owned, device>>

\* free_chain(): the descriptors that are linked to i.
ChainOf(i) ==
  LET i1 == desc[i].next
  IN {i, i1, desc[i1].next}

\* The chain is freed, and free_desc() wakes whoever waits for descriptors.
Finish(p) ==
  /\ pc[p] = "awake" /\ vlock = NoProc
  /\ ~IsOwned(p)
  /\ LET chain == ChainOf(arg[p].head)
     IN /\ free' = [i \in Descs |-> IF i \in chain THEN 1 ELSE free[i]]
        /\ desc' = [i \in Descs |-> IF i \in chain THEN NoDesc ELSE desc[i]]
  /\ info' = [info EXCEPT ![arg[p].head].b = NoBuf]
  /\ arg' = [arg EXCEPT ![p] = NoArg]
  /\ pc' = [DescWaiters(pc) EXCEPT ![p] = "idle"]
  /\ UNCHANGED <<vlock, rings, data, owned, device>>

\* kkill() makes a sleeper runnable.
KillWakes(p) ==
  /\ \/ pc[p] = "sleep" /\ Goto(p, "awake")
     \/ pc[p] = "nodesc" /\ Goto(p, "alloc")
  /\ UNCHANGED <<driver, rings, arg, data, owned, device>>

-----------------------------------------------------------------------------
(* virtio_disk_intr().                                                     *)

\* The interrupt is acknowledged before the used ring is looked at.
AckedAt_End(step) == step = "exit"
AckedAt(step) == step = "enter"

Intr ==
  /\ isr = 1 /\ vlock = NoProc
  /\ vlock' = "intr"
  /\ isr' = IF AckedAt("enter") THEN 0 ELSE isr
  /\ UNCHANGED <<free, desc, info, rings, pc, arg, data, owned, disk, due>>

\* One entry of the used ring: the buffer is the thread's again.
IntrEntry ==
  /\ vlock = "intr" /\ used # <<>>
  /\ LET b == info[Head(used)].b
     IN /\ owned' = [owned EXCEPT ![b] = 0]
        /\ pc' = [pc EXCEPT ![b] = IF @ = "sleep" THEN "awake" ELSE @]
  /\ used' = Tail(used)
  /\ UNCHANGED <<driver, avail, arg, data, device>>

\* The ring is empty; more may come before the lock is released.
IntrEmpty ==
  /\ vlock = "intr" /\ used = <<>>
  /\ vlock' = "leave"
  /\ UNCHANGED <<free, desc, info, rings, pc, arg, data, owned, device>>

IntrExit ==
  /\ vlock = "leave"
  /\ vlock' = NoProc
  /\ isr' = IF AckedAt("exit") THEN 0 ELSE isr
  /\ UNCHANGED <<free, desc, info, rings, pc, arg, data, owned, disk, due>>

-----------------------------------------------------------------------------
(* The device.                                                             *)

\* A request is served: the header tells what to do, the second descriptor
\* where the data is, the third where the status goes.
DeviceServe(h) ==
  /\ h \in avail
  /\ LET op == desc[h].addr
         b == desc[desc[h].next].addr
     IN IF op.write = 1
        THEN disk' = [disk EXCEPT ![op.sector] = data[b]] /\ UNCHANGED data
        ELSE data' = [data EXCEPT ![b] = disk[op.sector]] /\ UNCHANGED disk
  /\ info' = [info EXCEPT ![h].status = 0]
  /\ avail' = avail \ {h}
  /\ used' = Append(used, h)
  /\ due' = 1
  /\ UNCHANGED <<free, desc, vlock, pc, arg, owned, isr>>

DeviceInterrupt ==
  /\ due = 1
  /\ due' = 0 /\ isr' = 1
  /\ UNCHANGED <<driver, rings, pc, arg, data, owned, disk>>

-----------------------------------------------------------------------------
Thread(p) == NoDescs(p) \/ Submit(p) \/ Resleep(p) \/ Finish(p)
Handler == Intr \/ IntrEntry \/ IntrEmpty \/ IntrExit
Device == (\E h \in Descs : DeviceServe(h)) \/ DeviceInterrupt

Next ==
  \/ \E p \in Procs :
       \/ Thread(p) \/ KillWakes(p)
       \/ \E n \in Blocks : Call(p, n)
  \/ Handler \/ Device

Spec == Init /\ [][Next]_vars

\* The device serves what it is given, the handler runs when there is an
\* interrupt, a thread that can run runs, and one that spins for vdisk_lock
\* gets it.  Nobody has to read or write anything.
Fairness ==
  /\ WF_vars(DeviceInterrupt) /\ SF_vars(Intr) /\ WF_vars(Handler)
  /\ \A p \in Procs : /\ WF_vars(\E h \in Descs : info[h].b = p /\ DeviceServe(h))
                       /\ SF_vars(Submit(p) \/ Finish(p))
FairSpec == Spec /\ Fairness

-----------------------------------------------------------------------------
\* Types; a thread outside virtio_disk_rw() has no request.
TypeOK ==
  /\ free \in [Descs -> 0..1]
  /\ info \in [Descs -> [b : Procs \cup {NoBuf}, status : {0, 255}]]
  /\ avail \subseteq Descs /\ used \in Seq(Descs) /\ Len(used) <= NUM
  /\ vlock \in {NoProc, "intr", "leave"}
  /\ pc \in [Procs -> {"idle", "alloc", "nodesc", "sleep", "awake"}]
  /\ arg \in [Procs -> [write : 0..1, n : Blocks \cup {0}, head : Descs \cup {NoHead}]]
  /\ owned \in [Procs -> 0..1]
  /\ \A p \in Procs : pc[p] = "idle" => owned[p] = 0 /\ arg[p] = NoArg
  /\ data \in [Procs -> Values] /\ disk \in [Blocks -> Values]
  /\ due \in 0..1 /\ isr \in 0..1

\* The requests that the driver is waiting for.
Waiting == {p \in Procs : arg[p].head # NoHead}

\* A descriptor is free, or in the chain of exactly one request: alloc_desc()
\* and free_chain() neither leak one nor hand one out twice.
DescsAccounted ==
  /\ {i \in Descs : free[i] = 0} = UNION {ChainOf(arg[p].head) : p \in Waiting}
  /\ \A p, q \in Waiting :
       p # q => ChainOf(arg[p].head) \cap ChainOf(arg[q].head) = {}

\* Every completion in the used ring is of a request whose thread waits for
\* it, and the handler will look at it: an interrupt is pending, about to be
\* raised, or being handled.
NoLostCompletion ==
  /\ used # <<>> => isr = 1 \/ due = 1 \/ vlock = "intr"
  /\ \A h \in Range(used) :
       /\ info[h].status = 0
       /\ \E p \in Waiting : arg[p].head = h /\ info[h].b = p

\* No descriptor, request or completion is lost or counted twice.
Accounted == TypeOK /\ DescsAccounted /\ NoLostCompletion

\* The request of a thread, as bio.c sees it: until the device has served it,
\* until the call returns, and none.
Op(p) == IF arg[p].write = 1 THEN "write" ELSE "read"
Request(p) ==
  IF pc[p] = "idle" THEN [op |-> "none", b |-> NoBuf, n |-> 0]
  ELSE [op |-> IF p \in Waiting /\ info[arg[p].head].status = 0 THEN "done" ELSE Op(p),
        b |-> p, n |-> arg[p].n]

D == INSTANCE DiskIO WITH Bufs <- Procs, req <- [p \in Procs |-> Request(p)]

\* The driver keeps the promise of DiskIO: whatever the order in which the
\* device serves and the handler finds requests, each transfers its own
\* buffer from or to its own block, once, before its call returns.
Implements == D!DiskSpec

\* Every call returns, also when descriptors are short: two threads that wait
\* for descriptors may keep waking each other, and still both get theirs.
CallReturns == \A p \in Procs : pc[p] # "idle" ~> pc[p] = "idle"
=============================================================================
