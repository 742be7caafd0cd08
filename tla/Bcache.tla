------------------------------- MODULE Bcache -------------------------------
(***************************************************************************)
(* The buffer cache (kernel/bio.c) with its sleep locks                    *)
(* (kernel/sleeplock.c), over what the disk driver promises (DiskIO).  Its *)
(* users are the threads of the file system: they read a block, change it, *)
(* and write it or hand it to the log, which pins it until it is installed *)
(* (kernel/log.c, of which only the use of bpin() and bunpin() is here).   *)
(*                                                                         *)
(* bcache.lock, and the spinlock inside a sleep lock, each make a step of  *)
(* what happens under them.                                                *)
(***************************************************************************)
EXTENDS DiskIO, FiniteSets

CONSTANTS
  MaxPinned,    \* bound: blocks of the log's current transaction
  Writable,     \* bound: the blocks that are changed
  NoProc

ASSUME BcacheAssumption ==
  /\ MaxPinned \in Nat
  /\ IsFiniteSet(Procs) /\ IsFiniteSet(Bufs) /\ Blocks \subseteq Nat \ {0}
  /\ Writable \subseteq Blocks
  /\ NoBuf \notin Bufs /\ NoProc \notin Procs

VARIABLES
  blockno, valid, refcnt,   \* struct buf: its block, has it been read, how
                            \* many use it
  lru,                      \* the linked list: the most recently used first
  holder,                   \* b->lock: the thread that holds it
  pc, buf,                  \* where a thread is, and the buffer it got
  pinned,                   \* the log's header: the blocks with a bpin() each
  content                   \* history: what the users of a block last made of it

vars == <<dvars, blockno, valid, refcnt, lru, holder, pc, buf, pinned, content>>

Listed(list) == {list[i] : i \in DOMAIN list}

\* binit(): dev 0 and block 0 are in every buffer, and block 0 is never asked
\* for.  The order of the list does not matter.
Init ==
  /\ data = [b \in Bufs |-> 0] /\ disk = [n \in Blocks |-> n]
  /\ req = [p \in Procs |-> None]
  /\ blockno = [b \in Bufs |-> 0]
  /\ valid = [b \in Bufs |-> 0] /\ refcnt = [b \in Bufs |-> 0]
  /\ lru \in [1..Cardinality(Bufs) -> Bufs] /\ Listed(lru) = Bufs
  /\ holder = [b \in Bufs |-> NoProc]
  /\ pc = [p \in Procs |-> "idle"] /\ buf = [p \in Procs |-> NoBuf]
  /\ pinned = {}
  /\ content = disk

Goto(p, label) == pc' = [pc EXCEPT ![p] = label]

-----------------------------------------------------------------------------
(* bget() and acquiresleep().                                              *)

\* Is the block already cached?
Cached(n) == {b \in Bufs : blockno[b] = n}
Unused == {i \in DOMAIN lru : refcnt[lru[i]] = 0}

BgetHit(p, n) ==
  /\ pc[p] = "idle"
  /\ \E b \in Cached(n) :
       /\ refcnt' = [refcnt EXCEPT ![b] = @ + 1]
       /\ buf' = [buf EXCEPT ![p] = b]
  /\ Goto(p, "lock")
  /\ UNCHANGED <<dvars, blockno, valid, lru, holder, pinned, content>>

\* What b->valid becomes when the buffer gets another block.
Recycled_Valid(b) == valid[b]
Recycled(b) == 0

\* The least recently used buffer that nobody uses.
BgetRecycle(p, n) ==
  /\ pc[p] = "idle"
  /\ Cached(n) = {}
  /\ \E i \in Unused :
     LET b == lru[i]
     IN /\ \A j \in Unused : j <= i
        /\ blockno' = [blockno EXCEPT ![b] = n]
        /\ valid' = [valid EXCEPT ![b] = Recycled(b)]
        /\ refcnt' = [refcnt EXCEPT ![b] = 1]
        /\ buf' = [buf EXCEPT ![p] = b]
  /\ Goto(p, "lock")
  /\ UNCHANGED <<dvars, lru, holder, pinned, content>>

BgetPanic(p, n) ==
  /\ pc[p] = "idle"
  /\ Cached(n) = {} /\ Unused = {}
  /\ Goto(p, "panic")
  /\ UNCHANGED <<dvars, blockno, valid, refcnt, lru, holder, buf, pinned, content>>

Acquiresleep_Unlocked(b) == TRUE
\* while(lk->locked) sleep(lk, ...).
Acquiresleep(b) == holder[b] = NoProc

LockSleep(p) ==
  /\ pc[p] = "lock" /\ ~Acquiresleep(buf[p])
  /\ Goto(p, "lock_sleep")
  /\ UNCHANGED <<dvars, blockno, valid, refcnt, lru, holder, buf, pinned, content>>

\* bread() goes on under the lock: a buffer that is not valid is read.
Lock(p) ==
  /\ pc[p] = "lock" /\ Acquiresleep(buf[p])
  /\ holder' = [holder EXCEPT ![buf[p]] = p]
  /\ IF valid[buf[p]] = 1
     THEN Goto(p, "using") /\ UNCHANGED dvars
     ELSE Goto(p, "read") /\ Call(p, "read", buf[p], blockno[buf[p]])
  /\ UNCHANGED <<blockno, valid, refcnt, lru, buf, pinned, content>>

\* bread(): virtio_disk_rw() returns.
BreadDone(p) ==
  /\ pc[p] = "read" /\ Return(p)
  /\ valid' = [valid EXCEPT ![buf[p]] = 1]
  /\ Goto(p, "using")
  /\ UNCHANGED <<blockno, refcnt, lru, holder, buf, pinned, content>>

-----------------------------------------------------------------------------
(* What a thread does with a buffer that it has.                           *)

\* Block n holds n or -n, so that no block can pass for another one.
Modify(p) ==
  /\ pc[p] = "using" /\ blockno[buf[p]] \in Writable
  /\ Touch(buf[p], -data[buf[p]])
  /\ content' = [content EXCEPT ![blockno[buf[p]]] = -@]
  /\ Goto(p, "modified")
  /\ UNCHANGED <<blockno, valid, refcnt, lru, holder, buf, pinned>>

\* bwrite() of a block that is not in the log, or that the log installs.
Bwrite(p) ==
  /\ \/ pc[p] = "modified" /\ blockno[buf[p]] \notin pinned
     \/ pc[p] = "using" /\ blockno[buf[p]] \in pinned
  /\ Call(p, "write", buf[p], blockno[buf[p]])
  /\ Goto(p, "write")
  /\ UNCHANGED <<blockno, valid, refcnt, lru, holder, buf, pinned, content>>

\* log_write(): a block that is not in the log yet is pinned.
LogWrite(p) ==
  LET n == blockno[buf[p]]
  IN /\ pc[p] = "modified"
     /\ n \in pinned \/ Cardinality(pinned) < MaxPinned
     /\ pinned' = pinned \cup {n}
     /\ refcnt' = IF n \in pinned THEN refcnt
                                  ELSE [refcnt EXCEPT ![buf[p]] = @ + 1]
     /\ Goto(p, "using")
     /\ UNCHANGED <<dvars, blockno, valid, lru, holder, buf, content>>

\* bwrite() returns; install_trans() then unpins the block.
Unpins_Never(n) == FALSE
Unpins(n) == n \in pinned

BwriteDone(p) ==
  LET n == blockno[buf[p]]
  IN /\ pc[p] = "write" /\ Return(p)
     /\ refcnt' = IF Unpins(n) THEN [refcnt EXCEPT ![buf[p]] = @ - 1] ELSE refcnt
     /\ pinned' = pinned \ {n}
     /\ Goto(p, "using")
     /\ UNCHANGED <<blockno, valid, lru, holder, buf, content>>

\* brelse(): releasesleep() wakes those who wait for the lock, ...
WakeLockers_Nobody(b) == pc
WakeLockers(b) ==
  [q \in Procs |-> IF pc[q] = "lock_sleep" /\ buf[q] = b THEN "lock" ELSE pc[q]]

Releasesleep(p) ==
  /\ pc[p] = "using"
  /\ holder' = [holder EXCEPT ![buf[p]] = NoProc]
  /\ pc' = [WakeLockers(buf[p]) EXCEPT ![p] = "unref"]
  /\ UNCHANGED <<dvars, blockno, valid, refcnt, lru, buf, pinned, content>>

\* The buffer is unlinked and put behind the list's head.
ToFront(b) ==
  LET at == CHOOSE i \in DOMAIN lru : lru[i] = b
  IN [i \in DOMAIN lru |-> CASE i = 1 -> b
                             [] i \in 2..at -> lru[i - 1]
                             [] OTHER -> lru[i]]

\* ... and the last user moves the buffer to the front of the list.
Unref(p) ==
  LET b == buf[p]
  IN /\ pc[p] = "unref"
     /\ refcnt' = [refcnt EXCEPT ![b] = @ - 1]
     /\ lru' = IF refcnt[b] = 1 THEN ToFront(b) ELSE lru
     /\ buf' = [buf EXCEPT ![p] = NoBuf]
     /\ Goto(p, "idle")
     /\ UNCHANGED <<dvars, blockno, valid, holder, pinned, content>>

\* kkill() wakes a thread that sleeps for the lock.
KillWakes(p) ==
  /\ pc[p] = "lock_sleep"
  /\ Goto(p, "lock")
  /\ UNCHANGED <<dvars, blockno, valid, refcnt, lru, holder, buf, pinned, content>>

\* The disk transfers the block.
Transfer(p) ==
  /\ Serve(p)
  /\ UNCHANGED <<blockno, valid, refcnt, lru, holder, pc, buf, pinned, content>>

-----------------------------------------------------------------------------
Bget(p) == \E n \in Blocks : BgetHit(p, n) \/ BgetRecycle(p, n) \/ BgetPanic(p, n)
Use(p) == Modify(p) \/ Bwrite(p) \/ LogWrite(p) \/ BwriteDone(p)

\* A panic stops the machine.
Panicked == \E p \in Procs : pc[p] = "panic"

Next ==
  /\ ~Panicked
  /\ \E p \in Procs :
       \/ Bget(p) \/ LockSleep(p) \/ Lock(p) \/ BreadDone(p)
       \/ Use(p) \/ Releasesleep(p) \/ Unref(p) \/ KillWakes(p) \/ Transfer(p)

Spec == Init /\ [][Next]_vars

-----------------------------------------------------------------------------
\* Whoever has a buffer from bread() sees what the last user of that block
\* left there, through recycling and the reads and writes of other threads.
Coherent ==
  \A p \in Procs :
    pc[p] \in {"using", "modified"} =>
      data[buf[p]] = content[blockno[buf[p]]]

\* A block that is neither in the log nor in use is on the disk as its last
\* user left it: what bwrite() did not write is never recycled.
Written ==
  \A n \in Blocks :
    \/ disk[n] = content[n] \/ n \in pinned
    \/ \E p \in Procs : buf[p] \in Cached(n) /\ holder[buf[p]] = p

\* bget() never puts a block into a second buffer.
OneBuffer ==
  \A b, c \in Bufs : blockno[b] = blockno[c] /\ blockno[b] # 0 => b = c

\* b->refcnt counts the threads between bget() and brelse() and the log's pin.
RefCounts ==
  \A b \in Bufs :
    refcnt[b] = Cardinality({p \in Procs : buf[p] = b})
                + (IF blockno[b] \in pinned THEN 1 ELSE 0)

\* With a buffer for every thread and every block of the log, bget() does not
\* panic: no reference outlives its use.
BuffersSuffice ==
  Cardinality(Bufs) >= Cardinality(Procs) + Cardinality(pinned) => ~Panicked

\* A thread sleeps in acquiresleep() only while another one holds the lock:
\* releasesleep() forgets nobody.
LockSleepers ==
  \A p \in Procs : pc[p] = "lock_sleep" => holder[buf[p]] \notin {p, NoProc}
=============================================================================
