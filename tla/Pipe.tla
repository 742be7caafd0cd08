-------------------------------- MODULE Pipe --------------------------------
(***************************************************************************)
(* A pipe (kernel/pipe.c): threads in pipewrite() and piperead(), a ring   *)
(* of PIPESIZE bytes with two counters that wrap around, and kill(), which *)
(* does not take the pipe's lock.  How a pipe is made, shared and freed is *)
(* in FileTable.                                                           *)
(*                                                                         *)
(* pi->lock makes a step of what lies between two looks at p->killed.      *)
(***************************************************************************)
EXTENDS Integers, Sequences, FiniteSets

CONSTANTS
  Writers, Readers,   \* threads that use the two ends
  PIPESIZE,           \* bytes of the ring
  Wrap,               \* the counters are uint: they count modulo Wrap
  Bytes,              \* what is written
  MaxN,               \* bound: bytes of one read() or write()
  Victims             \* bound: threads that are killed

ASSUME PipeAssumption ==
  /\ PIPESIZE \in Nat \ {0} /\ Wrap \in Nat
  /\ Wrap % PIPESIZE = 0 /\ Wrap > PIPESIZE
  /\ MaxN \in Nat
  /\ Victims \subseteq Writers \cup Readers
  /\ Writers \cap Readers = {}
  /\ "none" \notin Writers \cup Readers

Threads == Writers \cup Readers
NoOne == "none"

VARIABLES
  data, nread, nwrite, readopen, writeopen,    \* struct pipe
  lk,        \* who holds pi->lock
  pc,        \* where a thread is
  left,      \* n - i: the bytes it still has to move
  killed,    \* p->killed
  taken      \* the bytes that the last piperead() took out of the ring

ring == <<data, nread, nwrite>>
ends == <<readopen, writeopen>>
vars == <<data, nread, nwrite, readopen, writeopen, lk, pc, left, killed, taken>>

WriteLabels == {"w_acquire", "w_check", "w_put", "w_sleep"}
ReadLabels == {"r_acquire", "r_check", "r_wait", "r_sleep"}

\* Types.
TypeOK ==
  /\ data \in [0..(PIPESIZE - 1) -> Bytes]
  /\ nread \in 0..(Wrap - 1) /\ nwrite \in 0..(Wrap - 1)
  /\ readopen \in 0..1 /\ writeopen \in 0..1
  /\ lk \in Threads \cup {NoOne}
  /\ pc \in [Threads -> {"user"} \cup WriteLabels \cup ReadLabels]
  /\ left \in [Threads -> 0..MaxN]
  /\ killed \in [Threads -> 0..1]
  /\ taken \in Seq(Bytes) /\ Len(taken) <= PIPESIZE

\* Counters of type uint.
Plus(n, m) == (n + m) % Wrap

Count == (nwrite - nread) % Wrap
Empty == nread = nwrite

\* pi->nwrite == pi->nread + PIPESIZE.
Full_OffByOne == nwrite = Plus(nread, PIPESIZE + 1)
Full == nwrite = Plus(nread, PIPESIZE)

Init ==
  /\ data \in [0..(PIPESIZE - 1) -> Bytes]
  /\ nread = 0 /\ nwrite = 0
  /\ readopen = 1 /\ writeopen = 1
  /\ lk = NoOne
  /\ pc = [p \in Threads |-> "user"]
  /\ left = [p \in Threads |-> 0]
  /\ killed = [p \in Threads |-> 0]
  /\ taken = <<>>

\* wakeup(chan): the sleepers at this label go and take pi->lock again.
Woken(f, asleep, next) == [p \in Threads |-> IF f[p] = asleep THEN next ELSE f[p]]
WakeReaders(f) == Woken(f, "r_sleep", "r_acquire")
WakeWriters_Nobody(f) == f
WakeWriters(f) == Woken(f, "w_sleep", "w_acquire")

Goto(p, label) == pc' = [pc EXCEPT ![p] = label]

\* The system call ends; f is what the wakeups before have made of pc.
Return(p, f) ==
  /\ pc' = [f EXCEPT ![p] = "user"]
  /\ lk' = NoOne
  /\ left' = [left EXCEPT ![p] = 0]

Holds(p, label) == pc[p] = label /\ lk = p

\* A system call begins; a killed process does not get that far.
Call(p, n) ==
  /\ pc[p] = "user" /\ killed[p] = 0
  /\ \/ p \in Writers /\ writeopen = 1 /\ Goto(p, "w_acquire")
     \/ p \in Readers /\ readopen = 1 /\ Goto(p, "r_acquire")
  /\ left' = [left EXCEPT ![p] = n]
  /\ taken' = <<>>
  /\ UNCHANGED <<ring, ends, lk, killed>>

Acquire(p) ==
  /\ lk = NoOne
  /\ lk' = p
  /\ \/ pc[p] = "w_acquire" /\ Goto(p, "w_check")
     \/ pc[p] = "r_acquire" /\ Goto(p, "r_check")
  /\ UNCHANGED <<ring, ends, left, killed, taken>>

-----------------------------------------------------------------------------
(* pipewrite().                                                            *)

\* while(i < n): without a reader, or killed, the call fails.
WriteCheck(p) ==
  /\ Holds(p, "w_check") /\ left[p] > 0
  /\ IF readopen = 0 \/ killed[p] = 1
     THEN Return(p, pc)
     ELSE Goto(p, "w_put") /\ UNCHANGED <<lk, left>>
  /\ UNCHANGED <<ring, ends, killed, taken>>

WriteFull(p) ==
  /\ Holds(p, "w_put") /\ Full
  /\ pc' = [WakeReaders(pc) EXCEPT ![p] = "w_sleep"]
  /\ lk' = NoOne
  /\ UNCHANGED <<ring, ends, left, killed, taken>>

WriteByte(p, b) ==
  /\ Holds(p, "w_put") /\ ~Full
  /\ data' = [data EXCEPT ![nwrite % PIPESIZE] = b]
  /\ nwrite' = Plus(nwrite, 1)
  /\ left' = [left EXCEPT ![p] = @ - 1]
  /\ Goto(p, "w_check")
  /\ UNCHANGED <<nread, ends, lk, killed, taken>>

\* All is written; or copyin() has failed and the rest is left out.
WriteDone_NoWakeup(p) ==
  /\ \/ Holds(p, "w_check") /\ left[p] = 0
     \/ Holds(p, "w_put") /\ ~Full
  /\ Return(p, pc)
  /\ UNCHANGED <<ring, ends, killed, taken>>
WriteDone(p) ==
  /\ \/ Holds(p, "w_check") /\ left[p] = 0
     \/ Holds(p, "w_put") /\ ~Full
  /\ Return(p, WakeReaders(pc))
  /\ UNCHANGED <<ring, ends, killed, taken>>

-----------------------------------------------------------------------------
(* piperead().                                                             *)

\* Nothing to read, and there may yet be.
ReadCheck(p) ==
  /\ Holds(p, "r_check") /\ Empty /\ writeopen = 1
  /\ IF killed[p] = 1
     THEN Return(p, pc)
     ELSE Goto(p, "r_wait") /\ UNCHANGED <<lk, left>>
  /\ UNCHANGED <<ring, ends, killed, taken>>

ReadSleep(p) ==
  /\ Holds(p, "r_wait")
  /\ Goto(p, "r_sleep")
  /\ lk' = NoOne
  /\ UNCHANGED <<ring, ends, left, killed, taken>>

\* The copying loop takes m bytes: as many as were asked for and are there,
\* or fewer, the last of which is lost, when copyout() fails.
ReadCopy(p, m) ==
  /\ Holds(p, "r_check") /\ ~(Empty /\ writeopen = 1)
  /\ m <= left[p] /\ m <= Count
  /\ m = 0 => left[p] = 0 \/ Empty
  /\ taken' = [j \in 1..m |-> data[(nread + j - 1) % PIPESIZE]]
  /\ nread' = Plus(nread, m)
  /\ Return(p, WakeWriters(pc))
  /\ UNCHANGED <<data, nwrite, ends, killed>>

-----------------------------------------------------------------------------
\* pipeclose(): the last reference to an end goes, and so no thread is in a
\* system call on it.
CloseWrite ==
  /\ writeopen = 1 /\ lk = NoOne
  /\ \A p \in Writers : pc[p] = "user"
  /\ writeopen' = 0
  /\ pc' = WakeReaders(pc)
  /\ UNCHANGED <<ring, readopen, lk, left, killed, taken>>

CloseRead ==
  /\ readopen = 1 /\ lk = NoOne
  /\ \A p \in Readers : pc[p] = "user"
  /\ readopen' = 0
  /\ pc' = WakeWriters(pc)
  /\ UNCHANGED <<ring, writeopen, lk, left, killed, taken>>

\* kkill(): the flag, and a wakeup for a sleeper.
Kill(p) ==
  /\ killed[p] = 0
  /\ killed' = [killed EXCEPT ![p] = 1]
  /\ pc' = [pc EXCEPT ![p] = CASE @ = "w_sleep" -> "w_acquire"
                               [] @ = "r_sleep" -> "r_acquire"
                               [] OTHER -> @]
  /\ UNCHANGED <<ring, ends, lk, left, taken>>

Run(p) ==
  \/ Acquire(p)
  \/ WriteCheck(p) \/ WriteFull(p) \/ WriteDone(p)
  \/ \E b \in Bytes : WriteByte(p, b)
  \/ ReadCheck(p) \/ ReadSleep(p)
  \/ \E m \in 0..MaxN : ReadCopy(p, m)

Next ==
  \/ \E p \in Threads : Run(p) \/ \E n \in 0..MaxN : Call(p, n)
  \/ CloseWrite \/ CloseRead
  \/ \E p \in Victims : Kill(p)

Spec == Init /\ [][Next]_vars

\* The scheduler runs every thread that can run, and a thread that spins for
\* pi->lock gets it in the end.
Fairness == \A p \in Threads : WF_vars(Run(p)) /\ SF_vars(Acquire(p))
FairSpec == Spec /\ Fairness

-----------------------------------------------------------------------------
(* Properties.                                                             *)

Queue == [j \in 1..Count |-> data[(nread + j - 1) % PIPESIZE]]

Q == INSTANCE BoundedQueue WITH queue <- Queue, Capacity <- PIPESIZE

\* A pipe is a bounded queue: through wrapped counters and a wrapped ring,
\* with several readers and writers, bytes come out in order and once.
Fifo == Q!Spec

\* A writer sleeps only while the ring is full and somebody may read it.
FullSleeper == \A p \in Writers : pc[p] = "w_sleep" => Full /\ readopen = 1

\* A reader sleeps only while the pipe is empty and somebody may write to it,
\* but for the time in which a writer, with the pipe's lock, fills it; and but
\* for a writer that was killed: it returns without the wakeup for the bytes
\* it has left in the pipe.
EmptySleeper ==
  \A p \in Readers :
     pc[p] = "r_sleep" /\ lk = NoOne =>
       /\ writeopen = 1
       /\ Empty \/ \E w \in Writers : killed[w] = 1

\* Nobody sleeps on a pipe without a reason: the wakeups of pipewrite(),
\* piperead(), pipeclose() and kkill() leave no sleeper behind.
Sleepers == TypeOK /\ FullSleeper /\ EmptySleeper

\* Data that a reader waits for gets to it, or to another reader.
DataDelivered ==
  \A p \in Readers :
     pc[p] \in ReadLabels /\ ~Empty ~>
       pc[p] = "user" \/ Empty \/ \E w \in Writers : killed[w] = 1

\* When the last reader is gone every writer gets to know.
WriterReturns ==
  \A p \in Writers :
     pc[p] \in WriteLabels /\ readopen = 0 ~> pc[p] = "user"
=============================================================================
