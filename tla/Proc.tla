------------------------------- MODULE Proc -------------------------------
(***************************************************************************)
(* The process table of kernel/proc.c on several CPUs: fork, exit, wait,   *)
(* kill, the scheduler, sleep and wakeup, and what restore_proc() does to  *)
(* the table.                                                              *)
(*                                                                         *)
(* A critical section under one p->lock that acquires nothing else is one  *)
(* step, enabled when the lock is free.  A lock is held across steps where *)
(* the code acquires another one while holding it: wait_lock in exit and   *)
(* wait, np->lock in restore_proc().  A scan of the table is one step per  *)
(* slot.  A process gives up the CPU in two steps: it changes its state    *)
(* with p->lock held, and then sched() switches to the scheduler, which    *)
(* releases that lock.                                                     *)
(*                                                                         *)
(* Exit statuses, names, memory and files are left out; an allocation may  *)
(* fail.  Pids are bounded: forking stops when MaxPid has been used.       *)
(***************************************************************************)
EXTENDS Integers, FiniteSets

CONSTANTS
  NPROC,      \* slots of the process table (param.h)
  NCPU,       \* CPUs
  MaxPid,     \* bound: the largest pid handed out
  KillPids,   \* pids that processes pass to kill()
  Restorers   \* processes (slots) that call restore()

ASSUME ProcAssumption ==
  /\ NPROC \in Nat \ {0}
  /\ NCPU \in Nat
  /\ MaxPid \in Nat \ {0}
  /\ KillPids \subseteq Nat

Slots == 1..NPROC
CPUs == 1..NCPU
None == 0
initproc == 1

ASSUME RestorersAssumption == Restorers \subseteq Slots

VARIABLES
  proc,       \* struct proc: state, chan, killed, pid, parent
  nextpid,
  lock,       \* who holds p->lock across steps, or None
  wlock,      \* who holds wait_lock, or None
  cpu,        \* c->proc
  th          \* the kernel thread of each process: pc and locals

vars == <<proc, nextpid, lock, wlock, cpu, th>>

States == {"UNUSED", "USED", "SLEEPING", "RUNNABLE", "RUNNING", "ZOMBIE"}

Labels == {"user", "fork_alloc", "fork_parent", "fork_run", "exit", "reparent",
           "reparent_wakeup", "exit_wakeup", "zombie", "wait", "wait_scan",
           "wait_killed", "wait_sleep", "kill", "restore_alloc", "restore_mem",
           "restore_io", "restore_bad", "restore_lock", "restore_parent",
           "panic"}

\* Locals: idx runs over the table, widx is the loop of wakeup(), arg is np or
\* the pid to kill, kids is havekids.
TypeOK ==
  /\ proc \in [Slots -> [state : States, chan : Slots \cup {None},
                         killed : {0, 1}, pid : 0..MaxPid,
                         parent : Slots \cup {None}]]
  /\ nextpid \in 1..(MaxPid + 1)
  /\ lock \in [Slots -> Slots \cup {None}]
  /\ wlock \in Slots \cup {None}
  /\ cpu \in [CPUs -> Slots \cup {None}]
  /\ th \in [Slots -> [pc : Labels, idx : 0..(NPROC + 1),
                       widx : 0..(NPROC + 1), arg : Nat, kids : {0, 1}]]

\* freeproc() leaves this behind.
Unused == [state |-> "UNUSED", chan |-> None, killed |-> 0, pid |-> 0,
           parent |-> None]

User == [pc |-> "user", idx |-> 0, widx |-> 0, arg |-> 0, kids |-> 0]

\* procinit(), userinit() and the first fork child to be: init is runnable.
Init ==
  /\ proc = [p \in Slots |->
               IF p = initproc
               THEN [Unused EXCEPT !.state = "RUNNABLE", !.pid = 1]
               ELSE Unused]
  /\ nextpid = 2
  /\ lock = [p \in Slots |-> None]
  /\ wlock = None
  /\ cpu = [c \in CPUs |-> None]
  /\ th = [p \in Slots |-> User]

-----------------------------------------------------------------------------
(* Helpers.                                                                *)

OnCpu(p) == \E c \in CPUs : cpu[c] = p

\* A process holds its own lock across steps only on its way through sched().
InSched(p) == lock[p] = p

At(p, label) == OnCpu(p) /\ ~InSched(p) /\ th[p].pc = label

\* acquire(&q->lock) succeeds now.
Free(q) == lock[q] = None

Goto(p, label) == th' = [th EXCEPT ![p].pc = label]
Scan(p, label) == th' = [th EXCEPT ![p].pc = label, ![p].idx = 1]
NextSlot(p) == th' = [th EXCEPT ![p].idx = @ + 1]
Return(p) == th' = [th EXCEPT ![p] = User]

\* p changes its state with p->lock held, and calls sched() with the lock.
Sched(p, new) ==
  /\ Free(p)
  /\ proc' = [proc EXCEPT ![p] = new]
  /\ lock' = [lock EXCEPT ![p] = p]

-----------------------------------------------------------------------------
(* The scheduler, and the way into and out of the kernel.                  *)

\* scheduler(): run p.  It resumes in forkret(), yield() or sleep(), which
\* clears p->chan; each releases p->lock.
Chosen_Unlocked(p) == proc[p].state = "RUNNABLE"
Chosen(p) == Free(p) /\ proc[p].state = "RUNNABLE"

Run(c, p) ==
  /\ cpu[c] = None
  /\ Chosen(p)
  /\ proc' = [proc EXCEPT ![p].state = "RUNNING", ![p].chan = None]
  /\ cpu' = [cpu EXCEPT ![c] = p]
  /\ UNCHANGED <<nextpid, lock, wlock, th>>

\* swtch() back to the scheduler, which releases p->lock.
Swtch(c, p) ==
  /\ cpu[c] = p
  /\ InSched(p)
  /\ cpu' = [cpu EXCEPT ![c] = None]
  /\ lock' = [lock EXCEPT ![p] = None]
  /\ UNCHANGED <<proc, nextpid, wlock, th>>

\* The lock p acquires next: wait_lock or the lock of a slot.
WaitLockId == 0
Acquires(p, l) ==
  \/ /\ th[p].pc \in {"fork_parent", "wait", "restore_parent", "exit"}
     /\ l = WaitLockId
  \/ /\ th[p].pc \in {"reparent_wakeup", "exit_wakeup"}
     /\ l = th[p].widx /\ l # p
  \/ /\ th[p].pc \in {"fork_run", "restore_lock", "restore_bad"}
     /\ l = th[p].arg
  \/ /\ th[p].pc \in {"wait_scan", "kill", "fork_alloc", "restore_alloc"}
     /\ l = th[p].idx
     /\ th[p].pc = "wait_scan" => l \in Slots /\ proc[l].parent = p
  \/ /\ th[p].pc \in {"zombie", "wait_killed", "wait_sleep", "user"}
     /\ l = p

Holder(l) == IF l = WaitLockId THEN wlock ELSE lock[l]

\* p spins in acquire(), for a lock that q holds.
SpinsFor(p, q) ==
  /\ OnCpu(p) /\ ~InSched(p)
  /\ \E l \in Slots \cup {WaitLockId} : Acquires(p, l) /\ Holder(l) = q

\* A timer interrupt: yield().  Interrupts are off while p holds a lock or
\* spins for one.
Yield(p) ==
  /\ OnCpu(p)
  /\ wlock # p /\ \A q \in Slots : lock[q] # p
  /\ ~\E q \in Slots : SpinsFor(p, q)
  /\ th[p].pc # "panic"
  /\ Sched(p, [proc[p] EXCEPT !.state = "RUNNABLE"])
  /\ UNCHANGED <<nextpid, wlock, cpu, th>>

\* usertrap() finds the process killed, on a system call or on a timer
\* interrupt.
TrapKilled(p) ==
  /\ At(p, "user")
  /\ Free(p)
  /\ proc[p].killed = 1
  /\ Goto(p, "exit")
  /\ UNCHANGED <<proc, nextpid, lock, wlock, cpu>>

\* Pids not yet promised to a fork or a restore in progress.
PidLeft ==
  nextpid + Cardinality({q \in Slots :
                           th[q].pc \in {"fork_alloc", "restore_alloc"}})
    <= MaxPid

\* usertrap(): a system call of a process that is not killed.  init never
\* exits (user/init.c).
Syscall(p) ==
  /\ At(p, "user")
  /\ Free(p)
  /\ proc[p].killed = 0
  /\ \/ PidLeft /\ Scan(p, "fork_alloc")
     \/ p # initproc /\ Goto(p, "exit")
     \/ Goto(p, "wait")
     \/ \E k \in KillPids :
          th' = [th EXCEPT ![p].pc = "kill", ![p].idx = 1, ![p].arg = k]
     \/ p \in Restorers /\ PidLeft /\ Scan(p, "restore_alloc")
  /\ UNCHANGED <<proc, nextpid, lock, wlock, cpu>>

-----------------------------------------------------------------------------
(* fork, and the first part of restore.                                    *)

\* kfork() releases np->lock before it takes wait_lock.
ForkLock_Held(p, q) == [lock EXCEPT ![q] = p]
ForkLock(p, q) == lock

\* One slot of the scan of allocproc().  When it finds one, it takes a pid,
\* and then either fails (no memory: freeproc()) or returns it USED.  kfork()
\* goes on to copy the process and releases np->lock; restore_proc() keeps it.
Allocproc(p) ==
  LET q == th[p].idx
  IN /\ At(p, "fork_alloc") \/ At(p, "restore_alloc")
     /\ q <= NPROC
     /\ Free(q)
     /\ IF proc[q].state # "UNUSED"
        THEN NextSlot(p) /\ UNCHANGED <<proc, nextpid, lock>>
        ELSE /\ nextpid' = nextpid + 1
             /\ \/ /\ proc' = [proc EXCEPT ![q] = Unused]
                   /\ Return(p)
                   /\ UNCHANGED lock
                \/ /\ proc' = [proc EXCEPT ![q].state = "USED",
                                           ![q].pid = nextpid]
                   /\ IF th[p].pc = "fork_alloc"
                      THEN /\ th' = [th EXCEPT ![p].pc = "fork_parent",
                                               ![p].arg = q]
                           /\ lock' = ForkLock(p, q)
                      ELSE /\ th' = [th EXCEPT ![p].pc = "restore_mem",
                                               ![p].arg = q]
                           /\ lock' = [lock EXCEPT ![q] = p]
     /\ UNCHANGED <<wlock, cpu>>

\* No free slot: return -1.
AllocprocFull(p) ==
  /\ At(p, "fork_alloc") \/ At(p, "restore_alloc")
  /\ th[p].idx > NPROC
  /\ Return(p)
  /\ UNCHANGED <<proc, nextpid, lock, wlock, cpu>>

\* kfork(): acquire(&wait_lock); np->parent = p; release(&wait_lock).
ForkParent(p) ==
  /\ At(p, "fork_parent")
  /\ wlock = None
  /\ proc' = [proc EXCEPT ![th[p].arg].parent = p]
  /\ Goto(p, "fork_run")
  /\ UNCHANGED <<nextpid, lock, wlock, cpu>>

ForkRun(p) ==
  /\ At(p, "fork_run")
  /\ Free(th[p].arg)
  /\ proc' = [proc EXCEPT ![th[p].arg].state = "RUNNABLE"]
  /\ th' = [th EXCEPT ![p] = User, ![th[p].arg] = User]
  /\ UNCHANGED <<nextpid, lock, wlock, cpu>>

-----------------------------------------------------------------------------
(* exit.  wait_lock is held from ExitLock to Zombie.                       *)

\* The loop of wakeup(ch), one slot per step, for a caller p; at its end p
\* goes on at the label next with idx = i.
Wakeup(p, ch, next, i) ==
  LET q == th[p].widx
  IN /\ IF q > NPROC
        THEN /\ th' = [th EXCEPT ![p].pc = next, ![p].idx = i, ![p].widx = 0]
             /\ UNCHANGED proc
        ELSE /\ q # p => Free(q)
             /\ proc' = IF /\ q # p
                           /\ proc[q].state = "SLEEPING"
                           /\ proc[q].chan = ch
                        THEN [proc EXCEPT ![q].state = "RUNNABLE"]
                        ELSE proc
             /\ th' = [th EXCEPT ![p].widx = @ + 1]
     /\ UNCHANGED <<nextpid, lock, wlock, cpu>>

\* kexit() once its files are closed.
ExitLock(p) ==
  /\ At(p, "exit")
  /\ IF p = initproc
     THEN Goto(p, "panic") /\ UNCHANGED wlock
     ELSE wlock = None /\ wlock' = p /\ Scan(p, "reparent")
  /\ UNCHANGED <<proc, nextpid, lock, cpu>>

Abandoned(p, q) == proc[q].parent = p

AfterReparent(p) == [th EXCEPT ![p].pc = "reparent_wakeup", ![p].widx = 1]

\* One slot of reparent(): a child goes to init, and init is woken.
Reparent(p) ==
  LET q == th[p].idx
  IN /\ At(p, "reparent")
     /\ IF q > NPROC
        THEN /\ th' = [th EXCEPT ![p].pc = "exit_wakeup", ![p].widx = 1]
             /\ UNCHANGED proc
        ELSE IF Abandoned(p, q)
        THEN /\ proc' = [proc EXCEPT ![q].parent = initproc]
             /\ th' = AfterReparent(p)
        ELSE NextSlot(p) /\ UNCHANGED proc
     /\ UNCHANGED <<nextpid, lock, wlock, cpu>>

ReparentWakeup(p) ==
  At(p, "reparent_wakeup")
    /\ Wakeup(p, initproc, "reparent", th[p].idx + 1)

ExitWakeup(p) ==
  At(p, "exit_wakeup") /\ Wakeup(p, proc[p].parent, "zombie", 0)

\* ZOMBIE, release(&wait_lock), sched().
Zombie(p) ==
  /\ At(p, "zombie")
  /\ Sched(p, [proc[p] EXCEPT !.state = "ZOMBIE"])
  /\ wlock' = None
  /\ Return(p)
  /\ UNCHANGED <<nextpid, cpu>>

-----------------------------------------------------------------------------
(* wait.  wait_lock is held from WaitLock until it returns or sleeps.      *)

WaitLock(p) ==
  /\ At(p, "wait")
  /\ wlock = None
  /\ wlock' = p
  /\ th' = [th EXCEPT ![p].pc = "wait_scan", ![p].idx = 1, ![p].kids = 0]
  /\ UNCHANGED <<proc, nextpid, lock, cpu>>

\* freeproc() of a zombie.
Reaped_Kept(q) == proc
Reaped(q) == [proc EXCEPT ![q] = Unused]

\* One slot of the scan.  acquire(&pp->lock) makes sure that the child is not
\* still in exit() or swtch().  A zombie child ends the wait: it is freed, unless
\* copyout() of its status fails; init passes no address.
WaitScan(p) ==
  LET q == th[p].idx
  IN /\ At(p, "wait_scan")
     /\ q <= NPROC
     /\ IF proc[q].parent # p
        THEN NextSlot(p) /\ UNCHANGED <<proc, wlock>>
        ELSE /\ Free(q)
             /\ IF proc[q].state = "ZOMBIE"
                THEN /\ \/ proc' = Reaped(q)
                        \/ p # initproc /\ UNCHANGED proc
                     /\ wlock' = None
                     /\ Return(p)
                ELSE /\ th' = [th EXCEPT ![p].idx = @ + 1, ![p].kids = 1]
                     /\ UNCHANGED <<proc, wlock>>
     /\ UNCHANGED <<nextpid, lock, cpu>>

\* The end of the scan: no children, no point waiting.
WaitScanned(p) ==
  /\ At(p, "wait_scan")
  /\ th[p].idx > NPROC
  /\ IF th[p].kids = 0
     THEN wlock' = None /\ Return(p)
     ELSE Goto(p, "wait_killed") /\ UNCHANGED wlock
  /\ UNCHANGED <<proc, nextpid, lock, cpu>>

\* wait_lock stays held until sleep() has taken p->lock.
SleepHolds_Released(p) == None
SleepHolds(p) == p

\* killed(p) takes and releases p->lock.
WaitKilled(p) ==
  /\ At(p, "wait_killed")
  /\ Free(p)
  /\ IF proc[p].killed = 1
     THEN wlock' = None /\ Return(p)
     ELSE Goto(p, "wait_sleep") /\ wlock' = SleepHolds(p)
  /\ UNCHANGED <<proc, nextpid, lock, cpu>>

\* release(lk) in sleep().
SleepLock_Kept(p) == p
SleepLock(p) == None

\* sleep(p, &wait_lock): p->lock is taken before wait_lock is released.  When
\* p runs again it takes wait_lock and scans from the start.
WaitSleep(p) ==
  /\ At(p, "wait_sleep")
  /\ Sched(p, [proc[p] EXCEPT !.state = "SLEEPING", !.chan = p])
  /\ wlock' = SleepLock(p)
  /\ th' = [th EXCEPT ![p] = [User EXCEPT !.pc = "wait"]]
  /\ UNCHANGED <<nextpid, cpu>>

-----------------------------------------------------------------------------
(* kill.                                                                   *)

KillWakes(q) == proc[q].state = "SLEEPING"

\* One slot of the scan of kkill().
Kill(p) ==
  LET q == th[p].idx
  IN /\ At(p, "kill")
     /\ IF q > NPROC
        THEN Return(p) /\ UNCHANGED proc
        ELSE /\ Free(q)
             /\ IF proc[q].pid = th[p].arg
                THEN /\ proc' = [proc EXCEPT
                                   ![q].killed = 1,
                                   ![q].state = IF KillWakes(q)
                                                THEN "RUNNABLE" ELSE @]
                     /\ Return(p)
                ELSE NextSlot(p) /\ UNCHANGED proc
     /\ UNCHANGED <<nextpid, lock, wlock, cpu>>

-----------------------------------------------------------------------------
(* The rest of restore_proc().                                             *)

\* uvmalloc() with np->lock held.  When it fails, bad: acquires np->lock
\* again, and acquire() panics.
RestoreMem(p) ==
  /\ At(p, "restore_mem")
  /\ \/ Goto(p, "panic") /\ UNCHANGED lock
     \/ Goto(p, "restore_io") /\ lock' = [lock EXCEPT ![th[p].arg] = None]
  /\ UNCHANGED <<proc, nextpid, wlock, cpu>>

\* Pages, files, working directory and pipes, with no lock of the table held.
RestoreIO(p) ==
  /\ At(p, "restore_io")
  /\ Goto(p, "restore_bad") \/ Goto(p, "restore_lock")
  /\ UNCHANGED <<proc, nextpid, lock, wlock, cpu>>

RestoreBad(p) ==
  /\ At(p, "restore_bad")
  /\ Free(th[p].arg)
  /\ proc' = [proc EXCEPT ![th[p].arg] = Unused]
  /\ Return(p)
  /\ UNCHANGED <<nextpid, lock, wlock, cpu>>

RestoreLock(p) ==
  /\ At(p, "restore_lock")
  /\ Free(th[p].arg)
  /\ lock' = [lock EXCEPT ![th[p].arg] = p]
  /\ Goto(p, "restore_parent")
  /\ UNCHANGED <<proc, nextpid, wlock, cpu>>

RestoredParent_None(p) == proc[th[p].arg].parent
RestoredParent(p) == initproc

\* wait_lock with np->lock held; then RUNNABLE, and both are released.
RestoreParent(p) ==
  LET np == th[p].arg
  IN /\ At(p, "restore_parent")
     /\ wlock = None
     /\ proc' = [proc EXCEPT ![np].parent = RestoredParent(p),
                             ![np].state = "RUNNABLE"]
     /\ lock' = [lock EXCEPT ![np] = None]
     /\ th' = [th EXCEPT ![p] = User, ![np] = User]
     /\ UNCHANGED <<nextpid, wlock, cpu>>

-----------------------------------------------------------------------------
\* What the kernel does for p once p is in it.
KernelStep(p) ==
  \/ TrapKilled(p)
  \/ Allocproc(p) \/ AllocprocFull(p) \/ ForkParent(p) \/ ForkRun(p)
  \/ ExitLock(p) \/ Reparent(p) \/ ReparentWakeup(p) \/ ExitWakeup(p) \/ Zombie(p)
  \/ WaitLock(p) \/ WaitScan(p) \/ WaitScanned(p) \/ WaitKilled(p) \/ WaitSleep(p)
  \/ Kill(p)
  \/ RestoreMem(p) \/ RestoreIO(p) \/ RestoreBad(p) \/ RestoreLock(p)
  \/ RestoreParent(p)

Next ==
  \/ \E c \in CPUs, p \in Slots : Run(c, p) \/ Swtch(c, p)
  \/ \E p \in Slots : Yield(p) \/ Syscall(p) \/ KernelStep(p)

Spec == Init /\ [][Next]_vars

\* The scheduler's scan reaches every runnable process, a timer interrupt
\* stays pending while interrupts are off, a time slice is long enough to get
\* something done in, and a spinlock that keeps being released
\* is acquired in the end.  init calls wait() again and again (user/init.c);
\* no other process has to call anything.
Fairness ==
  /\ \A p \in Slots : /\ SF_vars(\E c \in CPUs : Run(c, p))
                       /\ WF_vars(\E c \in CPUs : Swtch(c, p))
                       /\ SF_vars(Yield(p))
                       /\ SF_vars(KernelStep(p))
  /\ SF_vars(Syscall(initproc) /\ th'[initproc].pc = "wait")

FairSpec == Spec /\ Fairness

-----------------------------------------------------------------------------
(* Properties.                                                             *)

\* A process runs on one CPU at a time, and is RUNNING exactly while it does,
\* but for its way through sched(): the scheduler of another CPU does not pick
\* a process that is not off its stack yet, wait() does not free one, and
\* neither wakeup() nor kkill() makes a running process runnable.
OneCpu ==
  \A p \in Slots :
    /\ Cardinality({c \in CPUs : cpu[c] = p}) <= 1
    /\ proc[p].state = "RUNNING" <=> OnCpu(p) /\ ~InSched(p)

\* sched() never panics "sched locks": a process that is off the CPU holds no
\* spinlock, and one that is giving it up holds only its own.
HolderRuns ==
  \A p \in Slots :
    /\ wlock = p => proc[p].state = "RUNNING"
    /\ \A q \in Slots :
         lock[q] = p => IF q = p THEN OnCpu(p) ELSE proc[p].state = "RUNNING"

\* A process that can run or has exited has a parent, forked or restored, and
\* a parent is a process that can still wait for its children: fork names the
\* parent before the child runs, exit hands its children to init before it
\* becomes a zombie, and a zombie is freed only with no child left.
NoOrphans ==
  \A p \in Slots \ {initproc} :
    /\ proc[p].state \notin {"UNUSED", "USED"} => proc[p].parent # None
    /\ proc[p].parent # None =>
         proc[proc[p].parent].state \notin {"UNUSED", "USED", "ZOMBIE"}

\* A process asleep in wait() has no zombie to collect, except while the exit
\* that will wake it is under way: the wakeup in kexit() and the one in
\* reparent() are never lost.
NoMissedExit ==
  wlock = None =>
    \A p, q \in Slots :
      /\ proc[p].state = "SLEEPING" /\ proc[p].chan = p
      /\ proc[q].parent = p
      => proc[q].state # "ZOMBIE"

\* A zombie that init has to collect, its own child or an orphan, is collected.
InitReaps ==
  \A p \in Slots :
    proc[p].state = "ZOMBIE" /\ proc[p].parent = initproc
      ~> proc[p].state = "UNUSED"

\* The only two processes that can wait for each other's spinlocks are a
\* restore() that wants wait_lock with np->lock held, and the holder of
\* wait_lock: fork, exit, wait and kill keep to the order of proc.c:27-30
\* among themselves.
CircleNeedsRestore ==
  \A p, q \in Slots :
    SpinsFor(p, q) /\ SpinsFor(q, p) =>
      "restore_parent" \in {th[p].pc, th[q].pc}
=============================================================================
