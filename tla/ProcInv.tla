------------------------------ MODULE ProcInv ------------------------------
(***************************************************************************)
(* The control invariant of Proc, for every number of slots and CPUs, any  *)
(* bound on the pids, any pids to kill and any processes that restore: who *)
(* runs where, who holds which spin lock, and whose slot is being filled.  *)
(* What rests on it, parents and exits, is in ProcProofs.                  *)
(***************************************************************************)
EXTENDS Proc, FiniteSetTheorems, TLAPS

\* The threads and the entries of the table.  TypeOK bounds the pids and the
\* loops too; nothing here depends on that.
Threads == [pc : Labels, idx : Nat, widx : Nat, arg : Nat, kids : {0, 1}]
Entries == [state : States, chan : Slots \cup {None}, killed : {0, 1},
            pid : Nat, parent : Slots \cup {None}]

\* A loop over the table is at one of its slots, or behind the last one.
Loops ==
  \A p \in Slots :
    /\ th[p].pc \in {"fork_alloc", "restore_alloc", "reparent", "wait_scan",
                     "kill"} => th[p].idx >= 1
    /\ th[p].pc = "reparent_wakeup" => th[p].idx \in Slots
    /\ th[p].pc \in {"reparent_wakeup", "exit_wakeup"} => th[p].widx >= 1

\* The types of the variables.
Types ==
  /\ proc \in [Slots -> Entries] /\ nextpid \in Nat
  /\ lock \in [Slots -> Slots \cup {None}] /\ wlock \in Slots \cup {None}
  /\ cpu \in [CPUs -> Slots \cup {None}]
  /\ th \in [Slots -> Threads]

\* On a CPU, a process is RUNNING or on its way out.
CpuInv ==
  /\ \A c, d \in CPUs : cpu[c] = cpu[d] /\ cpu[c] # None => c = d
  /\ \A p \in Slots : proc[p].state = "RUNNING" <=> OnCpu(p) /\ ~InSched(p)
  /\ \A p \in Slots : InSched(p) => OnCpu(p)

\* p is a process that has not exited.
Alive(p) == proc[p].state \in {"RUNNABLE", "RUNNING", "SLEEPING"}

\* The labels with wait_lock held, and those of restore_proc() with a slot.
InExit == {"reparent", "reparent_wakeup", "exit_wakeup", "zombie"}
InWait == {"wait_scan", "wait_killed", "wait_sleep"}
InRestore == {"restore_mem", "restore_io", "restore_bad", "restore_lock",
              "restore_parent"}

\* wait_lock is held in exit() and wait(), by a running process, ...
WaitLockInv ==
  \A p \in Slots :
    /\ wlock = p <=> th[p].pc \in InExit \cup InWait
    /\ wlock = p => proc[p].state = "RUNNING"

\* ... and np->lock in two places of restore_proc(), or for good after a
\* panic there.
NpLockInv ==
  /\ \A p, q \in Slots :
       lock[q] = p /\ q # p =>
         /\ proc[p].state = "RUNNING"
         /\ th[p].pc \in {"restore_mem", "restore_parent", "panic"}
         /\ th[p].arg = q
  /\ \A p \in Slots :
       th[p].pc \in {"restore_mem", "restore_parent"} => lock[th[p].arg] = p

\* A slot that fork() or restore() is filling is USED and nobody else's.
Makes(p) == th[p].pc \in {"fork_parent", "fork_run"} \cup InRestore

MakeInv ==
  /\ \A p \in Slots : Makes(p) =>
       th[p].arg \in Slots /\ proc[th[p].arg].state = "USED"
  /\ \A p, q \in Slots : Makes(p) /\ Makes(q) /\ th[p].arg = th[q].arg => p = q

\* Only a process that is alive is in the kernel, and init does not exit.
LiveInv ==
  /\ \A p \in Slots : th[p].pc # "user" => Alive(p)
  /\ \A p \in Slots : th[p].pc \in InExit => p # initproc
  /\ Alive(initproc)

\* The invariant.
Control ==
  /\ Types /\ Loops /\ CpuInv
  /\ WaitLockInv /\ NpLockInv /\ MakeInv /\ LiveInv

-----------------------------------------------------------------------------
\* A step of p leaves the other threads where they are.
Others(p) ==
  \A q \in Slots : q # p =>
    /\ th'[q].pc = th[q].pc
    /\ th[q].pc # "user" => th'[q] = th[q]

\* The slots, the entry that freeproc() leaves and a thread in user mode are of
\* their types.
LEMMA SlotFacts ==
  /\ None \notin Slots /\ initproc \in Slots /\ Slots \subseteq Nat
  /\ \A i \in Nat : i >= 1 /\ i <= NPROC => i \in Slots
  /\ Unused \in Entries /\ User \in Threads
  BY ProcAssumption DEF Slots, None, initproc, Unused, User, Entries, Threads,
       States, Labels

\* A thread of the kernel that can take a step belongs to a RUNNING process.
LEMMA Running ==
  ASSUME CpuInv, NEW p \in Slots, NEW l, At(p, l)
  PROVE  proc[p].state = "RUNNING" /\ th[p].pc = l
  BY DEF CpuInv, At

\* A thread is replaced.
LEMMA ThreadSet ==
  ASSUME th \in [Slots -> Threads], NEW p \in Slots, NEW t \in Threads,
         th' = [th EXCEPT ![p] = t]
  PROVE  th' \in [Slots -> Threads] /\ th'[p] = t /\ Others(p)
  BY DEF Others

\* A thread moves on in the kernel ...
LEMMA Moves ==
  ASSUME th \in [Slots -> Threads], NEW p \in Slots, NEW l \in Labels,
         th' = [th EXCEPT ![p].pc = l]
  PROVE  /\ th' \in [Slots -> Threads] /\ Others(p)
         /\ th'[p].pc = l /\ th'[p].idx = th[p].idx /\ th'[p].arg = th[p].arg
         /\ th'[p].widx = th[p].widx
  BY DEF Others, Threads

\* ... and starts a loop over the table ...
LEMMA MovesIdx ==
  ASSUME th \in [Slots -> Threads], NEW p \in Slots, NEW l \in Labels,
         NEW i \in Nat,
         th' = [th EXCEPT ![p].pc = l, ![p].idx = i]
  PROVE  /\ th' \in [Slots -> Threads] /\ Others(p)
         /\ th'[p].pc = l /\ th'[p].idx = i
  BY ZenonT(30) DEF Others, Threads

\* ... or takes note of a slot.
LEMMA MovesArg ==
  ASSUME th \in [Slots -> Threads], NEW p \in Slots, NEW l \in Labels,
         NEW i \in Nat,
         th' = [th EXCEPT ![p].pc = l, ![p].arg = i]
  PROVE  /\ th' \in [Slots -> Threads] /\ Others(p)
         /\ th'[p].pc = l /\ th'[p].arg = i
  BY ZenonT(30) DEF Others, Threads

\* The next round of a loop over the table.
LEMMA NextIdx ==
  ASSUME th \in [Slots -> Threads], NEW p \in Slots,
         th' = [th EXCEPT ![p].idx = @ + 1]
  PROVE  /\ th' \in [Slots -> Threads] /\ Others(p)
         /\ th'[p].pc = th[p].pc /\ th'[p].idx = th[p].idx + 1
         /\ th'[p].arg = th[p].arg
  BY DEF Others, Threads

-----------------------------------------------------------------------------
(* What the actions do, field by field.                                    *)

\* usertrap() sends a killed process to exit.
LEMMA TrapKilledDoes ==
  ASSUME Control, NEW p \in Slots, TrapKilled(p)
  PROVE  /\ proc[p].state = "RUNNING" /\ Types' /\ Others(p)
         /\ UNCHANGED <<proc, lock, wlock, cpu>>
         /\ th[p].pc = "user" /\ th'[p].pc = "exit"
  <1>1. "exit" \in Labels
    BY DEF Labels
  <1> QED
    BY <1>1, Running, Moves, ZenonT(30) DEF Control, Types, TrapKilled, Goto

\* A system call starts at one of five labels, its loop at the first slot.
LEMMA SyscallDoes ==
  ASSUME Control, NEW p \in Slots, Syscall(p)
  PROVE  /\ proc[p].state = "RUNNING" /\ Types' /\ Others(p)
         /\ UNCHANGED <<proc, lock, wlock, cpu>>
         /\ th[p].pc = "user"
         /\ th'[p].pc \in {"fork_alloc", "exit", "wait", "kill",
                           "restore_alloc"}
         /\ th'[p].pc \in {"fork_alloc", "kill", "restore_alloc"} =>
              th'[p].idx = 1
  <1>1. /\ th \in [Slots -> Threads] /\ proc[p].state = "RUNNING"
        /\ th[p].pc = "user" /\ UNCHANGED <<proc, nextpid, lock, wlock, cpu>>
    BY Running DEF Control, Types, Syscall
  <1>2. /\ {"fork_alloc", "exit", "wait", "kill", "restore_alloc"}
             \subseteq Labels
        /\ 1 \in Nat
    BY DEF Labels
  <1>3. ASSUME NEW l \in {"fork_alloc", "restore_alloc"}, Scan(p, l)
        PROVE  /\ th' \in [Slots -> Threads] /\ Others(p)
               /\ th'[p].pc = l /\ th'[p].idx = 1
    BY <1>1, <1>2, <1>3, ZenonT(30) DEF Scan, Others, Threads
  <1>4. ASSUME NEW l \in {"exit", "wait"}, Goto(p, l)
        PROVE  th' \in [Slots -> Threads] /\ Others(p) /\ th'[p].pc = l
    BY <1>1, <1>2, <1>4, Moves, ZenonT(30) DEF Goto
  <1>5. ASSUME NEW k \in KillPids,
               th' = [th EXCEPT ![p].pc = "kill", ![p].idx = 1, ![p].arg = k]
        PROVE  /\ th' \in [Slots -> Threads] /\ Others(p)
               /\ th'[p].pc = "kill" /\ th'[p].idx = 1
    BY <1>1, <1>2, <1>5, ProcAssumption, ZenonT(30) DEF Others, Threads
  <1> QED
    BY <1>1, <1>3, <1>4, <1>5 DEF Syscall, Control, Types

\* A round of allocproc(): the next slot, or a failure that leaves a free slot
\* behind, or a slot that is USED; only restore() keeps its lock.
LEMMA AllocprocDoes ==
  ASSUME Control, NEW p \in Slots, Allocproc(p)
  PROVE  /\ proc[p].state = "RUNNING" /\ Types' /\ Others(p)
         /\ UNCHANGED <<wlock, cpu>>
         /\ th[p].pc \in {"fork_alloc", "restore_alloc"}
         /\ \/ /\ UNCHANGED <<proc, lock>>
               /\ th'[p].pc = th[p].pc /\ th'[p].idx = th[p].idx + 1
            \/ \E q \in Slots :
                 /\ proc[q].state = "UNUSED" /\ lock[q] = None
                 /\ \A r \in Slots : r # q => proc'[r] = proc[r]
                 /\ \/ /\ proc'[q] = Unused /\ UNCHANGED lock
                       /\ th'[p].pc = "user"
                    \/ /\ proc'[q].state = "USED"
                       /\ proc'[q].parent = proc[q].parent
                       /\ th'[p].arg = q
                       /\ \/ th'[p].pc = "fork_parent" /\ UNCHANGED lock
                          \/ /\ th'[p].pc = "restore_mem"
                             /\ lock' = [lock EXCEPT ![q] = p]
  <1> DEFINE q == th[p].idx
  <1>1. /\ Types /\ proc[p].state = "RUNNING"
        /\ th[p].pc \in {"fork_alloc", "restore_alloc"}
        /\ UNCHANGED <<wlock, cpu>>
    BY Running DEF Control, Allocproc
  <1>2. q \in Slots /\ lock[q] = None
    BY <1>1, SlotFacts DEF Control, Types, Threads, Loops, Allocproc, Free
  <1>3. CASE proc[q].state # "UNUSED"
    BY <1>1, <1>3, NextIdx DEF Types, Allocproc, NextSlot
  <1>4. CASE proc[q].state = "UNUSED"
    <2>1. nextpid' = nextpid + 1 /\ nextpid' \in Nat
      BY <1>1, <1>4 DEF Types, Allocproc
    <2>2. CASE /\ proc' = [proc EXCEPT ![q] = Unused]
               /\ Return(p) /\ UNCHANGED lock
      <3>1. th' \in [Slots -> Threads] /\ th'[p] = User /\ Others(p)
        BY <1>1, <2>2, SlotFacts, ThreadSet, ZenonT(30) DEF Types, Return
      <3>2. /\ proc' \in [Slots -> Entries] /\ proc'[q] = Unused
            /\ \A r \in Slots : r # q => proc'[r] = proc[r]
        BY <1>1, <1>2, <2>2, SlotFacts, SMTT(30) DEF Types
      <3> QED
        BY <1>1, <1>2, <1>4, <2>1, <2>2, <3>1, <3>2 DEF Types, User
    <2>3. CASE /\ proc' = [proc EXCEPT ![q].state = "USED", ![q].pid = nextpid]
               /\ IF th[p].pc = "fork_alloc"
                  THEN /\ th' = [th EXCEPT ![p].pc = "fork_parent",
                                           ![p].arg = q]
                       /\ lock' = lock
                  ELSE /\ th' = [th EXCEPT ![p].pc = "restore_mem",
                                           ![p].arg = q]
                       /\ lock' = [lock EXCEPT ![q] = p]
      <3>1. /\ proc' \in [Slots -> Entries] /\ proc'[q].state = "USED"
            /\ proc'[q].parent = proc[q].parent
            /\ \A r \in Slots : r # q => proc'[r] = proc[r]
        BY <1>1, <1>2, <2>3 DEF Types, Entries, States
      <3>2. /\ th' \in [Slots -> Threads] /\ Others(p) /\ th'[p].arg = q
            /\ th'[p].pc = IF th[p].pc = "fork_alloc" THEN "fork_parent"
                                                     ELSE "restore_mem"
        <4>1. {"fork_parent", "restore_mem"} \subseteq Labels /\ q \in Nat
          BY <1>2, SlotFacts, ZenonT(30) DEF Labels
        <4> HIDE DEF q
        <4> QED
          BY <1>1, <2>3, <4>1, MovesArg DEF Types
      <3>3. lock' \in [Slots -> Slots \cup {None}]
        BY <1>1, <1>2, <2>3 DEF Types
      <3> QED
        BY <1>1, <1>2, <1>4, <2>1, <2>3, <3>1, <3>2, <3>3 DEF Types
    <2> QED
      BY <1>4, <2>2, <2>3 DEF Allocproc, ForkLock
  <1> QED
    BY <1>3, <1>4

\* allocproc() found no slot.
LEMMA AllocprocFullDoes ==
  ASSUME Control, NEW p \in Slots, AllocprocFull(p)
  PROVE  /\ proc[p].state = "RUNNING" /\ Types' /\ Others(p)
         /\ UNCHANGED <<proc, lock, wlock, cpu>>
         /\ th[p].pc \in {"fork_alloc", "restore_alloc"} /\ th'[p].pc = "user"
  <1>1. th' \in [Slots -> Threads] /\ th'[p] = User /\ Others(p)
    BY SlotFacts, ThreadSet, ZenonT(30) DEF Control, Types, AllocprocFull, Return
  <1> QED
    BY <1>1, Running DEF Control, Types, AllocprocFull, User

\* kfork() sets the parent of the slot it is filling.
LEMMA ForkParentDoes ==
  ASSUME Control, NEW p \in Slots, ForkParent(p)
  PROVE  /\ proc[p].state = "RUNNING" /\ Types' /\ Others(p)
         /\ UNCHANGED <<lock, wlock, cpu>>
         /\ th[p].pc = "fork_parent" /\ th'[p].pc = "fork_run"
         /\ th'[p].arg = th[p].arg /\ wlock = None
         /\ \E np \in Slots :
              /\ np = th[p].arg /\ proc[np].state = "USED"
              /\ proc'[np].parent = p /\ proc'[np].state = "USED"
              /\ \A r \in Slots : r # np => proc'[r] = proc[r]
  <1>1. /\ Types /\ proc[p].state = "RUNNING" /\ th[p].pc = "fork_parent"
        /\ UNCHANGED <<nextpid, lock, wlock, cpu>> /\ wlock = None
    BY Running DEF Control, ForkParent
  <1>2. "fork_run" \in Labels
    BY DEF Labels
  <1>3. PICK np \in Slots : np = th[p].arg /\ proc[np].state = "USED"
    BY <1>1 DEF Control, MakeInv, Makes
  <1>4. /\ proc' \in [Slots -> Entries]
        /\ proc'[np].parent = p /\ proc'[np].state = "USED"
        /\ \A r \in Slots : r # np => proc'[r] = proc[r]
    BY <1>1, <1>3 DEF Types, Entries, ForkParent
  <1>5. /\ th' \in [Slots -> Threads] /\ Others(p)
        /\ th'[p].pc = "fork_run" /\ th'[p].arg = th[p].arg
    BY <1>1, <1>2, Moves, ZenonT(30) DEF Types, ForkParent, Goto
  <1> QED
    BY <1>1, <1>3, <1>4, <1>5 DEF Types

\* kfork() makes the slot it has filled RUNNABLE.
LEMMA ForkRunDoes ==
  ASSUME Control, NEW p \in Slots, ForkRun(p)
  PROVE  /\ proc[p].state = "RUNNING" /\ Types' /\ Others(p)
         /\ UNCHANGED <<lock, wlock, cpu>>
         /\ th[p].pc = "fork_run" /\ th'[p].pc = "user"
         /\ \E np \in Slots :
              /\ np = th[p].arg /\ proc[np].state = "USED" /\ lock[np] = None
              /\ proc'[np].parent = proc[np].parent
              /\ proc'[np].state = "RUNNABLE"
              /\ \A r \in Slots : r # np => proc'[r] = proc[r]
  <1>1. /\ Types /\ proc[p].state = "RUNNING" /\ th[p].pc = "fork_run"
        /\ UNCHANGED <<nextpid, lock, wlock, cpu>>
    BY Running DEF Control, ForkRun
  <1>2. PICK np \in Slots : /\ np = th[p].arg /\ proc[np].state = "USED"
                            /\ lock[np] = None
    BY <1>1 DEF Control, MakeInv, Makes, ForkRun, Free
  <1>3. th[np].pc = "user"
    BY <1>2 DEF Control, LiveInv, Alive
  <1>4. /\ proc' \in [Slots -> Entries]
        /\ proc'[np].parent = proc[np].parent /\ proc'[np].state = "RUNNABLE"
        /\ \A r \in Slots : r # np => proc'[r] = proc[r]
    BY <1>1, <1>2 DEF Types, Entries, States, ForkRun
  <1>5. th' = [th EXCEPT ![p] = User, ![np] = User]
    BY <1>2 DEF ForkRun
  <1>6. /\ th' \in [Slots -> Threads] /\ th'[p] = User /\ th'[np] = User
        /\ \A r \in Slots : r \notin {p, np} => th'[r] = th[r]
    BY <1>1, <1>5, SlotFacts DEF Types
  <1>7. Others(p)
    BY <1>3, <1>6 DEF Others, User
  <1> QED
    BY <1>1, <1>2, <1>4, <1>6, <1>7 DEF Types, User

\* kexit() takes wait_lock, or panics for init.
LEMMA ExitLockDoes ==
  ASSUME Control, NEW p \in Slots, ExitLock(p)
  PROVE  /\ proc[p].state = "RUNNING" /\ Types' /\ Others(p)
         /\ UNCHANGED <<proc, lock, cpu>>
         /\ th[p].pc = "exit"
         /\ \/ th'[p].pc = "panic" /\ UNCHANGED wlock
            \/ /\ p # initproc /\ wlock = None /\ wlock' = p
               /\ th'[p].pc = "reparent" /\ th'[p].idx = 1
  <1>1. /\ Types /\ proc[p].state = "RUNNING" /\ th[p].pc = "exit"
        /\ UNCHANGED <<proc, nextpid, lock, cpu>>
    BY Running DEF Control, ExitLock
  <1>2. {"panic", "reparent"} \subseteq Labels /\ 1 \in Nat
    BY DEF Labels
  <1>3. CASE p = initproc
    BY <1>1, <1>2, <1>3, Moves DEF Types, ExitLock, Goto
  <1>4. CASE p # initproc
    <2>1. /\ wlock = None /\ wlock' = p
          /\ th' = [th EXCEPT ![p].pc = "reparent", ![p].idx = 1]
      BY <1>4 DEF ExitLock, Scan
    <2>2. /\ th' \in [Slots -> Threads] /\ Others(p)
          /\ th'[p].pc = "reparent" /\ th'[p].idx = 1
      BY <1>1, <1>2, <2>1, ZenonT(30) DEF Types, Threads, Others
    <2> QED
      BY <1>1, <1>4, <2>1, <2>2 DEF Types
  <1> QED
    BY <1>3, <1>4

\* A round of reparent(): its end, the next slot, or a child that goes to init.
LEMMA ReparentDoes ==
  ASSUME Control, NEW p \in Slots, Reparent(p)
  PROVE  /\ proc[p].state = "RUNNING" /\ Types' /\ Others(p)
         /\ UNCHANGED <<lock, wlock, cpu>>
         /\ th[p].pc = "reparent"
         /\ \/ /\ th[p].idx > NPROC /\ UNCHANGED proc
               /\ th'[p].pc = "exit_wakeup" /\ th'[p].widx = 1
            \/ \E q \in Slots :
                 /\ q = th[p].idx
                 /\ \/ /\ proc[q].parent # p /\ UNCHANGED proc
                       /\ th'[p].pc = "reparent" /\ th'[p].idx = q + 1
                    \/ /\ proc[q].parent = p /\ proc'[q].parent = initproc
                       /\ proc'[q].state = proc[q].state
                       /\ proc'[q].chan = proc[q].chan
                       /\ \A r \in Slots : r # q => proc'[r] = proc[r]
                       /\ th'[p].pc = "reparent_wakeup"
                       /\ th'[p].idx = q /\ th'[p].widx = 1
  <1> DEFINE q == th[p].idx
  <1>1. /\ Types /\ proc[p].state = "RUNNING" /\ th[p].pc = "reparent"
        /\ UNCHANGED <<nextpid, lock, wlock, cpu>> /\ q \in Nat /\ q >= 1
    BY Running DEF Control, Types, Threads, Loops, Reparent
  <1>2. CASE q > NPROC
    <2>1. /\ th' = [th EXCEPT ![p].pc = "exit_wakeup", ![p].widx = 1]
          /\ UNCHANGED proc
      BY <1>2 DEF Reparent
    <2>2. /\ th' \in [Slots -> Threads] /\ Others(p)
          /\ th'[p].pc = "exit_wakeup" /\ th'[p].widx = 1
      <3>1. "exit_wakeup" \in Labels
        BY DEF Labels
      <3> QED
        BY <1>1, <2>1, <3>1, ZenonT(30) DEF Types, Threads, Others
    <2> QED
      BY <1>1, <1>2, <2>1, <2>2 DEF Types
  <1>3. CASE q <= NPROC
    <2>1. q \in Slots /\ ~(q > NPROC)
      BY <1>1, <1>3, SlotFacts, ProcAssumption
    <2>2. CASE proc[q].parent = p
      <3>1. /\ th' = [th EXCEPT ![p].pc = "reparent_wakeup", ![p].widx = 1]
            /\ proc' = [proc EXCEPT ![q].parent = initproc]
        BY <2>1, <2>2 DEF Reparent, Abandoned, AfterReparent
      <3>2. /\ th' \in [Slots -> Threads] /\ Others(p) /\ th'[p].idx = q
            /\ th'[p].pc = "reparent_wakeup" /\ th'[p].widx = 1
        <4>1. "reparent_wakeup" \in Labels
          BY DEF Labels
        <4> QED
          BY <1>1, <3>1, <4>1, ZenonT(30) DEF Types, Threads, Others
      <3>3. /\ proc' \in [Slots -> Entries]
            /\ proc'[q].parent = initproc /\ proc'[q].state = proc[q].state
            /\ proc'[q].chan = proc[q].chan
            /\ \A r \in Slots : r # q => proc'[r] = proc[r]
        BY <1>1, <2>1, <3>1, SlotFacts DEF Types, Entries
      <3> QED
        BY <1>1, <2>1, <2>2, <3>2, <3>3 DEF Types
    <2>3. CASE proc[q].parent # p
      BY <1>1, <2>1, <2>3, NextIdx DEF Types, Reparent, Abandoned, NextSlot
    <2> QED
      BY <2>2, <2>3
  <1> QED
    BY <1>1, <1>2, <1>3, ProcAssumption

\* A round of wakeup(): its end, or a slot that is not asleep on the channel
\* when the round is over.
LEMMA WakeupDoes ==
  ASSUME Control, NEW p \in Slots, NEW ch, NEW next \in Labels, NEW i \in Nat,
         th[p].pc \in {"reparent_wakeup", "exit_wakeup"},
         Wakeup(p, ch, next, i)
  PROVE  /\ Types' /\ Others(p) /\ UNCHANGED <<lock, wlock, cpu>>
         /\ \/ /\ th[p].widx > NPROC /\ UNCHANGED proc
               /\ th'[p].pc = next /\ th'[p].idx = i
            \/ /\ th'[p].pc = th[p].pc /\ th'[p].idx = th[p].idx
               /\ \E q \in Slots :
                    /\ q = th[p].widx /\ th'[p].widx = q + 1
                    /\ \/ UNCHANGED proc
                       \/ /\ proc[q].state = "SLEEPING" /\ lock[q] = None
                          /\ proc'[q].state = "RUNNABLE"
                          /\ proc'[q].parent = proc[q].parent
                    /\ \A r \in Slots : r # q => proc'[r] = proc[r]
                    /\ q # p /\ proc[q].chan = ch =>
                         proc'[q].state # "SLEEPING"
  <1> DEFINE q == th[p].widx
  <1>1. /\ Types /\ UNCHANGED <<nextpid, lock, wlock, cpu>>
        /\ q \in Nat /\ q >= 1
    BY DEF Control, Types, Threads, Loops, Wakeup
  <1>2. CASE q > NPROC
    <2>1. /\ th' = [th EXCEPT ![p].pc = next, ![p].idx = i, ![p].widx = 0]
          /\ UNCHANGED proc
      BY <1>2 DEF Wakeup
    <2>2. /\ th' \in [Slots -> Threads] /\ Others(p)
          /\ th'[p].pc = next /\ th'[p].idx = i
      BY <1>1, <2>1 DEF Types, Threads, Others
    <2> QED
      BY <1>1, <1>2, <2>1, <2>2 DEF Types
  <1>3. CASE q <= NPROC
    <2>1. q \in Slots /\ ~(q > NPROC)
      BY <1>1, <1>3, SlotFacts, ProcAssumption
    <2>2. /\ th' \in [Slots -> Threads] /\ Others(p) /\ th'[p].idx = th[p].idx
          /\ th'[p].pc = th[p].pc /\ th'[p].widx = q + 1
      <3>1. th' = [th EXCEPT ![p].widx = @ + 1]
        BY <2>1 DEF Wakeup
      <3> QED
        BY <1>1, <3>1 DEF Types, Threads, Others
    <2>3. CASE q # p /\ proc[q].state = "SLEEPING" /\ proc[q].chan = ch
      <3>1. proc' = [proc EXCEPT ![q].state = "RUNNABLE"] /\ lock[q] = None
        BY <2>1, <2>3 DEF Wakeup, Free
      <3>2. "RUNNABLE" \in States
        BY DEF States
      <3>3. /\ proc' \in [Slots -> Entries]
            /\ proc'[q].state = "RUNNABLE" /\ proc'[q].parent = proc[q].parent
            /\ \A r \in Slots : r # q => proc'[r] = proc[r]
        BY <1>1, <2>1, <3>1, <3>2 DEF Types, Entries
      <3> QED
        BY <1>1, <2>1, <2>2, <2>3, <3>1, <3>3 DEF Types
    <2>4. CASE ~(q # p /\ proc[q].state = "SLEEPING" /\ proc[q].chan = ch)
      <3>1. proc' = proc
        BY <2>1, <2>4 DEF Wakeup
      <3> QED
        BY <1>1, <2>1, <2>2, <2>4, <3>1 DEF Types
    <2> QED
      BY <2>3, <2>4
  <1> QED
    BY <1>1, <1>2, <1>3, ProcAssumption

\* kexit() makes the process a ZOMBIE, gives up wait_lock and goes to the
\* scheduler with its own lock.
LEMMA ZombieDoes ==
  ASSUME Control, NEW p \in Slots, Zombie(p)
  PROVE  /\ proc[p].state = "RUNNING" /\ Types' /\ Others(p)
         /\ UNCHANGED cpu /\ wlock' = None
         /\ th[p].pc = "zombie" /\ th'[p].pc = "user"
         /\ lock[p] = None /\ lock' = [lock EXCEPT ![p] = p]
         /\ proc'[p].state = "ZOMBIE" /\ proc'[p].parent = proc[p].parent
         /\ \A r \in Slots : r # p => proc'[r] = proc[r]
  <1>1. /\ Types /\ proc[p].state = "RUNNING" /\ th[p].pc = "zombie"
        /\ UNCHANGED <<nextpid, cpu>> /\ wlock' = None
        /\ lock[p] = None /\ lock' = [lock EXCEPT ![p] = p]
        /\ proc' = [proc EXCEPT ![p] = [proc[p] EXCEPT !.state = "ZOMBIE"]]
    BY Running DEF Control, Zombie, Sched, Free
  <1>2. /\ proc' \in [Slots -> Entries]
        /\ proc'[p].state = "ZOMBIE" /\ proc'[p].parent = proc[p].parent
        /\ \A r \in Slots : r # p => proc'[r] = proc[r]
    BY <1>1 DEF Types, Entries, States
  <1>3. th' \in [Slots -> Threads] /\ th'[p] = User /\ Others(p)
    BY <1>1, SlotFacts, ThreadSet, ZenonT(30) DEF Types, Zombie, Return
  <1>4. lock' \in [Slots -> Slots \cup {None}]
    BY <1>1 DEF Types
  <1> QED
    BY <1>1, <1>2, <1>3, <1>4 DEF Types, User

\* An entry gets a state and a channel.
LEMMA EntrySleeps ==
  ASSUME proc \in [Slots -> Entries], NEW q \in Slots, NEW s \in States,
         NEW c \in Slots \cup {None},
         proc' = [proc EXCEPT ![q] = [proc[q] EXCEPT !.state = s, !.chan = c]]
  PROVE  /\ proc' \in [Slots -> Entries] /\ proc'[q].state = s
         /\ proc'[q].parent = proc[q].parent /\ proc'[q].chan = c
         /\ \A r \in Slots : r # q => proc'[r] = proc[r]
  <1> DEFINE u == [proc[q] EXCEPT !.state = s, !.chan = c]
  <1>1. u \in Entries /\ u.state = s /\ u.parent = proc[q].parent /\ u.chan = c
    BY ZenonT(30) DEF Entries
  <1>2. proc' = [proc EXCEPT ![q] = u]
    OBVIOUS
  <1> HIDE DEF u
  <1> QED
    BY <1>1, <1>2

\* An entry is marked killed and gets a state.
LEMMA EntryKilled ==
  ASSUME proc \in [Slots -> Entries], NEW q \in Slots, NEW s \in States,
         NEW k \in {0, 1},
         proc' = [proc EXCEPT ![q].killed = k, ![q].state = s]
  PROVE  /\ proc' \in [Slots -> Entries] /\ proc'[q].state = s
         /\ proc'[q].parent = proc[q].parent /\ proc'[q].chan = proc[q].chan
         /\ \A r \in Slots : r # q => proc'[r] = proc[r]
  <1> DEFINE u == [proc[q] EXCEPT !.killed = k, !.state = s]
  <1>1. u \in Entries /\ u.state = s /\ u.parent = proc[q].parent
                     /\ u.chan = proc[q].chan
    BY ZenonT(30) DEF Entries
  <1>2. proc' = [proc EXCEPT ![q] = u]
    OBVIOUS
  <1> HIDE DEF u
  <1> QED
    BY <1>1, <1>2, ZenonT(30)

\* The next round of the loop of kwait(), with a child seen.
LEMMA NextKids ==
  ASSUME th \in [Slots -> Threads], NEW p \in Slots, NEW i \in Nat,
         NEW k \in {0, 1},
         th' = [th EXCEPT ![p].idx = i, ![p].kids = k]
  PROVE  /\ th' \in [Slots -> Threads] /\ Others(p)
         /\ th'[p].pc = th[p].pc /\ th'[p].idx = i
  <1> DEFINE u == [th[p] EXCEPT !.idx = i, !.kids = k]
  <1>1. u \in Threads /\ u.pc = th[p].pc /\ u.idx = i
    BY ZenonT(30) DEF Threads
  <1>2. th' = [th EXCEPT ![p] = u]
    OBVIOUS
  <1> HIDE DEF u
  <1> QED
    BY <1>1, <1>2, ThreadSet, ZenonT(30)

\* kwait() takes wait_lock and scans from the first slot.
LEMMA WaitLockDoes ==
  ASSUME Control, NEW p \in Slots, WaitLock(p)
  PROVE  /\ proc[p].state = "RUNNING" /\ Types' /\ Others(p)
         /\ UNCHANGED <<proc, lock, cpu>>
         /\ wlock = None /\ wlock' = p
         /\ th[p].pc = "wait" /\ th'[p].pc = "wait_scan" /\ th'[p].idx = 1
  <1>1. /\ Types /\ proc[p].state = "RUNNING" /\ th[p].pc = "wait"
        /\ UNCHANGED <<proc, nextpid, lock, cpu>> /\ wlock = None /\ wlock' = p
        /\ th' = [th EXCEPT ![p].pc = "wait_scan", ![p].idx = 1, ![p].kids = 0]
    BY Running DEF Control, WaitLock
  <1>2. "wait_scan" \in Labels
    BY DEF Labels
  <1>3. /\ th' \in [Slots -> Threads] /\ Others(p)
        /\ th'[p].pc = "wait_scan" /\ th'[p].idx = 1
    BY <1>1, <1>2, ZenonT(30) DEF Types, Threads, Others
  <1> QED
    BY <1>1, <1>3 DEF Types

\* A round of kwait(): the next slot, or a zombie child that ends it.
LEMMA WaitScanDoes ==
  ASSUME Control, NEW p \in Slots, WaitScan(p)
  PROVE  /\ proc[p].state = "RUNNING" /\ Types' /\ Others(p)
         /\ UNCHANGED <<lock, cpu>> /\ th[p].pc = "wait_scan"
         /\ \E q \in Slots :
              /\ q = th[p].idx
              /\ \/ /\ UNCHANGED <<proc, wlock>>
                    /\ proc[q].parent # p \/ proc[q].state # "ZOMBIE"
                    /\ th'[p].pc = "wait_scan" /\ th'[p].idx = q + 1
                 \/ /\ proc[q].state = "ZOMBIE" /\ lock[q] = None
                    /\ proc' = proc \/ proc'[q] = Unused
                    /\ \A r \in Slots : r # q => proc'[r] = proc[r]
                    /\ wlock' = None /\ th'[p].pc = "user"
  <1> DEFINE q == th[p].idx
  <1>1. /\ Types /\ proc[p].state = "RUNNING" /\ th[p].pc = "wait_scan"
        /\ UNCHANGED <<nextpid, lock, cpu>>
    BY Running DEF Control, WaitScan
  <1>2. q \in Slots
    BY <1>1, SlotFacts DEF Control, Types, Threads, Loops, WaitScan
  <1>3. CASE proc[q].parent # p
    BY <1>1, <1>2, <1>3, NextIdx DEF Types, WaitScan, NextSlot
  <1>4. CASE proc[q].parent = p /\ proc[q].state = "ZOMBIE"
    <2>1. /\ lock[q] = None /\ wlock' = None /\ Return(p)
          /\ proc' = [proc EXCEPT ![q] = Unused] \/ proc' = proc
      BY <1>4 DEF WaitScan, Free, Reaped
    <2>2. th' \in [Slots -> Threads] /\ th'[p] = User /\ Others(p)
      BY <1>1, <2>1, SlotFacts, ThreadSet, ZenonT(30) DEF Types, Return
    <2>3. /\ proc' \in [Slots -> Entries]
          /\ proc' = proc \/ proc'[q] = Unused
          /\ \A r \in Slots : r # q => proc'[r] = proc[r]
      BY <1>1, <1>2, <2>1, SlotFacts DEF Types
    <2> QED
      BY <1>1, <1>2, <1>4, <2>1, <2>2, <2>3 DEF Types, User
  <1>5. CASE proc[q].parent = p /\ proc[q].state # "ZOMBIE"
    <2>1. /\ th' = [th EXCEPT ![p].idx = @ + 1, ![p].kids = 1]
          /\ UNCHANGED <<proc, wlock>>
      BY <1>5 DEF WaitScan
    <2>2. /\ th' \in [Slots -> Threads] /\ Others(p)
          /\ th'[p].pc = "wait_scan" /\ th'[p].idx = q + 1
      <3>1. PICK k \in {0, 1} : k = 1
        OBVIOUS
      <3>2. PICK i \in Nat : i = q + 1
        BY <1>1 DEF Types, Threads
      <3>3. th' = [th EXCEPT ![p].idx = i, ![p].kids = k]
        BY <1>1, <2>1, <3>1, <3>2 DEF Types, Threads
      <3> QED
        BY <1>1, <3>2, <3>3, NextKids, ZenonT(30) DEF Types
    <2> QED
      BY <1>1, <1>2, <1>5, <2>1, <2>2 DEF Types
  <1> QED
    BY <1>3, <1>4, <1>5

\* The end of the scan of kwait(): no children, or none that has exited.
LEMMA WaitScannedDoes ==
  ASSUME Control, NEW p \in Slots, WaitScanned(p)
  PROVE  /\ proc[p].state = "RUNNING" /\ Types' /\ Others(p)
         /\ UNCHANGED <<proc, lock, cpu>>
         /\ th[p].pc = "wait_scan" /\ th[p].idx > NPROC
         /\ \/ th'[p].pc = "user" /\ wlock' = None
            \/ th'[p].pc = "wait_killed" /\ UNCHANGED wlock
  <1>1. /\ Types /\ proc[p].state = "RUNNING" /\ th[p].pc = "wait_scan"
        /\ UNCHANGED <<proc, nextpid, lock, cpu>> /\ th[p].idx > NPROC
    BY Running DEF Control, WaitScanned
  <1>2. "wait_killed" \in Labels
    BY DEF Labels
  <1>3. CASE th[p].kids = 0
    <2>1. th' \in [Slots -> Threads] /\ th'[p] = User /\ Others(p)
      BY <1>1, <1>3, SlotFacts, ThreadSet DEF Types, WaitScanned, Return
    <2> QED
      BY <1>1, <1>3, <2>1 DEF Types, WaitScanned, User
  <1>4. CASE th[p].kids # 0
    BY <1>1, <1>2, <1>4, Moves DEF Types, WaitScanned, Goto
  <1> QED
    BY <1>3, <1>4

\* kwait() gives up when the process is killed.
LEMMA WaitKilledDoes ==
  ASSUME Control, NEW p \in Slots, WaitKilled(p)
  PROVE  /\ proc[p].state = "RUNNING" /\ Types' /\ Others(p)
         /\ UNCHANGED <<proc, lock, cpu>>
         /\ th[p].pc = "wait_killed"
         /\ \/ th'[p].pc = "user" /\ wlock' = None
            \/ th'[p].pc = "wait_sleep" /\ wlock' = p
  <1>1. /\ Types /\ proc[p].state = "RUNNING" /\ th[p].pc = "wait_killed"
        /\ UNCHANGED <<proc, nextpid, lock, cpu>>
    BY Running DEF Control, WaitKilled
  <1>2. "wait_sleep" \in Labels
    BY DEF Labels
  <1>3. CASE proc[p].killed = 1
    <2>1. th' \in [Slots -> Threads] /\ th'[p] = User /\ Others(p)
      BY <1>1, <1>3, SlotFacts, ThreadSet DEF Types, WaitKilled, Return
    <2> QED
      BY <1>1, <1>3, <2>1 DEF Types, WaitKilled, User
  <1>4. CASE proc[p].killed # 1
    <2>1. th' = [th EXCEPT ![p].pc = "wait_sleep"] /\ wlock' = p
      BY <1>4 DEF WaitKilled, Goto, SleepHolds
    <2>2. th' \in [Slots -> Threads] /\ Others(p) /\ th'[p].pc = "wait_sleep"
      BY <1>1, <1>2, <2>1, Moves, ZenonT(30) DEF Types
    <2> QED
      BY <1>1, <2>1, <2>2 DEF Types
  <1> QED
    BY <1>3, <1>4

\* sleep() in kwait(): p->lock is taken, wait_lock is released, and the process
\* sleeps on itself.
LEMMA WaitSleepDoes ==
  ASSUME Control, NEW p \in Slots, WaitSleep(p)
  PROVE  /\ proc[p].state = "RUNNING" /\ Types' /\ Others(p)
         /\ UNCHANGED cpu /\ wlock' = None /\ proc'[p].chan = p
         /\ th[p].pc = "wait_sleep" /\ th'[p].pc = "wait"
         /\ lock[p] = None /\ lock' = [lock EXCEPT ![p] = p]
         /\ proc'[p].state = "SLEEPING" /\ proc'[p].parent = proc[p].parent
         /\ \A r \in Slots : r # p => proc'[r] = proc[r]
  <1>1. /\ Types /\ proc[p].state = "RUNNING" /\ th[p].pc = "wait_sleep"
        /\ UNCHANGED <<nextpid, cpu>> /\ wlock' = None
        /\ lock[p] = None /\ lock' = [lock EXCEPT ![p] = p]
        /\ proc' = [proc EXCEPT ![p] = [proc[p] EXCEPT !.state = "SLEEPING",
                                                       !.chan = p]]
        /\ th' = [th EXCEPT ![p] = [User EXCEPT !.pc = "wait"]]
    BY Running DEF Control, WaitSleep, Sched, Free, SleepLock
  <1>2. /\ proc' \in [Slots -> Entries]
        /\ proc'[p].state = "SLEEPING" /\ proc'[p].parent = proc[p].parent
        /\ proc'[p].chan = p
        /\ \A r \in Slots : r # p => proc'[r] = proc[r]
    <2>1. PICK s \in States : s = "SLEEPING"
      BY DEF States
    <2>2. proc' = [proc EXCEPT ![p] = [proc[p] EXCEPT !.state = s, !.chan = p]]
      BY <1>1, <2>1
    <2>3. proc \in [Slots -> Entries] /\ p \in Slots \cup {None}
      BY <1>1 DEF Types
    <2>4. /\ proc' \in [Slots -> Entries] /\ proc'[p].state = s
          /\ proc'[p].parent = proc[p].parent /\ proc'[p].chan = p
          /\ \A r \in Slots : r # p => proc'[r] = proc[r]
      BY <2>2, <2>3, EntrySleeps, ZenonT(30)
    <2> QED
      BY <2>1, <2>4
  <1>3. [User EXCEPT !.pc = "wait"] \in Threads
    BY DEF User, Threads, Labels
  <1>4. /\ th' \in [Slots -> Threads] /\ Others(p)
        /\ th'[p] = [User EXCEPT !.pc = "wait"]
    BY <1>1, <1>3, ThreadSet, ZenonT(30) DEF Types
  <1>5. lock' \in [Slots -> Slots \cup {None}]
    BY <1>1 DEF Types
  <1> QED
    BY <1>1, <1>2, <1>4, <1>5 DEF Types, User

\* A round of kkill(): its end, the next slot, or a process that is marked and
\* woken up.
LEMMA KillDoes ==
  ASSUME Control, NEW p \in Slots, Kill(p)
  PROVE  /\ proc[p].state = "RUNNING" /\ Types' /\ Others(p)
         /\ UNCHANGED <<lock, wlock, cpu>> /\ th[p].pc = "kill"
         /\ \/ UNCHANGED proc /\ th'[p].pc = "user"
            \/ /\ UNCHANGED proc
               /\ th'[p].pc = "kill" /\ th'[p].idx = th[p].idx + 1
            \/ /\ th'[p].pc = "user"
               /\ \E q \in Slots :
                    /\ lock[q] = None
                    /\ proc'[q].parent = proc[q].parent
                    /\ proc'[q].chan = proc[q].chan
                    /\ proc'[q].state = IF proc[q].state = "SLEEPING"
                                        THEN "RUNNABLE" ELSE proc[q].state
                    /\ \A r \in Slots : r # q => proc'[r] = proc[r]
  <1> DEFINE q == th[p].idx
  <1>1. /\ Types /\ proc[p].state = "RUNNING" /\ th[p].pc = "kill"
        /\ UNCHANGED <<nextpid, lock, wlock, cpu>> /\ q \in Nat /\ q >= 1
    BY Running DEF Control, Types, Threads, Loops, Kill
  <1>2. ASSUME Return(p)
        PROVE  th' \in [Slots -> Threads] /\ th'[p] = User /\ Others(p)
    BY <1>1, <1>2, SlotFacts, ThreadSet, ZenonT(30) DEF Types, Return
  <1>3. CASE q > NPROC
    BY <1>1, <1>2, <1>3 DEF Types, Kill, User
  <1>4. CASE q <= NPROC
    <2>1. q \in Slots /\ ~(q > NPROC) /\ lock[q] = None
      BY <1>1, <1>4, SlotFacts, ProcAssumption DEF Kill, Free
    <2>2. CASE proc[q].pid = th[p].arg
      <3> DEFINE s == IF proc[q].state = "SLEEPING" THEN "RUNNABLE"
                                                    ELSE proc[q].state
      <3>1. s \in States
        BY <1>1, <2>1 DEF Types, Entries, States
      <3>2. Return(p) /\ proc' = [proc EXCEPT ![q].killed = 1, ![q].state = s]
        BY <1>1, <2>1, <2>2 DEF Types, Entries, Kill, KillWakes
      <3> HIDE DEF s
      <3>3. /\ proc' \in [Slots -> Entries]
            /\ proc'[q].parent = proc[q].parent /\ proc'[q].state = s
            /\ proc'[q].chan = proc[q].chan
            /\ \A r \in Slots : r # q => proc'[r] = proc[r]
        <4>1. PICK k \in {0, 1} : k = 1
          OBVIOUS
        <4>2. proc' = [proc EXCEPT ![q].killed = k, ![q].state = s]
          BY <3>2, <4>1
        <4> QED
          BY <1>1, <2>1, <3>1, <4>2, EntryKilled, ZenonT(30) DEF Types
      <3> QED
        <4>1. Types' /\ Others(p) /\ th'[p].pc = "user"
          BY <1>1, <1>2, <3>2, <3>3 DEF Types, User
        <4>2. proc'[q].state = IF proc[q].state = "SLEEPING"
                               THEN "RUNNABLE" ELSE proc[q].state
          BY <3>3 DEF s
        <4> QED
          BY <1>1, <2>1, <3>3, <4>1, <4>2
    <2>3. CASE proc[q].pid # th[p].arg
      BY <1>1, <2>1, <2>3, NextIdx DEF Types, Kill, NextSlot
    <2> QED
      BY <2>2, <2>3
  <1> QED
    BY <1>1, <1>3, <1>4, ProcAssumption

\* restore_proc() after uvmalloc(): np->lock is released, or the kernel panics
\* with it held.
LEMMA RestoreMemDoes ==
  ASSUME Control, NEW p \in Slots, RestoreMem(p)
  PROVE  /\ proc[p].state = "RUNNING" /\ Types' /\ Others(p)
         /\ UNCHANGED <<proc, wlock, cpu>>
         /\ th[p].pc = "restore_mem" /\ th'[p].arg = th[p].arg
         /\ \/ th'[p].pc = "panic" /\ UNCHANGED lock
            \/ /\ th'[p].pc = "restore_io"
               /\ lock' = [lock EXCEPT ![th[p].arg] = None]
  <1>1. /\ Types /\ proc[p].state = "RUNNING" /\ th[p].pc = "restore_mem"
        /\ UNCHANGED <<proc, nextpid, wlock, cpu>>
    BY Running DEF Control, RestoreMem
  <1>2. {"panic", "restore_io"} \subseteq Labels
    BY DEF Labels
  <1>3. CASE Goto(p, "panic") /\ UNCHANGED lock
    BY <1>1, <1>2, <1>3, Moves, ZenonT(30) DEF Types, Goto
  <1>4. CASE Goto(p, "restore_io") /\ lock' = [lock EXCEPT ![th[p].arg] = None]
    <2>1. lock' \in [Slots -> Slots \cup {None}]
      BY <1>1, <1>4, ZenonT(30) DEF Types
    <2> QED
      BY <1>1, <1>2, <1>4, <2>1, Moves, ZenonT(30) DEF Types, Goto
  <1> QED
    BY <1>3, <1>4 DEF RestoreMem

\* restore_proc() has read the checkpoint.
LEMMA RestoreIODoes ==
  ASSUME Control, NEW p \in Slots, RestoreIO(p)
  PROVE  /\ proc[p].state = "RUNNING" /\ Types' /\ Others(p)
         /\ UNCHANGED <<proc, lock, wlock, cpu>>
         /\ th[p].pc = "restore_io" /\ th'[p].arg = th[p].arg
         /\ th'[p].pc \in {"restore_bad", "restore_lock"}
  <1>1. {"restore_bad", "restore_lock"} \subseteq Labels
    BY DEF Labels
  <1> QED
    BY <1>1, Running, Moves DEF Control, Types, RestoreIO, Goto

\* restore_proc() frees the slot it was filling.
LEMMA RestoreBadDoes ==
  ASSUME Control, NEW p \in Slots, RestoreBad(p)
  PROVE  /\ proc[p].state = "RUNNING" /\ Types' /\ Others(p)
         /\ UNCHANGED <<lock, wlock, cpu>>
         /\ th[p].pc = "restore_bad" /\ th'[p].pc = "user"
         /\ \E np \in Slots :
              /\ np = th[p].arg /\ proc[np].state = "USED" /\ lock[np] = None
              /\ proc'[np] = Unused
              /\ \A r \in Slots : r # np => proc'[r] = proc[r]
  <1>1. /\ Types /\ proc[p].state = "RUNNING" /\ th[p].pc = "restore_bad"
        /\ UNCHANGED <<nextpid, lock, wlock, cpu>>
    BY Running DEF Control, RestoreBad
  <1>2. PICK np \in Slots : /\ np = th[p].arg /\ proc[np].state = "USED"
                            /\ lock[np] = None
    BY <1>1 DEF Control, MakeInv, Makes, InRestore, RestoreBad, Free
  <1>3. /\ proc' \in [Slots -> Entries] /\ proc'[np] = Unused
        /\ \A r \in Slots : r # np => proc'[r] = proc[r]
    BY <1>1, <1>2, SlotFacts DEF Types, RestoreBad
  <1>4. th' \in [Slots -> Threads] /\ th'[p] = User /\ Others(p)
    BY <1>1, SlotFacts, ThreadSet, ZenonT(30) DEF Types, RestoreBad, Return
  <1> QED
    BY <1>1, <1>2, <1>3, <1>4 DEF Types, User

\* restore_proc() takes np->lock again.
LEMMA RestoreLockDoes ==
  ASSUME Control, NEW p \in Slots, RestoreLock(p)
  PROVE  /\ proc[p].state = "RUNNING" /\ Types' /\ Others(p)
         /\ UNCHANGED <<proc, wlock, cpu>>
         /\ th[p].pc = "restore_lock" /\ th'[p].pc = "restore_parent"
         /\ th'[p].arg = th[p].arg /\ lock[th[p].arg] = None
         /\ lock' = [lock EXCEPT ![th[p].arg] = p]
  <1>1. /\ Types /\ proc[p].state = "RUNNING" /\ th[p].pc = "restore_lock"
        /\ UNCHANGED <<proc, nextpid, wlock, cpu>>
        /\ lock[th[p].arg] = None /\ lock' = [lock EXCEPT ![th[p].arg] = p]
    BY Running DEF Control, RestoreLock, Free
  <1>2. "restore_parent" \in Labels
    BY DEF Labels
  <1>3. lock' \in [Slots -> Slots \cup {None}]
    BY <1>1, ZenonT(30) DEF Types
  <1> QED
    BY <1>1, <1>2, <1>3, Moves, ZenonT(30) DEF Types, RestoreLock, Goto

\* restore_proc() gives the new process to init, makes it RUNNABLE and releases
\* np->lock.
LEMMA RestoreParentDoes ==
  ASSUME Control, NEW p \in Slots, RestoreParent(p)
  PROVE  /\ proc[p].state = "RUNNING" /\ Types' /\ Others(p)
         /\ UNCHANGED <<wlock, cpu>> /\ wlock = None
         /\ th[p].pc = "restore_parent" /\ th'[p].pc = "user"
         /\ \E np \in Slots :
              /\ np = th[p].arg /\ proc[np].state = "USED"
              /\ proc'[np].parent = initproc
              /\ proc'[np].state = "RUNNABLE"
              /\ lock' = [lock EXCEPT ![np] = None]
              /\ \A r \in Slots : r # np => proc'[r] = proc[r]
  <1>1. /\ Types /\ proc[p].state = "RUNNING" /\ th[p].pc = "restore_parent"
        /\ UNCHANGED <<nextpid, wlock, cpu>> /\ wlock = None
    BY Running DEF Control, RestoreParent
  <1>2. PICK np \in Slots : np = th[p].arg /\ proc[np].state = "USED"
    BY <1>1 DEF Control, MakeInv, Makes, InRestore
  <1>3. th[np].pc = "user"
    BY <1>2, SMTT(30) DEF Control, LiveInv, Alive
  <1>4. /\ proc' \in [Slots -> Entries]
        /\ proc'[np].parent = initproc /\ proc'[np].state = "RUNNABLE"
        /\ \A r \in Slots : r # np => proc'[r] = proc[r]
    BY <1>1, <1>2, SlotFacts
       DEF Types, Entries, States, RestoreParent, RestoredParent
  <1>5. /\ th' = [th EXCEPT ![p] = User, ![np] = User]
        /\ lock' = [lock EXCEPT ![np] = None]
    BY <1>2 DEF RestoreParent
  <1>6. /\ th' \in [Slots -> Threads] /\ th'[p] = User /\ th'[np] = User
        /\ \A r \in Slots : r \notin {p, np} => th'[r] = th[r]
        /\ lock' \in [Slots -> Slots \cup {None}]
    BY <1>1, <1>5, SlotFacts DEF Types
  <1>7. Others(p)
    BY <1>3, <1>6 DEF Others, User
  <1> QED
    BY <1>1, <1>2, <1>4, <1>5, <1>6, <1>7, ZenonT(30) DEF Types, User

-----------------------------------------------------------------------------
(* Every step keeps the control invariant.                                 *)

\* A step of p keeps the loops within the table when p's own does.
LEMMA LoopsStep ==
  ASSUME Loops, NEW p \in Slots, Others(p),
         th'[p].pc \in {"fork_alloc", "restore_alloc", "reparent", "wait_scan",
                        "kill"} => th'[p].idx >= 1,
         th'[p].pc = "reparent_wakeup" => th'[p].idx \in Slots,
         th'[p].pc \in {"reparent_wakeup", "exit_wakeup"} => th'[p].widx >= 1
  PROVE  Loops'
  BY DEF Loops, Others

\* The frame of the steps that leave the spin locks of the table and the CPUs
\* alone: nobody starts or stops running or dies, and a USED slot stays with
\* the one process that fills it.
LEMMA ControlKept ==
  ASSUME Control, NEW p \in Slots,
         UNCHANGED <<lock, cpu>>, Types', Others(p), Loops',
         proc[p].state = "RUNNING",
         \A r \in Slots :
           proc'[r].state = "RUNNING" <=> proc[r].state = "RUNNING",
         \A r \in Slots : Alive(r) => Alive(r)',
         \A r \in Slots :
           proc[r].state = "USED" =>
             \/ proc'[r].state = "USED"
             \/ Makes(p) /\ r = th[p].arg /\ ~Makes(p)',
         th[p].pc \notin {"restore_mem", "restore_parent", "panic"},
         th'[p].pc \notin {"restore_mem", "restore_parent"},
         \/ /\ wlock' = wlock
            /\ th[p].pc \in InExit \cup InWait
                 <=> th'[p].pc \in InExit \cup InWait
         \/ wlock = None /\ wlock' = p /\ th'[p].pc \in InExit \cup InWait
         \/ /\ wlock' = None /\ th[p].pc \in InExit \cup InWait
            /\ th'[p].pc \notin InExit \cup InWait,
         Makes(p)' =>
           \/ Makes(p) /\ th'[p].arg = th[p].arg
           \/ /\ th'[p].arg \in Slots /\ proc'[th'[p].arg].state = "USED"
              /\ proc[th'[p].arg].state # "USED",
         th'[p].pc \in InExit => th[p].pc \in InExit \/ p # initproc
  PROVE  Control'
  <1> USE SlotFacts
  <1>0. /\ Types /\ Loops /\ CpuInv
        /\ WaitLockInv /\ NpLockInv /\ MakeInv /\ LiveInv
    BY DEF Control
  <1>1. CpuInv'
    BY <1>0 DEF CpuInv, OnCpu, InSched
  <1>2. WaitLockInv'
    BY <1>0, SMTT(30) DEF WaitLockInv, Types, Others
  <1>3. NpLockInv'
    BY <1>0 DEF NpLockInv, Types, Others
  <1>4. MakeInv'
    <2>1. \A r \in Slots : r # p /\ Makes(r)' =>
            Makes(r) /\ th'[r].arg = th[r].arg
      BY DEF Makes, Others, InRestore
    <2>2. \A r \in Slots : r # p /\ Makes(r)' =>
            /\ th[r].arg \in Slots /\ proc[th[r].arg].state = "USED"
            /\ Makes(p) => th[r].arg # th[p].arg
      BY <1>0, <2>1 DEF MakeInv
    <2>3. \A r \in Slots : r # p /\ Makes(r)' =>
            proc'[th[r].arg].state = "USED"
      BY <2>2, ZenonT(30)
    <2>4. Makes(p)' => th'[p].arg \in Slots /\ proc'[th'[p].arg].state = "USED"
      BY <1>0, ZenonT(30) DEF MakeInv
    <2>5. \A r \in Slots : r # p /\ Makes(r)' /\ Makes(p)' =>
            th'[r].arg # th'[p].arg
      BY <2>1, <2>2
    <2>6. \A r, s \in Slots : /\ r # p /\ s # p /\ Makes(r)' /\ Makes(s)'
                              /\ th'[r].arg = th'[s].arg
                              => r = s
      BY <1>0, <2>1 DEF MakeInv
    <2> HIDE DEF Makes
    <2> QED
      BY <2>1, <2>2, <2>3, <2>4, <2>5, <2>6 DEF MakeInv
  <1>5. LiveInv'
    BY <1>0 DEF LiveInv, Alive, Others, InExit
  <1> QED
    BY <1>1, <1>2, <1>3, <1>4, <1>5 DEF Control

\* A step that changes only its own thread, and wait_lock.
LEMMA LocalKept ==
  ASSUME Control, NEW p \in Slots,
         UNCHANGED <<proc, lock, cpu>>, Types', Others(p), Loops',
         proc[p].state = "RUNNING",
         th[p].pc \notin {"restore_mem", "restore_parent", "panic"},
         th'[p].pc \notin {"restore_mem", "restore_parent"},
         \/ /\ wlock' = wlock
            /\ th[p].pc \in InExit \cup InWait
                 <=> th'[p].pc \in InExit \cup InWait
         \/ wlock = None /\ wlock' = p /\ th'[p].pc \in InExit \cup InWait
         \/ /\ wlock' = None /\ th[p].pc \in InExit \cup InWait
            /\ th'[p].pc \notin InExit \cup InWait,
         Makes(p)' => Makes(p) /\ th'[p].arg = th[p].arg,
         th'[p].pc \in InExit => th[p].pc \in InExit \/ p # initproc
  PROVE  Control'
  BY ControlKept DEF Alive

\* The steps that change nothing but the thread that takes them, and wait_lock.
LEMMA LocalSteps ==
  ASSUME Control, NEW p \in Slots,
         \/ TrapKilled(p) \/ Syscall(p) \/ AllocprocFull(p) \/ ExitLock(p)
         \/ WaitLock(p) \/ WaitScanned(p) \/ WaitKilled(p) \/ RestoreIO(p)
  PROVE  Control'
  <1> USE DEF InExit, InWait, InRestore, Makes
  <1>0. Loops /\ WaitLockInv
    BY SMTT(30) DEF Control
  <1>1. CASE TrapKilled(p)
    <2>1. Loops'
      BY <1>0, <1>1, TrapKilledDoes, LoopsStep
    <2> QED
      BY <1>1, <2>1, TrapKilledDoes, LocalKept, SMTT(30)
  <1>2. CASE Syscall(p)
    <2>1. Loops'
      BY <1>0, <1>2, SyscallDoes, LoopsStep
    <2> QED
      BY <1>2, <2>1, SyscallDoes, LocalKept
  <1>3. CASE AllocprocFull(p)
    <2>1. Loops'
      BY <1>0, <1>3, AllocprocFullDoes, LoopsStep
    <2> QED
      BY <1>3, <2>1, AllocprocFullDoes, LocalKept
  <1>4. CASE ExitLock(p)
    <2>1. Loops'
      BY <1>0, <1>4, ExitLockDoes, LoopsStep
    <2> QED
      BY <1>4, <2>1, ExitLockDoes, LocalKept
  <1>5. CASE WaitLock(p)
    <2>1. Loops'
      BY <1>0, <1>5, WaitLockDoes, LoopsStep
    <2> QED
      BY <1>5, <2>1, WaitLockDoes, LocalKept
  <1>6. CASE WaitScanned(p)
    <2>1. Loops'
      BY <1>0, <1>6, WaitScannedDoes, LoopsStep
    <2> QED
      BY <1>6, <2>1, WaitScannedDoes, LocalKept
  <1>7. CASE WaitKilled(p)
    <2>1. Loops'
      BY <1>0, <1>7, WaitKilledDoes, LoopsStep
    <2>2. wlock = p
      BY <1>0, <1>7, WaitKilledDoes, SMTT(30) DEF WaitLockInv
    <2> QED
      BY <1>7, <2>1, <2>2, WaitKilledDoes, LocalKept
  <1>8. CASE RestoreIO(p)
    <2>1. Loops'
      BY <1>0, <1>8, RestoreIODoes, LoopsStep
    <2> QED
      BY <1>8, <2>1, RestoreIODoes, LocalKept, SMTT(30)
  <1> QED
    BY <1>1, <1>2, <1>3, <1>4, <1>5, <1>6, <1>7, <1>8

\* The steps that change entries of the table, and no lock of it.
LEMMA QuietSteps ==
  ASSUME Control, NEW p \in Slots,
         \/ ForkParent(p) \/ ForkRun(p) \/ Reparent(p) \/ ReparentWakeup(p)
         \/ ExitWakeup(p) \/ WaitScan(p) \/ Kill(p) \/ RestoreBad(p)
  PROVE  Control'
  <1> USE DEF Makes, InRestore, InExit, InWait
  <1>0. Types /\ Loops /\ CpuInv /\ WaitLockInv
    BY DEF Control
  <1>1. CASE ForkParent(p)
    <2>1. Loops'
      BY <1>0, <1>1, ForkParentDoes, LoopsStep, ZenonT(30)
    <2>2. \A r \in Slots : proc'[r].state = proc[r].state
      <3>1. PICK np \in Slots :
              /\ np = th[p].arg /\ proc[np].state = "USED"
              /\ proc'[np].parent = p /\ proc'[np].state = "USED"
              /\ \A r \in Slots : r # np => proc'[r] = proc[r]
        BY <1>1, ForkParentDoes, ZenonT(30)
      <3> QED BY <3>1
    <2>3. \A r \in Slots :
            /\ proc'[r].state = "RUNNING" <=> proc[r].state = "RUNNING"
            /\ proc[r].state = "USED" => proc'[r].state = "USED"
            /\ Alive(r) => Alive(r)'
      BY <2>2 DEF Alive
    <2>4. /\ proc[p].state = "RUNNING" /\ Types' /\ Others(p)
          /\ UNCHANGED <<lock, wlock, cpu>> /\ th'[p].arg = th[p].arg
          /\ th[p].pc = "fork_parent" /\ th'[p].pc = "fork_run"
      BY <1>1, ForkParentDoes
    <2> QED
      BY <2>1, <2>3, <2>4, ControlKept, ZenonT(30)
  <1>2. CASE ForkRun(p)
    <2>1. Loops'
      BY <1>0, <1>2, ForkRunDoes, LoopsStep, SMTT(30)
    <2> QED
      BY <1>2, <2>1, ForkRunDoes, ControlKept, SMTT(30) DEF Alive
  <1>3. CASE Reparent(p)
    <2>1. Loops'
      BY <1>0, <1>3, ReparentDoes, LoopsStep, SMTT(30) DEF Loops, Slots
    <2>2. \A r \in Slots : proc'[r].state = proc[r].state
      BY <1>3, ReparentDoes
    <2>3. \A r \in Slots :
            /\ proc'[r].state = "RUNNING" <=> proc[r].state = "RUNNING"
            /\ proc[r].state = "USED" => proc'[r].state = "USED"
            /\ Alive(r) => Alive(r)'
      BY <2>2 DEF Alive
    <2>4. /\ proc[p].state = "RUNNING" /\ Types' /\ Others(p)
          /\ UNCHANGED <<lock, wlock, cpu>> /\ th[p].pc = "reparent"
          /\ th'[p].pc \in {"exit_wakeup", "reparent", "reparent_wakeup"}
      BY <1>3, ReparentDoes, SMTT(30)
    <2> QED
      BY <2>1, <2>3, <2>4, ControlKept
  <1>4. ASSUME NEW ch, NEW next \in {"reparent", "zombie"}, NEW i \in Nat,
               th[p].pc \in {"reparent_wakeup", "exit_wakeup"},
               next = "reparent" => i >= 1,
               proc[p].state = "RUNNING", Wakeup(p, ch, next, i)
        PROVE  Control'
    <2>0. next \in Labels
      BY SMTT(30) DEF Labels
    <2>1. Loops'
      <3>1. \/ th'[p].pc = next /\ th'[p].idx = i
            \/ /\ th'[p].pc = th[p].pc /\ th'[p].idx = th[p].idx
               /\ th'[p].widx >= 1
        <4>1. \/ th'[p].pc = next /\ th'[p].idx = i
              \/ /\ th'[p].pc = th[p].pc /\ th'[p].idx = th[p].idx
                 /\ \E q \in Slots : th'[p].widx = q + 1
          BY <1>4, <2>0, WakeupDoes, ZenonT(30)
        <4> QED BY <4>1 DEF Slots
      <3>2. th[p].pc = "reparent_wakeup" => th[p].idx \in Slots
        BY <1>0 DEF Loops
      <3>3. Others(p)
        BY <1>4, <2>0, WakeupDoes, ZenonT(30)
      <3> QED
        BY <1>0, <1>4, <3>1, <3>2, <3>3, LoopsStep
    <2>2. \A r \in Slots :
            \/ proc'[r].state = proc[r].state
            \/ proc[r].state = "SLEEPING" /\ proc'[r].state = "RUNNABLE"
      BY <1>4, <2>0, WakeupDoes, ZenonT(30)
    <2>3. \A r \in Slots :
            /\ proc'[r].state = "RUNNING" <=> proc[r].state = "RUNNING"
            /\ proc[r].state = "USED" => proc'[r].state = "USED"
            /\ Alive(r) => Alive(r)'
      BY <2>2 DEF Alive
    <2>4. /\ Types' /\ Others(p) /\ UNCHANGED <<lock, wlock, cpu>>
          /\ th'[p].pc \in {next, th[p].pc}
      BY <1>4, <2>0, WakeupDoes, SMTT(30)
    <2> QED
      BY <1>4, <2>1, <2>3, <2>4, ControlKept
  <1>5. CASE ReparentWakeup(p)
    <2>1. proc[p].state = "RUNNING" /\ th[p].pc = "reparent_wakeup"
      BY <1>0, <1>5, Running DEF ReparentWakeup
    <2>2. th[p].idx + 1 \in Nat /\ th[p].idx + 1 >= 1
      BY <1>0, SMTT(30) DEF Types, Threads
    <2> QED
      BY <1>4, <1>5, <2>1, <2>2 DEF ReparentWakeup
  <1>6. CASE ExitWakeup(p)
    <2>1. proc[p].state = "RUNNING" /\ th[p].pc = "exit_wakeup"
      BY <1>0, <1>6, Running, SMTT(30) DEF ExitWakeup
    <2> QED
      BY <1>4, <1>6, <2>1 DEF ExitWakeup
  <1>7. CASE WaitScan(p)
    <2>1. Loops'
      BY <1>0, <1>7, WaitScanDoes, LoopsStep DEF Slots
    <2>2. \A r \in Slots :
            \/ proc'[r].state = proc[r].state
            \/ proc[r].state = "ZOMBIE" /\ proc'[r].state = "UNUSED"
      BY <1>7, WaitScanDoes DEF Unused
    <2>3. \A r \in Slots :
            /\ proc'[r].state = "RUNNING" <=> proc[r].state = "RUNNING"
            /\ proc[r].state = "USED" => proc'[r].state = "USED"
            /\ Alive(r) => Alive(r)'
      BY <2>2 DEF Alive
    <2>4. /\ proc[p].state = "RUNNING" /\ Types' /\ Others(p)
          /\ UNCHANGED <<lock, cpu>> /\ th[p].pc = "wait_scan"
          /\ \/ wlock' = wlock /\ th'[p].pc = "wait_scan"
             \/ wlock' = None /\ th'[p].pc = "user"
      BY <1>7, WaitScanDoes
    <2> QED
      BY <2>1, <2>3, <2>4, ControlKept
  <1>8. CASE Kill(p)
    <2>1. Loops'
      BY <1>0, <1>8, KillDoes, LoopsStep, SMTT(30) DEF Loops, Types, Threads
    <2>2. \A r \in Slots :
            \/ proc'[r].state = proc[r].state
            \/ proc[r].state = "SLEEPING" /\ proc'[r].state = "RUNNABLE"
      BY <1>8, KillDoes, ZenonT(30)
    <2>3. \A r \in Slots :
            /\ proc'[r].state = "RUNNING" <=> proc[r].state = "RUNNING"
            /\ proc[r].state = "USED" => proc'[r].state = "USED"
            /\ Alive(r) => Alive(r)'
      BY <2>2, SMTT(30) DEF Alive
    <2>4. /\ proc[p].state = "RUNNING" /\ Types' /\ Others(p)
          /\ UNCHANGED <<lock, wlock, cpu>>
          /\ th[p].pc = "kill" /\ th'[p].pc \in {"user", "kill"}
      <3>1. /\ proc[p].state = "RUNNING" /\ Types' /\ Others(p)
            /\ UNCHANGED <<lock, wlock, cpu>> /\ th[p].pc = "kill"
            /\ th'[p].pc = "user" \/ th'[p].pc = "kill"
        BY <1>8, KillDoes, ZenonT(30)
      <3> QED BY <3>1
    <2> QED
      BY <2>1, <2>3, <2>4, ControlKept, ZenonT(30)
  <1>9. CASE RestoreBad(p)
    <2>1. Loops'
      <3>1. Others(p) /\ th'[p].pc = "user"
        BY <1>9, RestoreBadDoes, ZenonT(30)
      <3> QED BY <1>0, <3>1, LoopsStep
    <2>2. /\ proc[p].state = "RUNNING" /\ Types' /\ Others(p)
          /\ UNCHANGED <<lock, wlock, cpu>>
          /\ th[p].pc = "restore_bad" /\ th'[p].pc = "user"
      BY <1>9, RestoreBadDoes, ZenonT(30)
    <2>3. PICK np \in Slots :
            /\ np = th[p].arg /\ proc[np].state = "USED" /\ lock[np] = None
            /\ proc'[np] = Unused
            /\ \A r \in Slots : r # np => proc'[r] = proc[r]
      BY <1>9, RestoreBadDoes, ZenonT(30)
    <2>4. Unused.state = "UNUSED"
      BY SMTT(30) DEF Unused
    <2>5. \A r \in Slots :
            /\ proc'[r].state = "RUNNING" <=> proc[r].state = "RUNNING"
            /\ Alive(r) => Alive(r)'
            /\ proc[r].state = "USED" =>
                 proc'[r].state = "USED" \/ r = th[p].arg
      BY <2>3, <2>4 DEF Alive
    <2>6. Makes(p) /\ ~Makes(p)'
      BY <2>2 DEF Makes, InRestore
    <2> QED
      BY <2>1, <2>2, <2>5, <2>6, ControlKept
  <1> QED
    BY <1>1, <1>2, <1>3, <1>5, <1>6, <1>7, <1>8, <1>9

\* A step that leaves the table alone takes no slot.
LEMMA MakeKept ==
  ASSUME MakeInv, NEW p \in Slots, Others(p), UNCHANGED proc,
         Makes(p)' => Makes(p) /\ th'[p].arg = th[p].arg
  PROVE  MakeInv'
  BY DEF MakeInv, Makes, Others, InRestore

\* allocproc() takes a slot that nobody else is filling; in restore() with its
\* lock held.
LEMMA AllocprocStep ==
  ASSUME Control, NEW p \in Slots, Allocproc(p)
  PROVE  Control'
  <1> USE SlotFacts
  <1>0. /\ Types /\ Loops /\ CpuInv
        /\ WaitLockInv /\ NpLockInv /\ MakeInv /\ LiveInv
    BY DEF Control
  <1>1. /\ proc[p].state = "RUNNING" /\ Types' /\ Others(p)
        /\ UNCHANGED <<wlock, cpu>>
        /\ th[p].pc \in {"fork_alloc", "restore_alloc"}
    BY AllocprocDoes, SMTT(30)
  <1>2. Loops'
    BY <1>0, AllocprocDoes, LoopsStep DEF Loops, Types, Threads
  <1>3. CASE UNCHANGED <<proc, lock>> /\ th'[p].pc = th[p].pc
    BY <1>1, <1>2, <1>3, LocalKept, SMTT(30) DEF Makes, InRestore, InExit, InWait
  <1>4. CASE \E q \in Slots :
               /\ proc[q].state = "UNUSED" /\ lock[q] = None
               /\ \A r \in Slots : r # q => proc'[r] = proc[r]
               /\ \/ /\ proc'[q] = Unused /\ UNCHANGED lock
                     /\ th'[p].pc = "user"
                  \/ /\ proc'[q].state = "USED" /\ th'[p].arg = q
                     /\ th'[p].pc = "fork_parent" /\ UNCHANGED lock
    <2>1. PICK q \in Slots :
               /\ proc[q].state = "UNUSED" /\ lock[q] = None
               /\ \A r \in Slots : r # q => proc'[r] = proc[r]
               /\ \/ /\ proc'[q].state = "UNUSED" /\ UNCHANGED lock
                     /\ th'[p].pc = "user"
                  \/ /\ proc'[q].state = "USED" /\ th'[p].arg = q
                     /\ th'[p].pc = "fork_parent" /\ UNCHANGED lock
      BY <1>4 DEF Unused
    <2>2. \A r \in Slots :
            /\ proc'[r].state = "RUNNING" <=> proc[r].state = "RUNNING"
            /\ proc[r].state = "USED" => proc'[r].state = "USED"
            /\ Alive(r) => Alive(r)'
      BY <2>1, SMTT(30) DEF Alive
    <2>3. th'[p].pc \in {"user", "fork_parent"} /\ UNCHANGED lock
      BY <2>1
    <2>4. Makes(p)' => th'[p].arg = q /\ proc'[q].state = "USED"
      BY <2>1 DEF Makes, InRestore
    <2>5. th'[p].pc \notin
            InExit \cup InWait \cup {"restore_mem", "restore_parent"}
      BY <2>3 DEF InExit, InWait
    <2>6. th[p].pc \notin
            InExit \cup InWait \cup {"restore_mem", "restore_parent", "panic"}
      BY <1>1 DEF InExit, InWait
    <2> QED
      BY <1>1, <1>2, <2>1, <2>2, <2>3, <2>4, <2>5, <2>6, ControlKept
  <1>5. CASE \E q \in Slots :
               /\ proc[q].state = "UNUSED" /\ lock[q] = None
               /\ \A r \in Slots : r # q => proc'[r] = proc[r]
               /\ proc'[q].state = "USED" /\ th'[p].arg = q
               /\ th'[p].pc = "restore_mem" /\ lock' = [lock EXCEPT ![q] = p]
    <2>1. PICK q \in Slots :
               /\ proc[q].state = "UNUSED" /\ lock[q] = None
               /\ \A r \in Slots : r # q => proc'[r] = proc[r]
               /\ proc'[q].state = "USED" /\ th'[p].arg = q
               /\ th'[p].pc = "restore_mem" /\ lock' = [lock EXCEPT ![q] = p]
      BY <1>5, ZenonT(30)
    <2>2. q # p
      BY <1>1, <2>1
    <2>3. \A r \in Slots : r # q => lock'[r] = lock[r]
      BY <2>1
    <2>4. lock'[q] = p
      BY <1>0, <2>1 DEF Types
    <2>5. CpuInv'
      BY <1>0, <1>1, <2>1, <2>2, <2>3, <2>4 DEF CpuInv, OnCpu, InSched
    <2>6. WaitLockInv'
      BY <1>0, <1>1, <2>1, SMTT(30) DEF WaitLockInv, Types, Others, InExit, InWait
    <2>7. NpLockInv'
      <3>1. \A r \in Slots : lock[r] = p => r = p
        BY <1>0, <1>1 DEF NpLockInv
      <3>2. \A r \in Slots : th[r].pc \in {"restore_mem", "restore_parent"} =>
              th[r].arg # q
        BY <1>0, <2>1 DEF NpLockInv
      <3> QED
        BY <1>0, <1>1, <2>1, <2>2, <2>3, <2>4, <3>1, <3>2
           DEF NpLockInv, Others, Types, MakeInv, Makes, InRestore
    <2>8. MakeInv'
      BY <1>0, <1>1, <2>1 DEF MakeInv, Makes, Others, InRestore
    <2>9. LiveInv'
      BY <1>0, <1>1, <2>1 DEF LiveInv, Alive, Others, InExit
    <2> QED
      BY <1>1, <1>2, <2>5, <2>6, <2>7, <2>8, <2>9 DEF Control
  <1> QED
    BY <1>3, <1>4, <1>5, AllocprocDoes

\* np->lock is released, or the kernel panics.
LEMMA RestoreMemStep ==
  ASSUME Control, NEW p \in Slots, RestoreMem(p)
  PROVE  Control'
  <1> USE SlotFacts
  <1>0. /\ Types /\ Loops /\ CpuInv
        /\ WaitLockInv /\ NpLockInv /\ MakeInv /\ LiveInv
    BY DEF Control
  <1> DEFINE np == th[p].arg
  <1>1. /\ proc[p].state = "RUNNING" /\ Types' /\ Others(p)
        /\ UNCHANGED <<proc, wlock, cpu>>
        /\ th[p].pc = "restore_mem" /\ th'[p].arg = np
        /\ \/ th'[p].pc = "panic" /\ UNCHANGED lock
           \/ th'[p].pc = "restore_io" /\ lock' = [lock EXCEPT ![np] = None]
    BY RestoreMemDoes
  <1>2. Loops'
    BY <1>0, <1>1, LoopsStep, SMTT(30)
  <1>3. np \in Slots /\ proc[np].state = "USED" /\ lock[np] = p /\ np # p
    BY <1>0, <1>1 DEF MakeInv, Makes, InRestore, NpLockInv
  <1> HIDE DEF np
  <1>4. /\ \A r \in Slots : r # np => lock'[r] = lock[r]
        /\ \/ th'[p].pc = "panic" /\ lock'[np] = p
           \/ th'[p].pc = "restore_io" /\ lock'[np] = None
    BY <1>0, <1>1, <1>3 DEF Types
  <1>5. CpuInv'
    BY <1>0, <1>1, <1>3, <1>4 DEF CpuInv, OnCpu, InSched
  <1>6. WaitLockInv'
    BY <1>0, <1>1 DEF WaitLockInv, Types, Others, InExit, InWait
  <1>7. NpLockInv'
    <2>1. \A r \in Slots :
            r # p /\ th[r].pc \in {"restore_mem", "restore_parent"} =>
              th[r].arg # np
      BY <1>0, <1>3, ZenonT(30) DEF NpLockInv
    <2>2. /\ th'[p].arg = th[p].arg
          /\ \A r \in Slots : r # p =>
               th'[r].pc = th[r].pc /\ (th[r].pc # "user" => th'[r] = th[r])
      BY <1>1, ZenonT(30) DEF np, Others
    <2>3. \A r, q \in Slots : lock'[q] = r /\ q # r => lock[q] = r
      BY <1>3, <1>4, ZenonT(30)
    <2>4. \A q \in Slots : lock'[q] = p /\ q # p => th'[p].pc = "panic"
      BY <1>0, <1>1, <1>3, <1>4 DEF NpLockInv, np
    <2>5. \A r, q \in Slots : lock'[q] = r /\ q # r =>
         /\ proc'[r].state = "RUNNING"
         /\ th'[r].pc \in {"restore_mem", "restore_parent", "panic"}
         /\ th'[r].arg = q
      BY <1>0, <1>1, <2>2, <2>3, <2>4 DEF NpLockInv
    <2>6. \A r \in Slots :
       th'[r].pc \in {"restore_mem", "restore_parent"} => lock'[th'[r].arg] = r
      <3>1. \A r \in Slots : th[r].pc \in {"restore_mem", "restore_parent"} =>
              th[r].arg \in Slots /\ lock[th[r].arg] = r
        BY <1>0 DEF NpLockInv, MakeInv, Makes, InRestore
      <3>2. th'[p].pc \notin {"restore_mem", "restore_parent"}
        BY <1>1
      <3>3. \A r \in Slots : th'[r].pc \in {"restore_mem", "restore_parent"} =>
              /\ r # p /\ th'[r] = th[r]
              /\ th[r].pc \in {"restore_mem", "restore_parent"}
        BY <2>2, <3>2
      <3>4. \A r \in Slots : th'[r].pc \in {"restore_mem", "restore_parent"} =>
              /\ th'[r].arg = th[r].arg /\ lock[th[r].arg] = r
              /\ th[r].arg \in Slots /\ th[r].arg # np
        BY <2>1, <3>1, <3>3, ZenonT(30)
      <3>5. \A x \in Slots : x # np => lock'[x] = lock[x]
        BY <1>4
      <3> QED
        BY <3>4, <3>5
    <2> QED
      BY <2>5, <2>6, ZenonT(30) DEF NpLockInv
  <1>8. MakeInv'
    <2>1. Makes(p)' => Makes(p) /\ th'[p].arg = th[p].arg
      BY <1>1 DEF Makes, InRestore, np
    <2> QED
      BY <1>0, <1>1, <2>1, MakeKept
  <1>9. LiveInv'
    BY <1>0, <1>1 DEF LiveInv, Alive, Others, InExit
  <1> QED
    BY <1>1, <1>2, <1>5, <1>6, <1>7, <1>8, <1>9 DEF Control

\* np->lock is taken again: nobody else has it.
LEMMA RestoreLockStep ==
  ASSUME Control, NEW p \in Slots, RestoreLock(p)
  PROVE  Control'
  <1> USE SlotFacts
  <1>0. /\ Types /\ Loops /\ CpuInv
        /\ WaitLockInv /\ NpLockInv /\ MakeInv /\ LiveInv
    BY DEF Control
  <1>1. PICK np \in Slots :
        /\ np = th[p].arg /\ proc[p].state = "RUNNING" /\ Types' /\ Others(p)
        /\ UNCHANGED <<proc, wlock, cpu>> /\ proc[np].state = "USED"
        /\ th[p].pc = "restore_lock" /\ th'[p].pc = "restore_parent"
        /\ th'[p].arg = np /\ lock[np] = None
        /\ lock' = [lock EXCEPT ![np] = p]
    BY <1>0, RestoreLockDoes, ZenonT(30) DEF MakeInv, Makes, InRestore
  <1>2. Loops'
    BY <1>0, <1>1, LoopsStep
  <1>3. /\ \A r \in Slots : r # np => lock'[r] = lock[r]
        /\ lock'[np] = p /\ np # p
    BY <1>0, <1>1, SMTT(30) DEF Types
  <1>4. CpuInv'
    BY <1>0, <1>1, <1>3, SMTT(30) DEF CpuInv, OnCpu, InSched
  <1>5. WaitLockInv'
    BY <1>0, <1>1, SMTT(30) DEF WaitLockInv, Types, Others, InExit, InWait
  <1>6. NpLockInv'
    <2>1. \A r \in Slots : lock[r] = p => r = p
      BY <1>0, <1>1, SMTT(30) DEF NpLockInv
    <2>2. \A r \in Slots : th[r].pc \in {"restore_mem", "restore_parent"} =>
            th[r].arg \in Slots /\ th[r].arg # np /\ lock[th[r].arg] = r
      BY <1>0, <1>1 DEF NpLockInv, MakeInv, Makes, InRestore
    <2>3. \A r \in Slots : r # p =>
            th'[r].pc = th[r].pc /\ (th[r].pc # "user" => th'[r] = th[r])
      BY <1>1, SMTT(30) DEF Others
    <2>4. \A r, q \in Slots : lock'[q] = r /\ q # r =>
         /\ proc'[r].state = "RUNNING"
         /\ th'[r].pc \in {"restore_mem", "restore_parent", "panic"}
         /\ th'[r].arg = q
      BY <1>0, <1>1, <1>3, <2>1, <2>3 DEF NpLockInv
    <2>5. \A r \in Slots :
            r # p /\ th'[r].pc \in {"restore_mem", "restore_parent"} =>
              lock'[th'[r].arg] = r
      <3>1. \A r \in Slots :
              r # p /\ th'[r].pc \in {"restore_mem", "restore_parent"} =>
                /\ th'[r].arg = th[r].arg /\ lock[th[r].arg] = r
                /\ th[r].arg \in Slots /\ th[r].arg # np
        BY <2>2, <2>3
      <3>2. \A x \in Slots : x # np => lock'[x] = lock[x]
        BY <1>3, SMTT(30)
      <3> QED
        BY <3>1, <3>2, ZenonT(30)
    <2> QED
      BY <1>1, <1>3, <2>4, <2>5 DEF NpLockInv
  <1>7. MakeInv'
    <2>1. Makes(p)' => Makes(p) /\ th'[p].arg = th[p].arg
      BY <1>1, SMTT(30) DEF Makes, InRestore
    <2> QED
      BY <1>0, <1>1, <2>1, MakeKept
  <1>8. LiveInv'
    BY <1>0, <1>1, SMTT(30) DEF LiveInv, Alive, Others, InExit
  <1> QED
    BY <1>1, <1>2, <1>4, <1>5, <1>6, <1>7, <1>8 DEF Control

\* restore_proc() is done with the slot, and with its lock.
LEMMA RestoreParentStep ==
  ASSUME Control, NEW p \in Slots, RestoreParent(p)
  PROVE  Control'
  <1> USE SlotFacts
  <1>0. /\ Types /\ Loops /\ CpuInv
        /\ WaitLockInv /\ NpLockInv /\ MakeInv /\ LiveInv
    BY DEF Control
  <1>1. PICK np \in Slots :
        /\ np = th[p].arg /\ proc[p].state = "RUNNING" /\ Types' /\ Others(p)
        /\ UNCHANGED <<wlock, cpu>> /\ proc[np].state = "USED"
        /\ th[p].pc = "restore_parent" /\ th'[p].pc = "user"
        /\ proc'[np].state = "RUNNABLE"
        /\ \A r \in Slots : r # np => proc'[r] = proc[r]
        /\ lock' = [lock EXCEPT ![np] = None]
    BY <1>0, RestoreParentDoes
  <1>2. Loops'
    BY <1>0, <1>1, LoopsStep
  <1>3. /\ \A r \in Slots : r # np => lock'[r] = lock[r]
        /\ lock[np] = p /\ lock'[np] = None /\ np # p
    BY <1>0, <1>1, SMTT(30) DEF Types, NpLockInv
  <1>4. CpuInv'
    BY <1>0, <1>1, <1>3 DEF CpuInv, OnCpu, InSched
  <1>5. WaitLockInv'
    BY <1>0, <1>1 DEF WaitLockInv, Types, Others, InExit, InWait
  <1>6. NpLockInv'
    <2>1. \A r \in Slots : lock[r] = p => r = p \/ r = np
      BY <1>0, <1>1, SMTT(30) DEF NpLockInv
    <2>2. \A r \in Slots :
            r # p /\ th[r].pc \in {"restore_mem", "restore_parent"} =>
            th[r].arg \in Slots /\ th[r].arg # np /\ lock[th[r].arg] = r
      BY <1>0, <1>1, <1>3 DEF NpLockInv, MakeInv, Makes, InRestore
    <2>3. \A r \in Slots : r # p =>
            th'[r].pc = th[r].pc /\ (th[r].pc # "user" => th'[r] = th[r])
      BY <1>1 DEF Others
    <2>4. \A r, q \in Slots : lock'[q] = r /\ q # r =>
            r # p /\ lock[q] = r
      BY <1>1, <1>3, <2>1
    <2>5. \A r, q \in Slots : lock[q] = r /\ q # r =>
            proc'[r].state = proc[r].state
      <3>1. \A r, q \in Slots : lock[q] = r /\ q # r =>
              proc[r].state = "RUNNING"
        BY <1>0, ZenonT(30) DEF NpLockInv
      <3>2. \A r \in Slots : proc[r].state = "RUNNING" => proc'[r] = proc[r]
        BY <1>1, ZenonT(30)
      <3> QED
        BY <3>1, <3>2
    <2>6. \A r, q \in Slots : lock'[q] = r /\ q # r =>
         /\ proc'[r].state = "RUNNING"
         /\ th'[r].pc \in {"restore_mem", "restore_parent", "panic"}
         /\ th'[r].arg = q
      BY <1>0, <2>3, <2>4, <2>5, SMTT(30) DEF NpLockInv
    <2>7. \A r \in Slots :
       th'[r].pc \in {"restore_mem", "restore_parent"} => lock'[th'[r].arg] = r
      BY <1>1, <1>3, <2>2, <2>3, SMTT(30)
    <2> QED
      BY <2>6, <2>7 DEF NpLockInv
  <1>7. MakeInv'
    <2>1. \A r \in Slots : Makes(r)' => r # p /\ Makes(r) /\ th'[r] = th[r]
      BY <1>1, ZenonT(30) DEF Makes, Others, InRestore
    <2>2. \A r \in Slots : r # p /\ Makes(r) =>
            /\ th[r].arg \in Slots /\ th[r].arg # np
            /\ proc[th[r].arg].state = "USED"
      BY <1>0, <1>1 DEF MakeInv, Makes, InRestore
    <2>3. \A r \in Slots : Makes(r)' => proc'[th[r].arg].state = "USED"
      <3>1. \A x \in Slots : x # np /\ proc[x].state = "USED" =>
              proc'[x].state = "USED"
        BY <1>1
      <3> HIDE <1>1
      <3> QED
        BY <2>1, <2>2, <3>1, ZenonT(30)
    <2>4. \A r, s \in Slots :
            Makes(r)' /\ Makes(s)' /\ th'[r].arg = th'[s].arg => r = s
      BY <1>0, <2>1, SMTT(30) DEF MakeInv
    <2> QED
      BY <2>1, <2>2, <2>3, <2>4, ZenonT(30) DEF MakeInv
  <1>8. LiveInv'
    BY <1>0, <1>1 DEF LiveInv, Alive, Others, InExit
  <1> QED
    BY <1>1, <1>2, <1>4, <1>5, <1>6, <1>7, <1>8 DEF Control

\* kexit() and sleep() give up the CPU, with wait_lock released.
LEMMA GiveUpStep ==
  ASSUME Control, NEW p \in Slots, Zombie(p) \/ WaitSleep(p)
  PROVE  Control'
  <1> USE SlotFacts
  <1>0. /\ Types /\ Loops /\ CpuInv
        /\ WaitLockInv /\ NpLockInv /\ MakeInv /\ LiveInv
    BY SMTT(30) DEF Control
  <1>1. /\ proc[p].state = "RUNNING" /\ Types' /\ Others(p)
        /\ UNCHANGED cpu /\ wlock' = None
        /\ \/ /\ th[p].pc = "zombie" /\ th'[p].pc = "user"
              /\ proc'[p].state = "ZOMBIE"
           \/ /\ th[p].pc = "wait_sleep" /\ th'[p].pc = "wait"
              /\ proc'[p].state = "SLEEPING"
        /\ lock[p] = None /\ lock' = [lock EXCEPT ![p] = p]
        /\ \A r \in Slots : r # p => proc'[r] = proc[r]
    <2>1. CASE Zombie(p)
      BY <2>1, ZombieDoes, ZenonT(30)
    <2>2. CASE WaitSleep(p)
      BY <2>2, WaitSleepDoes, ZenonT(30)
    <2> QED BY <2>1, <2>2
  <1>2. Loops'
    BY <1>0, <1>1, LoopsStep
  <1>3. /\ \A r \in Slots : r # p => lock'[r] = lock[r]
        /\ lock'[p] = p /\ wlock = p
    BY <1>0, <1>1 DEF Types, WaitLockInv, InExit, InWait
  <1>4. CpuInv'
    <2>1. OnCpu(p)
      BY <1>0, <1>1 DEF CpuInv
    <2> QED
      BY <1>0, <1>1, <1>3, <2>1 DEF CpuInv, OnCpu, InSched
  <1>5. WaitLockInv'
    BY <1>0, <1>1, <1>3, SMTT(30) DEF WaitLockInv, Types, Others, InExit, InWait
  <1>6. NpLockInv'
    BY <1>0, <1>1, <1>3, SMTT(30) DEF NpLockInv, Others, MakeInv, Makes, InRestore
  <1>7. MakeInv'
    <2>1. \A r \in Slots : Makes(r)' => r # p /\ Makes(r) /\ th'[r] = th[r]
      BY <1>1, SMTT(30) DEF Makes, Others, InRestore
    <2>2. \A r \in Slots : Makes(r) => th[r].arg \in Slots /\ th[r].arg # p
      BY <1>0, <1>1, SMTT(30) DEF MakeInv
    <2> QED
      BY <1>0, <1>1, <2>1, <2>2, SMTT(30) DEF MakeInv
  <1>8. LiveInv'
    BY <1>0, <1>1 DEF LiveInv, Alive, Others, InExit
  <1> QED
    BY <1>1, <1>2, <1>4, <1>5, <1>6, <1>7, <1>8 DEF Control

\* A timer interrupt gives up the CPU of a process that holds no lock.
LEMMA YieldStep ==
  ASSUME Control, NEW p \in Slots, Yield(p)
  PROVE  Control'
  <1> USE SlotFacts
  <1>0. /\ Types /\ Loops /\ CpuInv
        /\ WaitLockInv /\ NpLockInv /\ MakeInv /\ LiveInv
    BY DEF Control
  <1>1. /\ OnCpu(p) /\ wlock # p /\ \A q \in Slots : lock[q] # p
        /\ UNCHANGED <<nextpid, wlock, cpu, th>> /\ lock[p] = None
        /\ lock' = [lock EXCEPT ![p] = p]
        /\ proc' = [proc EXCEPT ![p] = [proc[p] EXCEPT !.state = "RUNNABLE"]]
    BY DEF Yield, Sched, Free
  <1>2. proc[p].state = "RUNNING"
    BY <1>0, <1>1 DEF CpuInv, InSched
  <1>3. /\ proc' \in [Slots -> Entries] /\ proc'[p].state = "RUNNABLE"
        /\ \A r \in Slots : r # p => proc'[r] = proc[r]
    BY <1>0, <1>1 DEF Types, Entries, States
  <1>4. /\ lock' \in [Slots -> Slots \cup {None}] /\ lock'[p] = p
        /\ \A r \in Slots : r # p => lock'[r] = lock[r]
    BY <1>0, <1>1 DEF Types
  <1>5. Types' /\ Loops'
    BY <1>0, <1>1, <1>3, <1>4 DEF Types, Loops
  <1>6. CpuInv'
    BY <1>0, <1>1, <1>3, <1>4 DEF CpuInv, OnCpu, InSched
  <1>7. WaitLockInv'
    BY <1>0, <1>1, <1>3 DEF WaitLockInv
  <1>8. NpLockInv'
    <2>1. th[p].pc \notin {"restore_mem", "restore_parent"}
      BY <1>0, <1>1, SMTT(30) DEF NpLockInv, MakeInv, Makes, InRestore
    <2>2. \A r \in Slots : th[r].pc \in {"restore_mem", "restore_parent"} =>
            th[r].arg \in Slots /\ lock[th[r].arg] = r /\ th[r].arg # p
      BY <1>0, <1>2 DEF NpLockInv, MakeInv, Makes, InRestore
    <2>3. \A r, q \in Slots : lock'[q] = r /\ q # r =>
            r # p /\ lock[q] = r
      BY <1>1, <1>4
    <2> QED
      BY <1>0, <1>1, <1>3, <1>4, <2>2, <2>3 DEF NpLockInv
  <1>9. MakeInv' /\ LiveInv'
    <2>1. \A r \in Slots : Makes(r) => th[r].arg \in Slots /\ th[r].arg # p
      BY <1>0, <1>2 DEF MakeInv
    <2>2. \A r \in Slots : Makes(r)' <=> Makes(r)
      BY <1>1 DEF Makes
    <2>3. MakeInv'
      BY <1>0, <1>1, <1>3, <2>1, <2>2 DEF MakeInv
    <2>4. LiveInv'
      BY <1>0, <1>1, <1>3 DEF LiveInv, Alive
    <2> QED
      BY <2>3, <2>4
  <1> QED
    BY <1>5, <1>6, <1>7, <1>8, <1>9 DEF Control

\* The scheduler runs a process whose lock is free, so that it is on no CPU.
LEMMA RunStep ==
  ASSUME Control, NEW c \in CPUs, NEW p \in Slots, Run(c, p)
  PROVE  Control'
  <1> USE SlotFacts
  <1>0. /\ Types /\ Loops /\ CpuInv
        /\ WaitLockInv /\ NpLockInv /\ MakeInv /\ LiveInv
    BY DEF Control
  <1>1. /\ cpu[c] = None /\ lock[p] = None /\ proc[p].state = "RUNNABLE"
        /\ cpu' = [cpu EXCEPT ![c] = p]
        /\ UNCHANGED <<nextpid, lock, wlock, th>>
        /\ proc' = [proc EXCEPT ![p].state = "RUNNING", ![p].chan = None]
    BY DEF Run, Chosen, Free
  <1>2. /\ proc' \in [Slots -> Entries] /\ proc'[p].state = "RUNNING"
        /\ \A r \in Slots : r # p => proc'[r] = proc[r]
    <2>1. PICK s \in States : s = "RUNNING"
      BY DEF States
    <2>2. PICK n \in Slots \cup {None} : n = None
      OBVIOUS
    <2>3. proc' = [proc EXCEPT ![p] = [proc[p] EXCEPT !.state = s, !.chan = n]]
      BY <1>0, <1>1, <2>1, <2>2, ZenonT(30) DEF Types
    <2>4. /\ proc' \in [Slots -> Entries] /\ proc'[p].state = s
          /\ \A r \in Slots : r # p => proc'[r] = proc[r]
      BY <1>0, <2>3, EntrySleeps, ZenonT(30) DEF Types
    <2> QED
      BY <2>1, <2>4
  <1>3. /\ cpu' \in [CPUs -> Slots \cup {None}] /\ cpu'[c] = p
        /\ \A d \in CPUs : d # c => cpu'[d] = cpu[d]
    BY <1>0, <1>1 DEF Types
  <1>4. Types' /\ Loops'
    BY <1>0, <1>1, <1>2, <1>3 DEF Types, Loops
  <1>5. ~OnCpu(p)
    BY <1>0, <1>1 DEF CpuInv, InSched
  <1>6. \A r \in Slots : OnCpu(r)' <=> OnCpu(r) \/ r = p
    BY <1>1, <1>3 DEF OnCpu
  <1>7. CpuInv'
    <2>1. \A d, e \in CPUs : cpu'[d] = cpu'[e] /\ cpu'[d] # None => d = e
      BY <1>0, <1>3, <1>5 DEF CpuInv, OnCpu
    <2> QED
      BY <1>0, <1>1, <1>2, <1>6, <2>1, SMTT(30) DEF CpuInv, InSched
  <1>8. WaitLockInv' /\ NpLockInv'
    BY <1>0, <1>1, <1>2 DEF WaitLockInv, NpLockInv
  <1>9. MakeInv'
    <2>1. \A r \in Slots : Makes(r)' <=> Makes(r)
      BY <1>1 DEF Makes
    <2>2. \A r \in Slots : Makes(r) => th[r].arg \in Slots /\ th[r].arg # p
      BY <1>0, <1>1 DEF MakeInv
    <2> QED
      BY <1>0, <1>1, <1>2, <2>1, <2>2 DEF MakeInv
  <1>10. LiveInv'
    BY <1>0, <1>1, <1>2 DEF LiveInv, Alive
  <1> QED
    BY <1>4, <1>7, <1>8, <1>9, <1>10 DEF Control

\* The scheduler takes a process off its CPU and releases its lock.
LEMMA SwtchStep ==
  ASSUME Control, NEW c \in CPUs, NEW p \in Slots, Swtch(c, p)
  PROVE  Control'
  <1> USE SlotFacts
  <1>0. /\ Types /\ Loops /\ CpuInv
        /\ WaitLockInv /\ NpLockInv /\ MakeInv /\ LiveInv
    BY DEF Control
  <1>1. /\ cpu[c] = p /\ lock[p] = p
        /\ cpu' = [cpu EXCEPT ![c] = None] /\ lock' = [lock EXCEPT ![p] = None]
        /\ UNCHANGED <<proc, nextpid, wlock, th>>
    BY DEF Swtch, InSched
  <1>2. /\ cpu' \in [CPUs -> Slots \cup {None}] /\ cpu'[c] = None
        /\ \A d \in CPUs : d # c => cpu'[d] = cpu[d]
    BY <1>0, <1>1 DEF Types
  <1>3. /\ lock' \in [Slots -> Slots \cup {None}] /\ lock'[p] = None
        /\ \A r \in Slots : r # p => lock'[r] = lock[r]
    BY <1>0, <1>1 DEF Types
  <1>4. Types' /\ Loops'
    BY <1>0, <1>1, <1>2, <1>3 DEF Types, Loops
  <1>5. CpuInv'
    <2>1. ~OnCpu(p)'
      BY <1>0, <1>1, <1>2 DEF CpuInv, OnCpu
    <2>2. \A r \in Slots : r # p => (OnCpu(r)' <=> OnCpu(r))
      BY <1>1, <1>2, SMTT(30) DEF OnCpu
    <2>3. \A d, e \in CPUs : cpu'[d] = cpu'[e] /\ cpu'[d] # None => d = e
      BY <1>0, <1>2 DEF CpuInv
    <2>4. proc[p].state # "RUNNING"
      BY <1>0, <1>1, ZenonT(30) DEF CpuInv, InSched
    <2> QED
      BY <1>0, <1>1, <1>3, <2>1, <2>2, <2>3, <2>4, SMTT(30) DEF CpuInv, InSched
  <1>6. WaitLockInv'
    BY <1>0, <1>1, ZenonT(30) DEF WaitLockInv
  <1>7. NpLockInv'
    <2>1. \A r \in Slots : th[r].pc \in {"restore_mem", "restore_parent"} =>
            /\ th[r].arg \in Slots /\ lock[th[r].arg] = r
            /\ proc[th[r].arg].state = "USED"
      BY <1>0, ZenonT(30) DEF NpLockInv, MakeInv, Makes, InRestore
    <2>2. \A r \in Slots : th[r].pc \in {"restore_mem", "restore_parent"} =>
            th[r].arg # r
      BY <1>0, <2>1, ZenonT(30) DEF LiveInv, Alive
    <2>3. \A r \in Slots : th[r].pc \in {"restore_mem", "restore_parent"} =>
            th[r].arg # p
      BY <1>1, <2>1, <2>2, ZenonT(30)
    <2> QED
      BY <1>0, <1>1, <1>3, <2>1, <2>3, SMTT(30) DEF NpLockInv
  <1>8. MakeInv' /\ LiveInv'
    BY <1>0, <1>1 DEF MakeInv, Makes, LiveInv, Alive
  <1> QED
    BY <1>4, <1>5, <1>6, <1>7, <1>8 DEF Control

\* Every step keeps the control invariant.
LEMMA ControlStep ==
  ASSUME Control, [Next]_vars
  PROVE  Control'
  <1>1. CASE UNCHANGED vars
    <2>1. UNCHANGED <<proc, th, lock, wlock, cpu, nextpid>>
      BY <1>1, Zenon DEF vars
    <2>2. Types' /\ Loops' /\ WaitLockInv' /\ NpLockInv'
      BY <2>1, SMTT(30)
      DEF Control, Types, Loops, WaitLockInv, NpLockInv
    <2>3. CpuInv'
      BY <2>1, SMTT(30) DEF Control, CpuInv, OnCpu, InSched
    <2>4. MakeInv' /\ LiveInv'
      BY <2>1, SMTT(30) DEF Control, MakeInv, Makes, LiveInv, Alive
    <2> QED
      BY <2>2, <2>3, <2>4 DEF Control
  <1>2. ASSUME NEW c \in CPUs, NEW p \in Slots, Run(c, p) \/ Swtch(c, p)
        PROVE  Control'
    BY <1>2, RunStep, SwtchStep
  <1>3. ASSUME NEW p \in Slots, Yield(p) \/ Syscall(p) \/ KernelStep(p)
        PROVE  Control'
    BY <1>3, YieldStep, LocalSteps, QuietSteps, AllocprocStep, RestoreMemStep,
       RestoreLockStep, RestoreParentStep, GiveUpStep DEF KernelStep
  <1> QED
    BY <1>1, <1>2, <1>3, SMTT(30) DEF Next

\* After userinit() it holds.
LEMMA ControlInit == Init => Control
  <1> SUFFICES ASSUME Init PROVE Control
    OBVIOUS
  <1> USE SlotFacts
  <1>1. /\ \A p \in Slots : th[p] = User /\ lock[p] = None
        /\ \A p \in Slots :
             proc[p].state = IF p = initproc THEN "RUNNABLE" ELSE "UNUSED"
        /\ \A c \in CPUs : cpu[c] = None
        /\ wlock = None
    BY DEF Init, Unused
  <1>2. Types
    <2>1. [Unused EXCEPT !.state = "RUNNABLE", !.pid = 1] \in Entries
      BY ZenonT(30) DEF Unused, Entries, States
    <2> QED
      BY <2>1 DEF Init, Types
  <1>3. \A p \in Slots : th[p].pc = "user"
    BY <1>1 DEF User
  <1> QED
    BY <1>1, <1>2, <1>3 DEF Control, Loops, CpuInv, OnCpu, InSched,
       WaitLockInv, InExit, InWait, NpLockInv, MakeInv, Makes, InRestore,
         LiveInv, Alive
=============================================================================
