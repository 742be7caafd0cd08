----------------------------- MODULE ProcProofs -----------------------------
(***************************************************************************)
(* What the process table promises, for every number of slots and CPUs.    *)
(* First the family invariant: who has a parent, and that a parent lives.  *)
(* Then that no exit is missed, which needs wait_lock: the steps of exit() *)
(* and wait() do not mix.  The theorems are at the end.                    *)
(***************************************************************************)
EXTENDS ProcInv

\* p is in exit() and q is, from here on, no child of p's: reparent() has been
\* past it.
Left(p, q) ==
  \/ th[p].pc = "reparent" /\ q < th[p].idx
  \/ th[p].pc = "reparent_wakeup" /\ q <= th[p].idx
  \/ th[p].pc \in {"exit_wakeup", "zombie"}

\* A slot that is free or being filled.
Reserved(p) == proc[p].state \in {"UNUSED", "USED"}

\* Every other process but init has a parent, a parent is alive, and a child of
\* fork() has its parent before it can run; exit() gives its children away.
FamilyInv ==
  /\ \A p \in Slots \ {initproc} : ~Reserved(p) => proc[p].parent # None
  /\ \A p \in Slots : proc[p].parent # None => Alive(proc[p].parent)
  /\ \A p \in Slots : th[p].pc = "fork_run" => proc[th[p].arg].parent # None
  /\ \A p, q \in Slots : Left(p, q) => proc[q].parent # p

\* The frame of every step: parents that change go to None, to init or to the
\* process that takes the step; and who dies has no children.
LEMMA FamilyKept ==
  ASSUME Control, Control', FamilyInv, NEW p \in Slots, Others(p),
         \A r \in Slots : Alive(r) =>
           Alive(r)' \/ (r = p /\ \A q \in Slots : proc'[q].parent # p),
         \A r \in Slots : ~Reserved(r)' =>
           \/ proc'[r].parent # None
           \/ ~Reserved(r) /\ proc'[r].parent = proc[r].parent,
         \A r \in Slots :
           \/ proc'[r].parent \in {proc[r].parent, None, initproc}
           \/ proc'[r].parent = p /\ Alive(p)',
         \A r \in Slots :
            proc[r].state = "USED" /\ proc[r].parent # None =>
              \/ proc'[r].parent # None
              \/ Makes(p) /\ r = th[p].arg,
         th'[p].pc = "fork_run" => proc'[th'[p].arg].parent # None,
         \A q \in Slots : Left(p, q)' => proc'[q].parent # p
  PROVE  FamilyInv'
  <1> USE SlotFacts
  <1>0. Types /\ Types' /\ MakeInv /\ LiveInv /\ LiveInv'
    BY DEF Control
  <1>1. (\A r \in Slots \ {initproc} : ~Reserved(r) => proc[r].parent # None)'
    BY DEF FamilyInv
  <1>2. (\A r \in Slots : proc[r].parent # None => Alive(proc[r].parent))'
    <2> SUFFICES ASSUME NEW r \in Slots, proc'[r].parent # None
                 PROVE  Alive(proc[r].parent)'
      OBVIOUS
    <2>1. CASE proc'[r].parent = proc[r].parent
      <3> DEFINE x == proc[r].parent
      <3>1. x \in Slots /\ Alive(x)
        BY <1>0, <2>1 DEF FamilyInv, Types, Entries
      <3>2. Alive(x)'
        BY <2>1, <3>1
      <3> QED
        BY <2>1, <3>2 DEF Alive
    <2>2. CASE proc'[r].parent = initproc
      BY <1>0, <2>2 DEF LiveInv, Alive
    <2>3. CASE proc'[r].parent = p /\ Alive(p)'
      BY <2>3 DEF Alive
    <2> QED
      BY <2>1, <2>2, <2>3, ZenonT(30)
  <1>3. (\A r \in Slots : th[r].pc = "fork_run" =>
          proc[th[r].arg].parent # None)'
    <2> SUFFICES ASSUME NEW r \in Slots, r # p, th'[r].pc = "fork_run"
                 PROVE  proc'[th'[r].arg].parent # None
      OBVIOUS
    <2> DEFINE np == th[r].arg
    <2>1. th[r].pc = "fork_run" /\ th'[r] = th[r]
      BY DEF Others
    <2>2. /\ Makes(r) /\ np \in Slots
          /\ proc[np].state = "USED" /\ proc[np].parent # None
      BY <1>0, <2>1 DEF Makes, MakeInv, FamilyInv
    <2>3. ~(Makes(p) /\ np = th[p].arg)
      BY <1>0, <2>2, ZenonT(30) DEF MakeInv
    <2> QED
      BY <2>1, <2>2, <2>3
  <1>4. (\A r, q \in Slots : Left(r, q) => proc[q].parent # r)'
    <2> SUFFICES ASSUME NEW r \in Slots, NEW q \in Slots, r # p, Left(r, q)'
                 PROVE  proc'[q].parent # r
      OBVIOUS
    <2>1. th'[r] = th[r]
      BY DEF Left, Others
    <2>2. Left(r, q)
      BY <2>1 DEF Left
    <2>3. proc[q].parent # r /\ r # initproc
      BY <1>0, <2>2 DEF FamilyInv, LiveInv, Left, InExit
    <2> QED
      BY <2>3
  <1> QED
    BY <1>1, <1>2, <1>3, <1>4 DEF FamilyInv

\* A step that changes no parent, kills nobody and makes nobody.
LEMMA FamilySame ==
  ASSUME Control, Control', FamilyInv, NEW p \in Slots, Others(p),
         \A r \in Slots : proc'[r].parent = proc[r].parent,
         \A r \in Slots : Alive(r) => Alive(r)',
         \A r \in Slots : ~Reserved(r)' => ~Reserved(r),
         th'[p].pc = "fork_run" => proc'[th'[p].arg].parent # None,
         \A q \in Slots : Left(p, q)' => proc[q].parent # p
  PROVE  FamilyInv'
  BY FamilyKept

\* The steps that do not touch the table.
LEMMA FamilyLocal ==
  ASSUME Control, Control', FamilyInv, NEW p \in Slots,
         \/ TrapKilled(p) \/ Syscall(p) \/ AllocprocFull(p) \/ ExitLock(p)
         \/ WaitLock(p) \/ WaitScanned(p) \/ WaitKilled(p) \/ RestoreIO(p)
         \/ RestoreMem(p) \/ RestoreLock(p)
  PROVE  FamilyInv'
  <1>1. /\ UNCHANGED proc /\ Others(p) /\ th'[p].pc # "fork_run"
        /\ th'[p].pc \notin {"reparent_wakeup", "exit_wakeup", "zombie"}
        /\ th'[p].pc = "reparent" => th'[p].idx = 1
    BY TrapKilledDoes, SyscallDoes, AllocprocFullDoes, ExitLockDoes,
       WaitLockDoes, WaitScannedDoes, WaitKilledDoes, RestoreIODoes,
       RestoreMemDoes, RestoreLockDoes
  <1>2. \A q \in Slots : ~Left(p, q)'
    BY <1>1 DEF Left, Slots
  <1> QED
    BY <1>1, <1>2, FamilySame DEF Alive, Reserved

\* fork() and restore(): a child has a parent before it can run.
LEMMA FamilyFork ==
  ASSUME Control, Control', FamilyInv, NEW p \in Slots,
         \/ Allocproc(p) \/ ForkParent(p) \/ ForkRun(p)
         \/ RestoreBad(p) \/ RestoreParent(p)
  PROVE  FamilyInv'
  <1> USE SlotFacts
  <1>0. MakeInv /\ LiveInv
    BY DEF Control
  <1>1. ASSUME th'[p].pc \notin InExit, NEW q \in Slots
        PROVE  ~Left(p, q)'
    BY <1>1 DEF Left, InExit
  <1>2. CASE Allocproc(p)
    <2>1. Others(p) /\ th'[p].pc \notin InExit \cup {"fork_run"}
      BY <1>2, AllocprocDoes DEF InExit
    <2>2. CASE UNCHANGED proc
      BY <1>1, <2>1, <2>2, FamilySame DEF Alive, Reserved
    <2>3. CASE ~UNCHANGED proc
      <3>1. PICK q \in Slots :
              /\ proc[q].state = "UNUSED"
              /\ \A r \in Slots : r # q => proc'[r] = proc[r]
              /\ \/ proc'[q].state = "UNUSED" /\ proc'[q].parent = None
                 \/ proc'[q].state = "USED" /\ proc'[q].parent = proc[q].parent
        BY <1>2, <2>3, AllocprocDoes DEF Unused
      <3>2. \A r \in Slots : /\ Alive(r) => Alive(r)'
                             /\ ~Reserved(r)' =>
                                  /\ ~Reserved(r)
                                  /\ proc'[r].parent = proc[r].parent
                             /\ proc'[r].parent \in {proc[r].parent, None}
                             /\ proc[r].state = "USED" =>
                                  proc'[r].parent = proc[r].parent
        BY <3>1, ZenonT(30) DEF Alive, Reserved
      <3> QED
        BY <1>1, <2>1, <3>2, FamilyKept
    <2> QED
      BY <2>2, <2>3
  <1>3. CASE ForkParent(p)
    <2>1. PICK np \in Slots :
            /\ Others(p) /\ th'[p].pc = "fork_run" /\ th'[p].arg = np
            /\ proc[np].state = "USED" /\ proc'[np].state = "USED"
            /\ proc'[np].parent = p /\ proc[p].state = "RUNNING"
            /\ \A r \in Slots : r # np => proc'[r] = proc[r]
      BY <1>3, ForkParentDoes
    <2>2. \A r \in Slots : /\ Alive(r) => Alive(r)'
                           /\ ~Reserved(r)' =>
                                  /\ ~Reserved(r)
                                  /\ proc'[r].parent = proc[r].parent
                           /\ proc'[r].parent \in {proc[r].parent, p}
                           /\ proc[r].parent # None => proc'[r].parent # None
      BY <2>1 DEF Alive, Reserved
    <2>3. Alive(p)' /\ th'[p].pc \notin InExit
      BY <2>1 DEF Alive, InExit
    <2> QED
      BY <1>1, <2>1, <2>2, <2>3, FamilyKept, ZenonT(30)
  <1>4. CASE ForkRun(p)
    <2>1. PICK np \in Slots :
            /\ Others(p) /\ th'[p].pc = "user" /\ np = th[p].arg
            /\ th[p].pc = "fork_run"
            /\ proc[np].state = "USED" /\ proc'[np].state = "RUNNABLE"
            /\ proc'[np].parent = proc[np].parent
            /\ \A r \in Slots : r # np => proc'[r] = proc[r]
      BY <1>4, ForkRunDoes, ZenonT(30)
    <2>2. proc[np].parent # None
      BY <2>1 DEF FamilyInv
    <2>3. \A r \in Slots : /\ Alive(r) => Alive(r)'
                           /\ ~Reserved(r)' =>
                                ~Reserved(r) \/ proc'[r].parent # None
                           /\ proc'[r].parent = proc[r].parent
      BY <2>1, <2>2 DEF Alive, Reserved
    <2>4. th'[p].pc \notin InExit
      BY <2>1, SMTT(30) DEF InExit
    <2> QED
      BY <1>1, <2>1, <2>3, <2>4, FamilyKept
  <1>5. CASE RestoreBad(p)
    <2>1. PICK np \in Slots :
            /\ Others(p) /\ th'[p].pc = "user" /\ np = th[p].arg
            /\ th[p].pc = "restore_bad"
            /\ proc[np].state = "USED" /\ proc'[np].state = "UNUSED"
            /\ proc'[np].parent = None
            /\ \A r \in Slots : r # np => proc'[r] = proc[r]
      BY <1>5, RestoreBadDoes DEF Unused
    <2>2. Makes(p) /\ th'[p].pc \notin InExit
      BY <2>1 DEF Makes, InRestore, InExit
    <2>3. \A r \in Slots : /\ Alive(r) => Alive(r)'
                           /\ ~Reserved(r)' =>
                                  /\ ~Reserved(r)
                                  /\ proc'[r].parent = proc[r].parent
                           /\ proc'[r].parent \in {proc[r].parent, None}
                           /\ proc'[r].parent = proc[r].parent \/ r = th[p].arg
      BY <2>1 DEF Alive, Reserved
    <2> QED
      BY <1>1, <2>1, <2>2, <2>3, FamilyKept, SMTT(30)
  <1>6. CASE RestoreParent(p)
    <2>1. PICK np \in Slots :
            /\ Others(p) /\ th'[p].pc = "user"
            /\ proc[np].state = "USED" /\ proc'[np].state = "RUNNABLE"
            /\ proc'[np].parent = initproc
            /\ \A r \in Slots : r # np => proc'[r] = proc[r]
      BY <1>6, RestoreParentDoes, ZenonT(30)
    <2>2. \A r \in Slots : /\ Alive(r) => Alive(r)'
                           /\ ~Reserved(r)' =>
                                \/ proc'[r].parent # None
                                \/ /\ ~Reserved(r)
                                   /\ proc'[r].parent = proc[r].parent
                           /\ proc'[r].parent \in {proc[r].parent, initproc}
                           /\ proc'[r].parent # proc[r].parent =>
                                proc'[r].parent # None
      BY <2>1 DEF Alive, Reserved
    <2>3. th'[p].pc \notin InExit
      BY <2>1 DEF InExit
    <2> QED
      BY <1>1, <2>1, <2>2, <2>3, FamilyKept
  <1> QED
    BY <1>2, <1>3, <1>4, <1>5, <1>6

\* exit(): when the process becomes a zombie, its children have gone to init.
LEMMA FamilyExit ==
  ASSUME Control, Control', FamilyInv, NEW p \in Slots,
         Reparent(p) \/ ReparentWakeup(p) \/ ExitWakeup(p) \/ Zombie(p)
  PROVE  FamilyInv'
  <1> USE SlotFacts
  <1>0. Types /\ CpuInv /\ LiveInv /\ Loops
    BY DEF Control
  <1>1. CASE Reparent(p)
    <2>0. /\ Others(p) /\ th[p].pc = "reparent" /\ p # initproc
          /\ th'[p].pc # "fork_run" /\ th[p].idx \in Nat
      BY <1>0, <1>1, ReparentDoes DEF LiveInv, InExit, Types, Threads
    <2>1. \A q \in Slots : q < th[p].idx => proc[q].parent # p
      BY <2>0 DEF FamilyInv, Left
    <2>2. CASE th[p].idx > NPROC
      <3>1. UNCHANGED proc
        BY <1>1, <2>2, <2>0, ReparentDoes, ProcAssumption DEF Slots
      <3>2. \A q \in Slots : proc[q].parent # p
        BY <2>0, <2>1, <2>2, ProcAssumption DEF Slots
      <3> QED
        BY <2>0, <3>1, <3>2, FamilySame DEF Alive, Reserved
    <2>3. CASE ~(th[p].idx > NPROC)
      <3>1. PICK q \in Slots :
              /\ q = th[p].idx
              /\ \/ /\ proc[q].parent # p /\ UNCHANGED proc
                    /\ th'[p].pc = "reparent" /\ th'[p].idx = q + 1
                 \/ /\ proc[q].parent = p /\ proc'[q].parent = initproc
                    /\ proc'[q].state = proc[q].state
                    /\ \A r \in Slots : r # q => proc'[r] = proc[r]
                    /\ th'[p].pc = "reparent_wakeup" /\ th'[p].idx = q
        BY <1>1, <2>3, ReparentDoes
      <3>2. \A r \in Slots : Left(p, r)' => r <= q
        BY <3>1 DEF Left, Slots
      <3>3. \A r \in Slots : r <= q => r < q \/ r = q
        BY DEF Slots
      <3>4. \A r \in Slots : Left(p, r)' => proc'[r].parent # p
        BY <2>0, <2>1, <3>1, <3>2, <3>3
      <3>5. \A r \in Slots : /\ proc'[r].state = proc[r].state
                             /\ proc'[r].parent \in {proc[r].parent, initproc}
                             /\ proc[r].parent # None => proc'[r].parent # None
        BY <3>1
      <3>6. \A r \in Slots :
              (Alive(r) => Alive(r)') /\ (~Reserved(r)' => ~Reserved(r))
        BY <3>5, ZenonT(30) DEF Alive, Reserved
      <3>7. \A r \in Slots : ~Reserved(r)' =>
              \/ proc'[r].parent # None
              \/ ~Reserved(r) /\ proc'[r].parent = proc[r].parent
        BY <3>5, <3>6, ZenonT(30)
      <3> QED
        BY <2>0, <3>4, <3>5, <3>6, <3>7, FamilyKept
    <2> QED
      BY <2>2, <2>3
  <1>2. ASSUME NEW ch, NEW next \in {"reparent", "zombie"}, NEW i \in Nat,
               \/ /\ th[p].pc = "reparent_wakeup" /\ next = "reparent"
                  /\ i = th[p].idx + 1
               \/ th[p].pc = "exit_wakeup" /\ next = "zombie",
               Wakeup(p, ch, next, i)
        PROVE  FamilyInv'
    <2>0. next \in Labels /\ th[p].idx \in Nat
      BY <1>0 DEF Labels, Types, Threads
    <2>1. \A r \in Slots :
            /\ proc'[r].parent = proc[r].parent
            /\ \/ proc'[r].state = proc[r].state
               \/ proc[r].state = "SLEEPING" /\ proc'[r].state = "RUNNABLE"
      BY <1>2, <2>0, WakeupDoes
    <2>2. \A r \in Slots :
              (Alive(r) => Alive(r)') /\ (~Reserved(r)' => ~Reserved(r))
      BY <2>1, ZenonT(30) DEF Alive, Reserved
    <2>3. /\ Others(p)
          /\ \/ th'[p].pc = next /\ th'[p].idx = i
             \/ th'[p].pc = th[p].pc /\ th'[p].idx = th[p].idx
      BY <1>2, <2>0, WakeupDoes
    <2>4. \A q \in Slots : Left(p, q)' => Left(p, q)
      BY <1>2, <2>0, <2>3 DEF Left, Slots
    <2>5. \A q \in Slots : Left(p, q)' => proc[q].parent # p
      BY <2>4 DEF FamilyInv
    <2>6. th'[p].pc # "fork_run"
      BY <1>2, <2>3
    <2> QED
      BY <2>1, <2>2, <2>3, <2>5, <2>6, FamilySame
  <1>3. CASE ReparentWakeup(p)
    <2>1. th[p].pc = "reparent_wakeup" /\ th[p].idx + 1 \in Nat
      BY <1>0, <1>3 DEF ReparentWakeup, At, Types, Threads
    <2> QED
      BY <1>2, <1>3, <2>1 DEF ReparentWakeup
  <1>4. CASE ExitWakeup(p)
    BY <1>2, <1>4 DEF ExitWakeup, At
  <1>5. CASE Zombie(p)
    <2>1. /\ Others(p) /\ th[p].pc = "zombie" /\ th'[p].pc = "user"
          /\ proc[p].state = "RUNNING" /\ proc'[p].state = "ZOMBIE"
          /\ \A r \in Slots : proc'[r].parent = proc[r].parent
          /\ \A r \in Slots : r # p => proc'[r] = proc[r]
      BY <1>5, ZombieDoes
    <2>2. \A q \in Slots : proc[q].parent # p /\ ~Left(p, q)'
      BY <2>1 DEF FamilyInv, Left
    <2>3. \A r \in Slots : r # p /\ Alive(r) => Alive(r)'
      BY <2>1 DEF Alive
    <2>4. \A r \in Slots : ~Reserved(r)' => ~Reserved(r)
      BY <2>1, ZenonT(30) DEF Reserved
    <2> QED
      BY <2>1, <2>2, <2>3, <2>4, FamilyKept
  <1> QED
    BY <1>1, <1>3, <1>4, <1>5

\* wait() frees a zombie and its parent with it; kill() and the scheduler
\* change no parent.
LEMMA FamilyRest ==
  ASSUME Control, Control', FamilyInv, NEW p \in Slots,
         \/ WaitScan(p) \/ WaitSleep(p) \/ Kill(p) \/ Yield(p)
         \/ \E c \in CPUs : Run(c, p) \/ Swtch(c, p)
  PROVE  FamilyInv'
  <1> USE SlotFacts
  <1>0. Types /\ CpuInv
    BY DEF Control
  <1>1. CASE WaitScan(p)
    <2>1. /\ Others(p) /\ th'[p].pc \in {"wait_scan", "user"}
          /\ \A r \in Slots : \/ proc'[r] = proc[r]
                              \/ /\ proc[r].state = "ZOMBIE"
                                 /\ proc'[r].state = "UNUSED"
                                 /\ proc'[r].parent = None
      BY <1>1, WaitScanDoes DEF Unused
    <2>2. \A q \in Slots : ~Left(p, q)'
      BY <2>1 DEF Left
    <2>3. \A r \in Slots : /\ Alive(r) => Alive(r)'
                           /\ ~Reserved(r)' =>
                                  /\ ~Reserved(r)
                                  /\ proc'[r].parent = proc[r].parent
                           /\ proc'[r].parent \in {proc[r].parent, None}
                           /\ proc[r].state = "USED" =>
                                proc'[r].parent = proc[r].parent
      BY <2>1 DEF Alive, Reserved
    <2> QED
      BY <2>1, <2>2, <2>3, FamilyKept
  <1>2. CASE WaitSleep(p)
    <2>1. /\ Others(p) /\ th'[p].pc = "wait" /\ proc[p].state = "RUNNING"
          /\ \A r \in Slots : \/ proc'[r] = proc[r]
                              \/ /\ r = p /\ proc'[r].state = "SLEEPING"
                                 /\ proc'[r].parent = proc[r].parent
      BY <1>2, WaitSleepDoes
    <2>2. \A q \in Slots : ~Left(p, q)'
      BY <2>1 DEF Left
    <2>3. \A r \in Slots : /\ Alive(r) => Alive(r)'
                           /\ ~Reserved(r)' => ~Reserved(r)
                           /\ proc'[r].parent = proc[r].parent
      BY <2>1 DEF Alive, Reserved
    <2> QED
      BY <2>1, <2>2, <2>3, FamilySame, ZenonT(30)
  <1>3. CASE Kill(p)
    <2>1. /\ Others(p) /\ th'[p].pc \in {"user", "kill"}
          /\ \A r \in Slots : /\ proc'[r].parent = proc[r].parent
                              /\ \/ proc'[r].state = proc[r].state
                                 \/ /\ proc[r].state = "SLEEPING"
                                    /\ proc'[r].state = "RUNNABLE"
      BY <1>3, KillDoes
    <2>2. \A q \in Slots : ~Left(p, q)'
      BY <2>1 DEF Left
    <2>3. \A r \in Slots :
              (Alive(r) => Alive(r)') /\ (~Reserved(r)' => ~Reserved(r))
      BY <2>1 DEF Alive, Reserved
    <2> QED
      BY <2>1, <2>2, <2>3, FamilySame, ZenonT(30)
  <1>4. ASSUME UNCHANGED th,
               \A r \in Slots : /\ proc'[r].parent = proc[r].parent
                                /\ \/ proc'[r].state = proc[r].state
                                   \/ r = p /\ Alive(p) /\ Alive(p)'
        PROVE  FamilyInv'
    <2>1. Others(p) /\ \A q \in Slots : Left(p, q)' => Left(p, q)
      BY <1>4 DEF Others, Left
    <2>2. \A r \in Slots :
              (Alive(r) => Alive(r)') /\ (~Reserved(r)' => ~Reserved(r))
      BY <1>4 DEF Alive, Reserved
    <2>3. \A q \in Slots : Left(p, q)' => proc[q].parent # p
      BY <2>1 DEF FamilyInv
    <2>4. th'[p].pc = "fork_run" => proc'[th'[p].arg].parent # None
      <3>1. th[p].pc = "fork_run" =>
              th[p].arg \in Slots /\ proc[th[p].arg].parent # None
        BY DEF FamilyInv, Control, MakeInv, Makes
      <3> QED
        BY <1>4, <3>1, SMTT(30)
    <2> QED
      BY <1>4, <2>1, <2>2, <2>3, <2>4, FamilySame
  <1>5. CASE Yield(p)
    <2>1. /\ OnCpu(p) /\ lock[p] = None /\ UNCHANGED th
          /\ proc' = [proc EXCEPT ![p] = [proc[p] EXCEPT !.state = "RUNNABLE"]]
      BY <1>5 DEF Yield, Sched, Free
    <2>2. proc[p].state = "RUNNING"
      BY <1>0, <2>1 DEF CpuInv, InSched
    <2>3. \A r \in Slots : /\ proc'[r].parent = proc[r].parent
                           /\ \/ proc'[r].state = proc[r].state
                              \/ r = p /\ proc'[r].state = "RUNNABLE"
      BY <1>0, <2>1 DEF Types, Entries
    <2> QED
      BY <1>4, <2>1, <2>2, <2>3 DEF Alive
  <1>6. CASE \E c \in CPUs : Run(c, p)
    <2>1. /\ proc[p].state = "RUNNABLE" /\ UNCHANGED th
          /\ proc' = [proc EXCEPT ![p].state = "RUNNING", ![p].chan = None]
      BY <1>6 DEF Run, Chosen
    <2>2. \A r \in Slots : /\ proc'[r].parent = proc[r].parent
                           /\ \/ proc'[r].state = proc[r].state
                              \/ r = p /\ proc'[r].state = "RUNNING"
      BY <1>0, <2>1 DEF Types, Entries
    <2> QED
      BY <1>4, <2>1, <2>2, ZenonT(30) DEF Alive
  <1>7. CASE \E c \in CPUs : Swtch(c, p)
    BY <1>4, <1>7 DEF Swtch
  <1> QED
    BY <1>1, <1>2, <1>3, <1>5, <1>6, <1>7

\* Every step keeps the family invariant.
LEMMA FamilyStep ==
  ASSUME Control, Control', FamilyInv, [Next]_vars
  PROVE  FamilyInv'
  <1>1. CASE UNCHANGED vars
    BY <1>1 DEF vars, FamilyInv, Reserved, Alive, Left
  <1>2. ASSUME NEW c \in CPUs, NEW p \in Slots, Run(c, p) \/ Swtch(c, p)
        PROVE  FamilyInv'
    BY <1>2, FamilyRest
  <1>3. ASSUME NEW p \in Slots, Yield(p) \/ Syscall(p) \/ KernelStep(p)
        PROVE  FamilyInv'
    BY <1>3, FamilyLocal, FamilyFork, FamilyExit, FamilyRest DEF KernelStep
  <1> QED
    BY <1>1, <1>2, <1>3, SMTT(30) DEF Next

\* At first there is init, alone.
LEMMA FamilyInit == Init => FamilyInv
  <1> SUFFICES ASSUME Init PROVE FamilyInv
    OBVIOUS
  <1>1. \A p \in Slots : /\ th[p] = User /\ proc[p].parent = None
                         /\ p # initproc => proc[p].state = "UNUSED"
    BY SMTT(30) DEF Init, Unused
  <1> QED
    BY <1>1, SlotFacts DEF FamilyInv, Left, Reserved, User

-----------------------------------------------------------------------------
(* Exits are not missed.                                                   *)

\* p sleeps in kwait().
Asleep(p) == proc[p].state = "SLEEPING" /\ proc[p].chan = p

\* The scan of kwait() has been past q.
Scanned(p, q) ==
  \/ th[p].pc = "wait_scan" /\ q < th[p].idx
  \/ th[p].pc \in {"wait_killed", "wait_sleep"}

\* The wakeup() of kexit() has been past p.
Woken(e, p) ==
  \/ th[e].pc = "exit_wakeup" /\ p < th[e].widx
  \/ th[e].pc = "zombie"

\* A wakeup() of reparent() that has still to come to init.
Rescue ==
  \E e \in Slots : th[e].pc = "reparent_wakeup" /\ th[e].widx <= initproc

\* A zombie whose parent sleeps is an orphan that reparent() has just given to
\* init; kwait() leaves no zombie child behind as it scans; and a parent that
\* kexit() has woken is awake when its child becomes a zombie.
MissedInv ==
  /\ \A p, q \in Slots :
       proc[q].parent = p /\ proc[q].state = "ZOMBIE" /\ Asleep(p) =>
         p = initproc /\ Rescue
  /\ \A p, q \in Slots :
       proc[q].parent = p /\ Scanned(p, q) => proc[q].state # "ZOMBIE"
  /\ \A e, p \in Slots :
       proc[e].parent = p /\ Woken(e, p) => ~Asleep(p)

\* The frame of the steps that put nobody to sleep, let nobody exit and give no
\* zombie a parent.
LEMMA MissedKept ==
  ASSUME Control, MissedInv, NEW p \in Slots, Others(p),
         th[p].pc # "reparent_wakeup",
         \A r \in Slots : Asleep(r)' => Asleep(r),
         \A r \in Slots : proc'[r].state = "ZOMBIE" =>
           proc[r].state = "ZOMBIE" /\ proc'[r].parent = proc[r].parent,
         \A r \in Slots : th[r].pc \in InExit =>
           proc'[r].parent = proc[r].parent,
         \A q \in Slots : Scanned(p, q)' /\ proc[q].parent = p =>
           proc[q].state # "ZOMBIE",
         \A x \in Slots : Woken(p, x)' /\ proc'[p].parent = x => ~Asleep(x)'
  PROVE  MissedInv'
  <1>1. Rescue => Rescue'
    BY SMTT(30) DEF Rescue, Others
  <1>2. \A r, q \in Slots : r # p /\ Scanned(r, q)' => Scanned(r, q)
    BY DEF Scanned, Others
  <1>3. \A r, x \in Slots : r # p /\ Woken(r, x)' =>
          Woken(r, x) /\ th[r].pc \in InExit
    BY SMTT(30) DEF Woken, Others, InExit
  <1>4. (\A r, q \in Slots :
           proc[q].parent = r /\ proc[q].state = "ZOMBIE" /\ Asleep(r) =>
             r = initproc /\ Rescue)'
    BY <1>1, SMTT(30) DEF MissedInv
  <1>5. (\A r, q \in Slots :
           proc[q].parent = r /\ Scanned(r, q) => proc[q].state # "ZOMBIE")'
    BY <1>2 DEF MissedInv
  <1>6. (\A e, x \in Slots : proc[e].parent = x /\ Woken(e, x) => ~Asleep(x))'
    BY <1>3, SMTT(30) DEF MissedInv
  <1> QED
    BY <1>4, <1>5, <1>6 DEF MissedInv

\* The steps that do not touch the table: kwait() goes to sleep when its scan
\* is over, with wait_lock held.
LEMMA MissedLocal ==
  ASSUME Control, MissedInv, NEW p \in Slots,
         \/ TrapKilled(p) \/ Syscall(p) \/ AllocprocFull(p) \/ ExitLock(p)
         \/ WaitLock(p) \/ WaitScanned(p) \/ WaitKilled(p) \/ RestoreIO(p)
         \/ RestoreMem(p) \/ RestoreLock(p)
  PROVE  MissedInv'
  <1>1. /\ UNCHANGED proc /\ Others(p) /\ th[p].pc # "reparent_wakeup"
        /\ th'[p].pc \notin {"exit_wakeup", "zombie"}
        /\ th'[p].pc = "wait_scan" => th'[p].idx = 1
        /\ \/ th'[p].pc \notin {"wait_killed", "wait_sleep"}
           \/ th[p].pc = "wait_scan" /\ th[p].idx > NPROC
           \/ th[p].pc = "wait_killed"
    <2>1. CASE TrapKilled(p) \/ Syscall(p) \/ AllocprocFull(p)
      BY <2>1, TrapKilledDoes, SyscallDoes, AllocprocFullDoes, SMTT(30)
    <2>2. CASE ExitLock(p) \/ WaitLock(p)
      BY <2>2, ExitLockDoes, WaitLockDoes
    <2>3. CASE WaitScanned(p) \/ WaitKilled(p)
      BY <2>3, WaitScannedDoes, WaitKilledDoes, SMTT(30)
    <2>4. CASE RestoreIO(p) \/ RestoreMem(p) \/ RestoreLock(p)
      BY <2>4, RestoreIODoes, RestoreMemDoes, RestoreLockDoes
    <2> QED
      BY <2>1, <2>2, <2>3, <2>4, ZenonT(30)
  <1>2. th[p].idx \in Nat
    BY SMTT(30) DEF Control, Types, Threads
  <1>3. \A q \in Slots : Scanned(p, q)' => Scanned(p, q)
    <2>1. \A q \in Slots : ~(q < 1) /\ (th[p].idx > NPROC => q < th[p].idx)
      BY <1>2, ProcAssumption DEF Slots
    <2>2. CASE th'[p].pc = "wait_scan"
      BY <1>1, <2>1, <2>2, ZenonT(30) DEF Scanned
    <2>3. CASE th'[p].pc \in {"wait_killed", "wait_sleep"}
      BY <1>1, <2>1, <2>3, SMTT(30) DEF Scanned
    <2> QED
      BY <2>2, <2>3, SMTT(30) DEF Scanned
  <1>4. \A q \in Slots : Scanned(p, q)' /\ proc[q].parent = p =>
          proc[q].state # "ZOMBIE"
    BY <1>3 DEF MissedInv
  <1>5. \A x \in Slots : ~Woken(p, x)'
    BY <1>1 DEF Woken
  <1>6. \A x \in Slots : Asleep(x)' => Asleep(x)
    BY <1>1 DEF Asleep
  <1> QED
    BY <1>1, <1>4, <1>5, <1>6, MissedKept

\* The steps that change an entry only to make it, to free it or to wake it.
LEMMA MissedOther ==
  ASSUME Control, MissedInv, NEW p \in Slots,
         \/ Allocproc(p) \/ ForkParent(p) \/ ForkRun(p) \/ Kill(p)
         \/ RestoreBad(p) \/ RestoreParent(p) \/ WaitScan(p)
  PROVE  MissedInv'
  <1>0. Types /\ LiveInv /\ CpuInv /\ WaitLockInv
    BY SMTT(30) DEF Control
  <1>1. ASSUME Others(p),
               th[p].pc # "reparent_wakeup",
               th'[p].pc \notin {"wait_scan", "wait_killed", "wait_sleep",
                                 "exit_wakeup", "zombie"},
               \A r \in Slots :
                 \/ proc'[r] = proc[r]
                 \/ /\ proc'[r].state \notin {"ZOMBIE", "SLEEPING"}
                    /\ \/ proc[r].state \in {"UNUSED", "USED"}
                       \/ proc'[r].parent = proc[r].parent
        PROVE  MissedInv'
    <2>1. \A r \in Slots : Asleep(r)' => Asleep(r)
      BY <1>1 DEF Asleep
    <2>2. \A r \in Slots : proc'[r].state = "ZOMBIE" =>
             proc[r].state = "ZOMBIE" /\ proc'[r].parent = proc[r].parent
      BY <1>1
    <2>3. \A r \in Slots : th[r].pc \in InExit =>
            proc[r].state \notin {"UNUSED", "USED"}
      BY <1>0 DEF LiveInv, Alive, InExit
    <2>4. \A r \in Slots : th[r].pc \in InExit =>
            proc'[r].parent = proc[r].parent
      BY <1>1, <2>3
    <2>5. \A q \in Slots : ~Scanned(p, q)' /\ ~Woken(p, q)'
      BY <1>1, SMTT(30) DEF Scanned, Woken
    <2> QED
      BY <1>1, <2>1, <2>2, <2>4, <2>5, MissedKept, SMTT(30)
  <1>2. CASE Allocproc(p)
    BY <1>1, <1>2, AllocprocDoes, SMTT(30) DEF Unused
  <1>3. CASE ForkParent(p)
    BY <1>1, <1>3, ForkParentDoes, SMTT(30)
  <1>4. CASE ForkRun(p)
    BY <1>1, <1>4, ForkRunDoes, SMTT(30)
  <1>5. CASE RestoreBad(p)
    BY <1>1, <1>5, RestoreBadDoes DEF Unused
  <1>6. CASE RestoreParent(p)
    BY <1>1, <1>6, RestoreParentDoes, SMTT(30)
  <1>7. CASE Kill(p)
    <2>1. /\ Others(p) /\ th[p].pc = "kill" /\ th'[p].pc \in {"user", "kill"}
          /\ \A r \in Slots : /\ proc'[r].parent = proc[r].parent
                              /\ proc'[r].chan = proc[r].chan
                              /\ \/ proc'[r].state = proc[r].state
                                 \/ proc'[r].state = "RUNNABLE"
      BY <1>7, KillDoes, SMTT(30)
    <2>2. \A r \in Slots : Asleep(r)' => Asleep(r)
      BY <2>1, SMTT(30) DEF Asleep
    <2>3. \A q \in Slots : ~Scanned(p, q)' /\ ~Woken(p, q)'
      BY <2>1 DEF Scanned, Woken
    <2>4. \A r \in Slots : proc'[r].state = "ZOMBIE" =>
            proc[r].state = "ZOMBIE"
      BY <2>1
    <2> QED
      BY <2>1, <2>2, <2>3, <2>4, MissedKept, SMTT(30)
  <1>8. CASE WaitScan(p)
    <2>1. PICK q \in Slots :
            /\ q = th[p].idx /\ Others(p) /\ th[p].pc = "wait_scan"
            /\ \/ /\ UNCHANGED proc
                  /\ proc[q].parent # p \/ proc[q].state # "ZOMBIE"
                  /\ th'[p].pc = "wait_scan" /\ th'[p].idx = q + 1
               \/ /\ proc[q].state = "ZOMBIE"
                  /\ proc' = proc \/ proc'[q].state = "UNUSED"
                  /\ \A r \in Slots : r # q => proc'[r] = proc[r]
                  /\ th'[p].pc = "user"
      <3>1. /\ Others(p) /\ th[p].pc = "wait_scan"
            /\ \E q \in Slots :
                 /\ q = th[p].idx
                 /\ \/ /\ UNCHANGED <<proc, wlock>>
                       /\ proc[q].parent # p \/ proc[q].state # "ZOMBIE"
                       /\ th'[p].pc = "wait_scan" /\ th'[p].idx = q + 1
                    \/ /\ proc[q].state = "ZOMBIE" /\ lock[q] = None
                       /\ proc' = proc \/ proc'[q] = Unused
                       /\ \A r \in Slots : r # q => proc'[r] = proc[r]
                       /\ wlock' = None /\ th'[p].pc = "user"
        BY <1>8, WaitScanDoes, ZenonT(30)
      <3>2. Unused.state = "UNUSED"
        BY DEF Unused
      <3> QED BY <3>1, <3>2, ZenonT(30)
    <2>2. \A r \in Slots : Asleep(r)' => Asleep(r)
      BY <2>1, SMTT(30) DEF Asleep
    <2>3. \A x \in Slots : Scanned(p, x)' =>
            Scanned(p, x) \/ (x = q /\ th'[p].pc = "wait_scan")
      BY <2>1, SMTT(30) DEF Scanned, Slots
    <2>4. \A x \in Slots : Scanned(p, x)' /\ proc[x].parent = p =>
            proc[x].state # "ZOMBIE"
      BY <2>1, <2>3, ZenonT(30) DEF MissedInv
    <2>5. \A x \in Slots : ~Woken(p, x)'
      BY <2>1 DEF Woken
    <2>6. \A r \in Slots : proc'[r].state = "ZOMBIE" =>
            proc[r].state = "ZOMBIE" /\ proc'[r].parent = proc[r].parent
      BY <2>1
    <2>7. \A r \in Slots : th[r].pc \in InExit => proc[r].state # "ZOMBIE"
      BY <1>0 DEF LiveInv, Alive, InExit
    <2>8. \A r \in Slots : th[r].pc \in InExit =>
            proc'[r].parent = proc[r].parent
      BY <2>1, <2>7, SMTT(30)
    <2> QED
      BY <2>1, <2>2, <2>4, <2>5, <2>6, <2>8, MissedKept, ZenonT(30)
  <1> QED
    BY <1>2, <1>3, <1>4, <1>5, <1>6, <1>7, <1>8

\* The scheduler puts nobody to sleep.
LEMMA MissedSched ==
  ASSUME Control, MissedInv, NEW p \in Slots,
         Yield(p) \/ \E c \in CPUs : Run(c, p) \/ Swtch(c, p)
  PROVE  MissedInv'
  <1>0. Types
    BY DEF Control
  <1>1. /\ UNCHANGED th
        /\ \/ proc' = proc
           \/ proc' = [proc EXCEPT
                          ![p] = [proc[p] EXCEPT !.state = "RUNNABLE"]]
           \/ proc' = [proc EXCEPT ![p].state = "RUNNING", ![p].chan = None]
    BY DEF Yield, Sched, Run, Swtch
  <1>2. \A r \in Slots : /\ proc'[r].parent = proc[r].parent
                         /\ \/ proc'[r] = proc[r]
                            \/ proc'[r].state \in {"RUNNABLE", "RUNNING"}
    BY <1>0, <1>1, SMTT(30) DEF Types, Entries
  <1>3. \A r \in Slots : /\ Asleep(r)' => Asleep(r)
                         /\ proc'[r].state = "ZOMBIE" =>
                              proc[r].state = "ZOMBIE"
    BY <1>2 DEF Asleep
  <1>4. /\ \A r, q \in Slots : Scanned(r, q)' <=> Scanned(r, q)
        /\ \A r, q \in Slots : Woken(r, q)' <=> Woken(r, q)
        /\ Rescue' <=> Rescue
    BY <1>1 DEF Scanned, Woken, Rescue
  <1> QED
    BY <1>2, <1>3, <1>4 DEF MissedInv

\* wait_lock: when p is in exit() or wait(), nobody else is.
LEMMA Alone ==
  ASSUME Control, NEW p \in Slots, th[p].pc \in InExit \cup InWait,
         NEW r \in Slots, r # p
  PROVE  /\ th[r].pc \notin InExit \cup InWait
         /\ \A q \in Slots : ~Scanned(r, q) /\ ~Woken(r, q)
  <1>1. th[r].pc \notin InExit \cup InWait
    BY DEF Control, WaitLockInv
  <1> QED
    BY <1>1 DEF Scanned, Woken, InExit, InWait

\* exit() and the sleep in wait(): reparent() wakes init after it has given it
\* a zombie, kexit() wakes the parent before it becomes one, and kwait() has
\* seen all its children when it goes to sleep.
LEMMA MissedExit ==
  ASSUME Control, Control', MissedInv, NEW p \in Slots,
         \/ Reparent(p) \/ ReparentWakeup(p) \/ ExitWakeup(p)
         \/ Zombie(p) \/ WaitSleep(p)
  PROVE  MissedInv'
  <1> USE SlotFacts
  <1>0. /\ Types /\ LiveInv /\ CpuInv /\ WaitLockInv /\ Loops
        /\ Types' /\ LiveInv' /\ CpuInv' /\ WaitLockInv'
    BY DEF Control
  <1>1. CASE Reparent(p)
    <2>1. /\ th[p].pc = "reparent" /\ Others(p)
          /\ th'[p].pc \in {"exit_wakeup", "reparent", "reparent_wakeup"}
          /\ th'[p].pc \in {"exit_wakeup", "reparent_wakeup"} =>
               th'[p].widx = 1
      BY <1>1, ReparentDoes, SMTT(30)
    <2>2. \A r \in Slots : r # p => th[r].pc \notin InExit \cup InWait
      BY <2>1, Alone DEF InExit
    <2>3. \A r, q \in Slots : ~Scanned(r, q)' /\ ~Woken(r, q)'
      BY <2>1, <2>2, SMTT(30) DEF Scanned, Woken, Others, InExit, InWait, Slots
    <2>4. ~Rescue
      BY <2>1, <2>2, SMTT(30) DEF Rescue, InExit
    <2>5. \A r \in Slots : /\ proc'[r].state = proc[r].state
                           /\ proc'[r].chan = proc[r].chan
                           /\ \/ proc'[r].parent = proc[r].parent
                              \/ /\ proc'[r].parent = initproc
                                 /\ th'[p].pc = "reparent_wakeup"
      BY <1>1, ReparentDoes, SMTT(30)
    <2>6. th'[p].pc = "reparent_wakeup" => Rescue'
      BY <2>1, SMTT(30) DEF Rescue, initproc
    <2>7. \A r \in Slots : Asleep(r)' => Asleep(r)
      BY <2>5 DEF Asleep
    <2>8. (\A r, q \in Slots :
             proc[q].parent = r /\ proc[q].state = "ZOMBIE" /\ Asleep(r) =>
               r = initproc /\ Rescue)'
      BY <2>4, <2>5, <2>6, <2>7, ZenonT(30) DEF MissedInv
    <2> QED
      BY <2>3, <2>8, SMTT(30) DEF MissedInv
  <1>2. ASSUME NEW ch, NEW next \in {"reparent", "zombie"}, NEW i \in Nat,
               th[p].pc \in {"reparent_wakeup", "exit_wakeup"},
               Wakeup(p, ch, next, i)
        PROVE  /\ Others(p)
               /\ \A r \in Slots : Asleep(r)' => Asleep(r)
               /\ \A r \in Slots : /\ proc'[r].parent = proc[r].parent
                                   /\ proc'[r].state = "ZOMBIE" =>
                                        proc[r].state = "ZOMBIE"
    <2>1. next \in Labels
      BY DEF Labels
    <2>2. /\ Others(p)
          /\ \A r \in Slots : /\ proc'[r].parent = proc[r].parent
                              /\ \/ proc'[r] = proc[r]
                                 \/ proc'[r].state = "RUNNABLE"
      BY <1>2, <2>1, WakeupDoes, SMTT(30)
    <2> QED
      BY <2>2 DEF Asleep
  <1>3. CASE ReparentWakeup(p)
    <2>1. /\ th[p].pc = "reparent_wakeup" /\ p # initproc
          /\ th[p].widx \in Nat /\ th[p].widx >= 1
          /\ th[p].idx + 1 \in Nat
          /\ Wakeup(p, initproc, "reparent", th[p].idx + 1)
      BY <1>0, <1>3
         DEF ReparentWakeup, At, LiveInv, InExit, Types, Threads, Loops
    <2>2. /\ Others(p)
          /\ \A r \in Slots : Asleep(r)' => Asleep(r)
          /\ \A r \in Slots : /\ proc'[r].parent = proc[r].parent
                              /\ proc'[r].state = "ZOMBIE" =>
                                   proc[r].state = "ZOMBIE"
      BY <1>2, <2>1
    <2>3. "reparent" \in Labels
      BY SMTT(30) DEF Labels
    <2>4. th'[p].pc \in {"reparent", "reparent_wakeup"}
      BY <2>1, <2>3, WakeupDoes, SMTT(30)
    <2>5. \A r \in Slots : r # p => th[r].pc \notin InExit \cup InWait
      BY <2>1, Alone, SMTT(30) DEF InExit
    <2>6. \A r, q \in Slots : ~Scanned(r, q)' /\ ~Woken(r, q)'
      BY <2>2, <2>4, <2>5 DEF Scanned, Woken, Others, InExit, InWait
    <2>7. ASSUME Rescue, Asleep(initproc), Asleep(initproc)'
          PROVE  FALSE
      <3>1. th[p].widx = initproc
        BY <2>1, <2>5, <2>7 DEF Rescue, InExit, initproc
      <3>2. ~(th[p].widx > NPROC)
        BY <3>1, ProcAssumption, SMTT(30) DEF initproc
      <3>3. proc'[initproc].state # "SLEEPING"
        BY <2>1, <2>3, <2>7, <3>1, <3>2, WakeupDoes, SMTT(30) DEF Asleep
      <3> QED
        BY <2>7, <3>3, SMTT(30) DEF Asleep
    <2>8. (\A r, q \in Slots :
             proc[q].parent = r /\ proc[q].state = "ZOMBIE" /\ Asleep(r) =>
               r = initproc /\ Rescue)'
      BY <2>2, <2>7 DEF MissedInv
    <2> QED
      BY <2>6, <2>8 DEF MissedInv
  <1>4. CASE ExitWakeup(p)
    <2>0. "zombie" \in Labels /\ 0 \in Nat
      BY DEF Labels
    <2>1. /\ th[p].pc = "exit_wakeup" /\ th[p].widx \in Nat
          /\ proc[p].state = "RUNNING"
          /\ Wakeup(p, proc[p].parent, "zombie", 0)
      BY <1>0, <1>4, Running DEF ExitWakeup, At, Types, Threads
    <2>2. /\ Others(p)
          /\ \A r \in Slots : Asleep(r)' => Asleep(r)
          /\ \A r \in Slots : /\ proc'[r].parent = proc[r].parent
                              /\ proc'[r].state = "ZOMBIE" =>
                                   proc[r].state = "ZOMBIE"
      BY <1>2, <2>0, <2>1, ZenonT(30)
    <2>3. \/ th[p].widx > NPROC
          \/ /\ th'[p].pc = "exit_wakeup"
             /\ \E q \in Slots :
                  /\ q = th[p].widx /\ th'[p].widx = q + 1
                  /\ q # p /\ proc[q].chan = proc[p].parent =>
                       proc'[q].state # "SLEEPING"
      BY <2>0, <2>1, WakeupDoes, ZenonT(30)
    <2>4. th'[p].pc \in {"exit_wakeup", "zombie"}
      BY <2>0, <2>1, WakeupDoes
    <2>5. ASSUME NEW x \in Slots, Woken(p, x)', proc'[p].parent = x
          PROVE  ~Asleep(x)'
      <3>1. CASE x < th[p].widx
        BY <2>1, <2>2, <2>5, <3>1 DEF MissedInv, Woken
      <3>2. CASE ~(x < th[p].widx)
        <4>1. ~(th[p].widx > NPROC)
          BY <2>1, <3>2, ProcAssumption, SMTT(30) DEF Slots
        <4>2. /\ th'[p].pc = "exit_wakeup" /\ th'[p].widx = th[p].widx + 1
              /\ th[p].widx # p /\ proc[th[p].widx].chan = proc[p].parent =>
                       proc'[th[p].widx].state # "SLEEPING"
          BY <2>3, <4>1, SMTT(30)
        <4>3. x = th[p].widx
          BY <2>1, <2>5, <3>2, <4>2, SMTT(30) DEF Woken, Slots
        <4>4. CASE x = p
          BY <2>1, <2>2, <4>4, SMTT(30) DEF Asleep
        <4>5. CASE x # p
          BY <2>2, <2>5, <4>2, <4>3, <4>5 DEF Asleep
        <4> QED
          BY <4>4, <4>5
      <3> QED
        BY <3>1, <3>2, SMTT(30)
    <2>6. \A q \in Slots : ~Scanned(p, q)'
      BY <2>4 DEF Scanned
    <2>7. th[p].pc # "reparent_wakeup"
      BY <2>1, SMTT(30)
    <2> QED
      BY <2>2, <2>5, <2>6, <2>7, MissedKept, ZenonT(30)
  <1>5. CASE Zombie(p)
    <2>1. /\ th[p].pc = "zombie" /\ th'[p].pc = "user" /\ Others(p)
          /\ wlock' = None
          /\ proc'[p].state = "ZOMBIE" /\ proc'[p].parent = proc[p].parent
          /\ \A r \in Slots : r # p => proc'[r] = proc[r]
      BY <1>5, ZombieDoes
    <2>2. \A r \in Slots : th'[r].pc \notin InExit \cup InWait
      BY <1>0, <2>1 DEF WaitLockInv
    <2>3. \A r, q \in Slots : ~Scanned(r, q)' /\ ~Woken(r, q)'
      BY <2>2, ZenonT(30) DEF Scanned, Woken, InExit, InWait
    <2>4. ~Rescue
      <3>1. \A r \in Slots : r # p => th[r].pc \notin InExit \cup InWait
        BY <2>1, Alone DEF InExit
      <3> QED
        BY <2>1, <3>1, ZenonT(30) DEF Rescue, InExit
    <2>5. \A r \in Slots : Asleep(r)' => Asleep(r)
      BY <2>1, ZenonT(30) DEF Asleep
    <2>6. \A r \in Slots : proc[p].parent = r => ~Asleep(r)
      BY <2>1, SMTT(30) DEF MissedInv, Woken
    <2>7. (\A r, q \in Slots :
             ~(proc[q].parent = r /\ proc[q].state = "ZOMBIE" /\ Asleep(r)))'
      BY <2>1, <2>4, <2>5, <2>6 DEF MissedInv
    <2> QED
      BY <2>3, <2>7, SMTT(30) DEF MissedInv
  <1>6. CASE WaitSleep(p)
    <2>1. /\ th[p].pc = "wait_sleep" /\ th'[p].pc = "wait" /\ Others(p)
          /\ wlock' = None
          /\ proc'[p].state = "SLEEPING" /\ proc'[p].parent = proc[p].parent
          /\ \A r \in Slots : r # p => proc'[r] = proc[r]
      BY <1>6, WaitSleepDoes, ZenonT(30)
    <2>2. \A r \in Slots : th'[r].pc \notin InExit \cup InWait
      BY <1>0, <2>1 DEF WaitLockInv
    <2>3. \A r, q \in Slots : ~Scanned(r, q)' /\ ~Woken(r, q)'
      BY <2>2, ZenonT(30) DEF Scanned, Woken, InExit, InWait
    <2>4. ~Rescue
      <3>1. \A r \in Slots : r # p => th[r].pc \notin InExit \cup InWait
        BY <2>1, Alone, ZenonT(30) DEF InWait
      <3> QED
        BY <2>1, <3>1, ZenonT(30) DEF Rescue, InExit
    <2>5. \A r \in Slots : r # p /\ Asleep(r)' => Asleep(r)
      BY <2>1, SMTT(30) DEF Asleep
    <2>6. \A q \in Slots : proc[q].parent = p => proc[q].state # "ZOMBIE"
      BY <2>1 DEF MissedInv, Scanned
    <2>7. \A q \in Slots : /\ proc'[q].state = "ZOMBIE" =>
                                proc[q].state = "ZOMBIE"
                           /\ proc'[q].parent = proc[q].parent
      BY <2>1
    <2>8. (\A r, q \in Slots :
             ~(proc[q].parent = r /\ proc[q].state = "ZOMBIE" /\ Asleep(r)))'
      BY <2>4, <2>5, <2>6, <2>7 DEF MissedInv
    <2> QED
      BY <2>3, <2>8 DEF MissedInv
  <1> QED
    BY <1>1, <1>3, <1>4, <1>5, <1>6

\* Every step keeps the invariant.
LEMMA MissedStep ==
  ASSUME Control, Control', MissedInv, [Next]_vars
  PROVE  MissedInv'
  <1>1. CASE UNCHANGED vars
    BY <1>1 DEF vars, MissedInv, Asleep, Scanned, Woken, Rescue
  <1>2. ASSUME NEW c \in CPUs, NEW p \in Slots, Run(c, p) \/ Swtch(c, p)
        PROVE  MissedInv'
    BY <1>2, MissedSched
  <1>3. ASSUME NEW p \in Slots, Yield(p) \/ Syscall(p) \/ KernelStep(p)
        PROVE  MissedInv'
    BY <1>3, MissedLocal, MissedOther, MissedExit, MissedSched, SMTT(30) DEF KernelStep
  <1> QED
    BY <1>1, <1>2, <1>3 DEF Next

\* At first nobody has exited.
LEMMA MissedInit == Init => MissedInv
  <1> SUFFICES ASSUME Init PROVE MissedInv
    OBVIOUS
  <1>1. \A p \in Slots : th[p] = User /\ proc[p].parent = None
    BY DEF Init, Unused
  <1> QED
    BY <1>1, SlotFacts DEF MissedInv, Scanned, Woken, User

-----------------------------------------------------------------------------
(* The theorems.                                                           *)

\* The control invariant holds in every run of the kernel, ...
LEMMA Controlled == Spec => []Control
  BY ControlInit, ControlStep, PTL DEF Spec

\* ... and with it the other two.
LEMMA Whole == Spec => [](Control /\ FamilyInv /\ MissedInv)
  <1>1. Init => Control /\ FamilyInv /\ MissedInv
    BY ControlInit, FamilyInit, MissedInit
  <1>2. Control /\ FamilyInv /\ MissedInv /\ [Next]_vars
          => (Control /\ FamilyInv /\ MissedInv)'
    BY ControlStep, FamilyStep, MissedStep
  <1> QED
    BY <1>1, <1>2, PTL DEF Spec

\* A process is on one CPU at a time, and is RUNNING exactly while it is on one
\* and not in sched(), for every number of slots and CPUs: scheduler(),
\* yield(), sleep(), wakeup() and kkill() keep to p->lock.
THEOREM RunsOnce == Spec => []OneCpu
  <1>1. Control => OneCpu
    <2> SUFFICES ASSUME Control, NEW p \in Slots
                 PROVE  Cardinality({c \in CPUs : cpu[c] = p}) <= 1
      BY DEF Control, CpuInv, OneCpu
    <2> DEFINE S == {c \in CPUs : cpu[c] = p}
    <2>1. \A c, d \in S : c = d
      BY SlotFacts DEF Control, CpuInv
    <2>2. CASE S = {}
      BY <2>2, FS_EmptySet
    <2>3. CASE S # {}
      <3>1. PICK c \in S : TRUE
        BY <2>3
      <3>2. S = {c}
        BY <2>1, <3>1
      <3>3. Cardinality(S) = 1
        BY <3>2, FS_Singleton
      <3> QED
        BY <3>3
    <2> QED
      BY <2>2, <2>3, SMTT(30)
  <1> QED
    BY <1>1, Controlled, PTL

\* sched() never panics over a lock: who holds wait_lock or another process's
\* lock is RUNNING, and who holds its own is still on its CPU.
THEOREM SchedLocks == Spec => []HolderRuns
  <1>1. Control => HolderRuns
    BY DEF Control, WaitLockInv, NpLockInv, CpuInv, InSched, HolderRuns
  <1> QED
    BY <1>1, Controlled, PTL

\* Two processes that spin for each other's locks need restore(), at the point
\* where it wants wait_lock with np->lock held; fork, exit, wait and kill keep
\* to the order of proc.c:27-30.
THEOREM LockOrder == Spec => []CircleNeedsRestore
  <1>1. ASSUME Control, NEW p \in Slots, NEW q \in Slots,
               SpinsFor(p, q), SpinsFor(q, p),
               th[p].pc # "restore_parent", th[q].pc # "restore_parent"
        PROVE  FALSE
    <2> USE SlotFacts
    <2>1. ASSUME NEW x \in Slots, NEW y \in Slots,
                 SpinsFor(x, y), SpinsFor(y, x),
                 th[x].pc # "restore_parent", th[y].pc # "restore_parent"
          PROVE  wlock = y /\ th[x].pc \in {"fork_parent", "wait", "exit"}
      <3>1. PICK l \in Slots \cup {WaitLockId} :
              Acquires(x, l) /\ Holder(l) = y
        BY <2>1 DEF SpinsFor
      <3>2. PICK k \in Slots \cup {WaitLockId} : Acquires(y, k)
        BY <2>1, ZenonT(30) DEF SpinsFor
      <3>3. /\ ~InSched(y)
            /\ th[y].pc \notin {"restore_mem", "restore_parent", "panic"}
        BY <2>1, <3>2 DEF SpinsFor, Acquires
      <3>4. l = WaitLockId
        <4>1. ASSUME l \in Slots PROVE FALSE
          <5>1. l # WaitLockId
            BY <4>1 DEF WaitLockId, Slots
          <5>2. lock[l] = y
            BY <3>1, <5>1 DEF Holder
          <5> QED
            BY <1>1, <3>3, <4>1, <5>2 DEF Control, NpLockInv, InSched
        <4> QED
          BY <4>1, SMTT(30)
      <3>5. wlock = y
        BY <3>1, <3>4 DEF Holder
      <3>6. l = 0 /\ l \notin Slots
        BY <3>4 DEF WaitLockId, Slots
      <3>7. th[x].pc \notin {"reparent_wakeup", "exit_wakeup"}
        <4>1. SUFFICES ASSUME th[x].pc \in {"reparent_wakeup", "exit_wakeup"}
                       PROVE  FALSE
          OBVIOUS
        <4>2. th[x].widx = 0
          BY <3>1, <3>6, <4>1, SMTT(30) DEF Acquires
        <4>3. th[x].widx >= 1
          BY <1>1, <4>1, SMTT(30) DEF Control, Loops
        <4> QED
          BY <4>2, <4>3
      <3>8. th[x].pc \notin {"fork_run", "restore_lock", "restore_bad"}
        BY <1>1, <3>1, <3>6 DEF Control, MakeInv, Makes, InRestore, Acquires
      <3>9. th[x].pc \notin
              {"wait_scan", "kill", "fork_alloc", "restore_alloc"}
        <4>1. SUFFICES ASSUME th[x].pc \in {"wait_scan", "kill", "fork_alloc",
                                            "restore_alloc"}
                       PROVE  FALSE
          OBVIOUS
        <4>2. th[x].idx = 0
          BY <3>1, <3>6, <4>1 DEF Acquires
        <4>3. th[x].idx >= 1
          BY <1>1, <4>1 DEF Control, Loops
        <4> QED
          BY <4>2, <4>3
      <3>10. th[x].pc \in {"fork_parent", "wait", "restore_parent", "exit"}
        BY <3>1, <3>6, <3>7, <3>8, <3>9 DEF Acquires
      <3> QED
        BY <2>1, <3>5, <3>10
    <2>2. /\ wlock = q /\ wlock = p
          /\ th[p].pc \in {"fork_parent", "wait", "exit"}
      BY <1>1, <2>1
    <2> QED
      BY <1>1, <2>2 DEF Control, WaitLockInv, InExit, InWait
  <1>2. Control => CircleNeedsRestore
    BY <1>1 DEF CircleNeedsRestore
  <1> QED
    BY <1>2, Controlled, PTL

\* Every process but init has a parent that is alive, at every moment: kfork(),
\* reparent(), kexit(), freeproc() and restore_proc() leave no orphan.
THEOREM ParentsLive == Spec => []NoOrphans
  <1>1. Control /\ FamilyInv => NoOrphans
    BY SlotFacts DEF FamilyInv, Alive, Reserved, NoOrphans
  <1> QED
    BY <1>1, Whole, PTL

\* No exit is missed: when nobody is in exit() or wait(), a process that sleeps
\* in kwait() has no zombie child, its own or handed to it by reparent().
THEOREM ExitSeen == Spec => []NoMissedExit
  <1>1. ASSUME Control, MissedInv, wlock = None,
               NEW p \in Slots, NEW q \in Slots,
               Asleep(p), proc[q].parent = p, proc[q].state = "ZOMBIE"
        PROVE  FALSE
    <2>1. PICK e \in Slots : th[e].pc = "reparent_wakeup"
      BY <1>1 DEF MissedInv, Rescue
    <2> QED
      BY <1>1, <2>1, SlotFacts DEF Control, WaitLockInv, InExit
  <1>2. Control /\ MissedInv => NoMissedExit
    BY <1>1 DEF NoMissedExit, Asleep
  <1> QED
    BY <1>2, Whole, PTL
=============================================================================
