----------------------------- MODULE AddrSpace -----------------------------
(***************************************************************************)
(* The memory of a process, from fork and exec to exit, and the memory     *)
(* half of checkpoint and restore: checkpoint_addr_space() and             *)
(* restore_addr_space() of kernel/vm.c, between the header that            *)
(* checkpoint_proc() writes and the pages that restore_proc() allocates.   *)
(*                                                                         *)
(* A page is not mapped (lazily allocated: the first use finds zeroes), or *)
(* has contents.  The checkpoint file is overwritten in place and never    *)
(* shortened, so the bytes of an earlier image follow those of a shorter   *)
(* one.  A byte of a file is a cell here: one for the marker "present",    *)
(* PGSIZE for the contents of a page.  The disk may be full: writei() then *)
(* stops where the file would have to grow.  The machine may be out of     *)
(* frames: each system call gets as many as `left` says.                   *)
(***************************************************************************)
EXTENDS Vm

CONSTANTS
  TEXT,        \* pages of the program; the guard page and the stack follow
  Stores,      \* bound: the pages that the program tries to write
  Copies,      \* bound: where the buffers of its reads and writes are
  MaxFrames    \* as many frames as any one system call can ask for

ASSUME AddrSpaceAssumption ==
  /\ TEXT \in Nat /\ TEXT + 2 <= MaxPages
  /\ MaxFrames \in Nat /\ Stores \cup Copies \subseteq User

VARIABLES
  mem, sz,  \* the address space of the process, and p->sz
  held,     \* frames that kalloc() has given to the process and its child
  hdr,      \* the header of the checkpoint file: hdr.sz in pages; -1 if none
  file,     \* what follows the header
  pc, i, off,  \* where the system call is: the page and the offset
  np, npsz, \* the process that fork or restore makes
  saved     \* history: the memory for which the header was written

space == <<mem, sz, np, npsz, held>>
vars == <<space, hdr, file, pc, i, off, saved>>

Init ==
  /\ mem = NoSpace /\ sz = 0 /\ held = 0
  /\ hdr = -1 /\ file = <<>>
  /\ pc = "none" /\ i = 0 /\ off = 0
  /\ np = NoSpace /\ npsz = 0 /\ saved = <<>>

-----------------------------------------------------------------------------
(* The process at work.                                                    *)

InUser == pc = "user"
Ckpt == UNCHANGED <<hdr, file, i, off, saved>>

\* Every system call may find the machine short of frames: a new process or
\* image, and n more pages with the tables that lead to them.
Left == 0..MaxFrames
LeftFor(n) == 0..(n + 1)

\* On to `next`, unless the kernel has panicked.
Go(m, next) == pc' = (IF m.panic THEN "panic" ELSE next) /\ Ckpt

\* The process goes on with the address space m and the size n.
Resume(m, n) ==
  /\ mem' = Rest(m) /\ sz' = n /\ held' = m.held
  /\ UNCHANGED <<np, npsz>>
  /\ Go(m, "user")

\* kexit(), and freeproc() by the parent.
Dies(m) ==
  LET f == freeproc(m, sz)
  IN /\ mem' = Rest(f) /\ sz' = 0 /\ held' = f.held
     /\ UNCHANGED <<np, npsz>>
     /\ Go(f, "none")

\* A store.  usertrap() kills a process whose fault vmfault() cannot mend: at
\* a page it must not write, or without a frame.
Store(va, v) ==
  /\ InUser /\ va < sz
  /\ \E left \in LeftFor(1) :
       \E q \in {IF mem.pages[va].valid = 1 /\ mem.pages[va].perm = "data"
                 THEN Work(mem, held, left)
                 ELSE vmfault(Work(mem, held, left), sz, va)} :
         \/ q.ok /\ Resume([q EXCEPT !.pages[va].data = Fill(v)], sz)
         \/ ~q.ok /\ Dies(q)

\* read() and write() copy to and from the user's memory.
Copy(va, n, v) ==
  /\ InUser /\ va + n <= MaxPages
  /\ \E left \in LeftFor(n) :
       \/ Resume(copyout(Work(mem, held, left), sz, va, n, v), sz)
       \/ Resume(copyin(Work(mem, held, left), sz, va, n), sz)

\* growproc(): n pages more, or n pages less.
growproc(n) ==
  \/ /\ sz + n <= MaxPages
     /\ \E left \in LeftFor(n) :
          LET g == uvmalloc(Work(mem, held, left), sz, sz + n, "data")
          IN Resume(g, IF g.ok THEN sz + n ELSE sz)
  \/ /\ sz - n >= TEXT + 2
     /\ Resume(uvmdealloc(Work(mem, held, 0), sz, sz - n), sz - n)

\* sbrk(): eager growth maps the pages, lazy growth only moves p->sz;
\* shrinking unmaps.
Sbrk(n) ==
  /\ InUser
  /\ growproc(n) \/ (sz + n <= MaxPages /\ Resume(Work(mem, held, 0), sz + n))

Exit == InUser /\ Dies(Work(mem, held, 0))

-----------------------------------------------------------------------------
(* fork(), exec() and exit().                                              *)

\* kfork(): np->sz is set when the copy is complete.
Fork ==
  /\ InUser
  /\ \E left \in Left :
       \E f \in {Then(allocproc(Work(NoSpace, held, left)),
                      LAMBDA a : Else(uvmcopy(mem, a, sz),
                                      LAMBDA c : freeproc(c, 0)))} :
         /\ np' = Rest(f) /\ npsz' = (IF f.ok THEN sz ELSE 0)
         /\ held' = f.held
         /\ UNCHANGED <<mem, sz>>
         /\ Go(f, IF f.ok THEN "forked" ELSE "user")

\* kexec()'s new image: the program, of contents v, the guard page and the
\* stack.  It can fail for want of frames, at a bad segment or at arguments
\* that do not fit, and then takes down what it has built.
Image(m, v, fails) ==
  LET Load(t) == [t EXCEPT !.ok = fails # "load", !.pages = [va \in Vas |->
                    IF va \in 0..(TEXT - 1) THEN Page(v, "text") ELSE @[va]]]
      Segment(p) == Else(Then(Else(uvmalloc(p, 0, TEXT, "text"),
                                   LAMBDA t : proc_freepagetable(t, 0)), Load),
                         LAMBDA l : proc_freepagetable(l, TEXT))
      Stack(l) == Else(uvmalloc(l, TEXT, TEXT + 2, "data"),
                       LAMBDA s : proc_freepagetable(s, TEXT))
      Args(s) == Else([uvmclear(s, TEXT) EXCEPT !.ok = fails # "args"],
                      LAMBDA g : proc_freepagetable(g, TEXT + 2))
  IN Then(Then(Then(proc_pagetable(m), Segment), Stack), Args)

\* The old image goes when nothing can fail any more.
Replace(g) ==
  LET o == proc_freepagetable(Work(mem, g.held, 0), sz)
  IN Resume([g EXCEPT !.held = o.held, !.panic = @ \/ o.panic], TEXT + 2)

Exec(v) ==
  /\ InUser
  /\ \E way \in (Left \X {"no"}) \cup ({MaxFrames} \X {"load", "args"}) :
       \E g \in {Image(Work(NoSpace, held, way[1]), v, way[2])} :
         IF g.ok THEN Replace(g)
         ELSE Resume([Work(mem, g.held, 0) EXCEPT !.panic = g.panic], sz)

\* Another process: allocproc(), and exec() in its empty address space.
Start(v) ==
  /\ pc = "none"
  /\ \E a \in {allocproc(Work(NoSpace, held, MaxFrames))} :
     \E g \in {Image(Work(NoSpace, a.held, MaxFrames), v, "no")} :
       Resume([g EXCEPT !.held =
                 proc_freepagetable(Work(a, g.held, 0), 0).held], TEXT + 2)

\* One of the two processes exits, and the other goes on.
ChildExits ==
  /\ pc \in {"forked", "restored"}
  /\ LET f == freeproc(Work(np, held, 0), npsz)
     IN /\ np' = Rest(f) /\ npsz' = 0 /\ held' = f.held
        /\ UNCHANGED <<mem, sz>>
        /\ Go(f, "user")

ParentExits ==
  /\ pc \in {"forked", "restored"}
  /\ LET f == freeproc(Work(mem, held, 0), sz)
     IN /\ mem' = np /\ sz' = npsz /\ held' = f.held
        /\ np' = NoSpace /\ npsz' = 0
        /\ Go(f, "user")

-----------------------------------------------------------------------------
(* writei() and readi() of the checkpoint file, at off.                    *)

\* The file after n cells of data have been written: in place, and beyond
\* the end.
Written(data, n) ==
  [c \in 1..(IF off + n > Len(file) THEN off + n ELSE Len(file)) |->
     IF c > off /\ c <= off + n THEN data[c - off] ELSE file[c]]

\* How many of n cells writei() can write: all, or as many as leave the file
\* at its end when there is no block to make it longer.
Writes(n) == {n} \cup {m \in 0..(n - 1) : off + m >= Len(file)}

\* readi() returns less than n cells at the end of the file.
Reads(n) == off + n <= Len(file)
Cells(n) == SubSeq(file, off + 1, off + n)

-----------------------------------------------------------------------------
(* checkpoint_proc() and checkpoint_addr_space().                          *)

\* Is page va there?
\* Marker_Writable: only a page that the user can write counts.
Marker_Writable(va) ==
  IF mem.pages[va].perm = "data" THEN mem.pages[va].valid ELSE 0
Marker(va) == mem.pages[va].valid

Return == pc' = "user" /\ i' = 0 /\ off' = 0

\* The header goes first.  It fits into the first block: the disk can only
\* be full for a new file, and then there is no header.
Checkpoint ==
  /\ InUser
  /\ pc' = "mark"
  /\ hdr' = sz
  /\ saved' = [va \in 0..(sz - 1) |-> mem.pages[va].data]
  /\ UNCHANGED <<space, file, i, off>>

\* The marker of page i, and then its contents, if it has any.
AfterMark(present) == off + 1

CheckpointMark ==
  /\ pc = "mark" /\ i < sz
  /\ \E n \in Writes(1) :
       /\ file' = Written(<<Marker(i)>>, n)
       /\ IF n < 1 THEN Return
          ELSE /\ off' = AfterMark(Marker(i))
               /\ IF Marker(i) = 1 THEN pc' = "page" /\ i' = i
                                   ELSE pc' = "mark" /\ i' = i + 1
  /\ UNCHANGED <<space, hdr, saved>>

CheckpointPage ==
  /\ pc = "page"
  /\ \E n \in Writes(PGSIZE) :
       /\ file' = Written(mem.pages[i].data, n)
       /\ IF n < PGSIZE THEN Return
          ELSE off' = off + PGSIZE /\ pc' = "mark" /\ i' = i + 1
  /\ UNCHANGED <<space, hdr, saved>>

CheckpointDone ==
  /\ pc = "mark" /\ i = sz
  /\ Return
  /\ UNCHANGED <<space, hdr, file, saved>>

-----------------------------------------------------------------------------
(* restore_proc(), uvmalloc() and restore_addr_space().                    *)

\* Every page is mapped, for the user to read, write and execute.  When there
\* is no frame for one, restore_proc() goes to `bad` with np->lock held and
\* acquires it once more: the kernel panics in acquire().
Restore ==
  /\ InUser /\ hdr >= 0
  /\ \E left \in Left :
       \E a \in {allocproc(Work(NoSpace, held, left))} :
       \E r \in {Then(a, LAMBDA m : uvmalloc(m, 0, hdr, "data"))} :
         /\ np' = Rest(r) /\ held' = r.held
         /\ npsz' = (IF r.ok THEN hdr ELSE 0)
         /\ pc' = CASE ~a.ok -> "user"
                    [] a.ok /\ (~r.ok \/ hdr = 0) -> "acquire"
                    [] OTHER -> "load"
  /\ UNCHANGED <<mem, sz, hdr, file, i, off, saved>>

\* A page without contents is filled with zeroes.
Loads(n, present) == IF present THEN Tail(Cells(n)) ELSE Fill(0)

\* A file that ends too early ends the restore, and freeproc() the process.
RestorePage ==
  /\ pc = "load" /\ i < hdr
  /\ LET present == Reads(1) /\ Cells(1)[1] # 0
         n == IF present THEN 1 + PGSIZE ELSE 1
         f == freeproc(Work(np, held, 0), npsz)
     IN IF ~Reads(n)
        THEN /\ np' = Rest(f) /\ npsz' = 0 /\ held' = f.held
             /\ pc' = (IF f.panic THEN "panic" ELSE "user") /\ i' = 0 /\ off' = 0
        ELSE /\ np' = [np EXCEPT !.pages[i].data = Loads(n, present)]
             /\ off' = off + n /\ i' = i + 1
             /\ UNCHANGED <<npsz, held, pc>>
  /\ UNCHANGED <<mem, sz, hdr, file, saved>>

RestoreDone ==
  /\ pc = "load" /\ i = hdr
  /\ pc' = "restored" /\ i' = 0 /\ off' = 0
  /\ UNCHANGED <<space, hdr, file, saved>>

Next ==
  \/ \E va \in Stores, v \in Vals : Store(va, v)
  \/ \E va \in Copies, v \in Vals \ {0} : Copy(va, 2, v)
  \/ \E n \in 1..2 : Sbrk(n)
  \/ Fork \/ ChildExits \/ ParentExits \/ Exit
  \/ Start(1)
  \/ Exec(1)
  \/ Checkpoint \/ CheckpointMark \/ CheckpointPage \/ CheckpointDone
  \/ Restore \/ RestorePage \/ RestoreDone

Spec == Init /\ [][Next]_vars

-----------------------------------------------------------------------------
\* Types.  The offset never passes the end of the checkpoint file.
TypeOK ==
  /\ mem \in Space /\ np \in Space
  /\ sz \in 0..MaxPages /\ npsz \in 0..MaxPages
  /\ held \in Nat
  /\ hdr \in -1..MaxPages
  /\ file \in Seq(Vals \cup {0, 1})
  /\ pc \in {"none", "user", "mark", "page", "load", "forked", "restored",
            "acquire", "panic"}
  /\ i \in 0..MaxPages
  /\ off \in 0..MaxPages * (1 + PGSIZE) /\ off <= Len(file)

\* A restored process has the memory for which the header of the file was
\* written, page by page and cell by cell: pages that were never touched read
\* as zeroes, and whatever an earlier image left in the file, and wherever a
\* full disk stopped a later checkpoint, no restored memory is a mixture.
MemoryKept ==
  pc = "restored" => /\ npsz = Cardinality(DOMAIN saved)
                     /\ \A va \in DOMAIN saved : np.pages[va].data = saved[va]

\* A child has its parent's memory: contents, permissions and the pages that
\* are still to be allocated, also above a hole that lazy sbrk() has left.
ChildAlike == pc = "forked" => np.pages = mem.pages /\ npsz = sz

\* Every frame that kalloc() has given out is a page, a table or a trapframe
\* of a process that still exists: whichever allocation of fork, exec, sbrk,
\* restore or a page fault fails, the error path gives back what the call has
\* taken, and an exit gives back everything.  In particular freewalk() never
\* meets a page that is still mapped ("freewalk: leaf"), and mappages() never
\* one that is mapped already ("mappages: remap").
FramesHeld ==
  /\ TypeOK /\ pc # "panic"
  /\ LET Has(m) == IF m.root = 1 THEN 1 + Frames(m) ELSE 0
     IN held = Has(mem) + Has(np)
=============================================================================
