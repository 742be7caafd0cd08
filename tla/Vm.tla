--------------------------------- MODULE Vm ---------------------------------
(***************************************************************************)
(* Page tables and the frames behind them: kalloc() and kfree() of         *)
(* kernel/kalloc.c, the functions of kernel/vm.c that map, unmap and copy  *)
(* user memory, and proc_pagetable() of kernel/proc.c, as operators on one *)
(* address space.                                                          *)
(*                                                                         *)
(* An address space m has a root table, the lower tables that walk() has   *)
(* made, and a page at every address.  Addresses are counted in pages.     *)
(* With it goes the account of kalloc(): m.held frames are taken, and      *)
(* m.left more can be had before the machine has none (other processes     *)
(* decide how many).  m.ok says that the last call has not failed, m.panic *)
(* that the kernel has.                                                    *)
(***************************************************************************)
EXTENDS Integers, Sequences, FiniteSets

CONSTANTS
  MaxPages,    \* bound: pages of a process
  PGSIZE,      \* cells of a page
  PTES,        \* entries of a page table of the lowest level
  Vals         \* what a cell holds; 0 is what a fresh page is filled with

ASSUME VmAssumption ==
  /\ MaxPages \in Nat /\ PGSIZE \in Nat \ {0} /\ PTES \in Nat \ {0}
  /\ 0 \in Vals

\* The two pages at the top of every address space.
TRAMPOLINE == -1
TRAPFRAME == -2
User == 0..(MaxPages - 1)
Vas == {TRAMPOLINE, TRAPFRAME} \cup User

\* Permissions: "kernel" pages are not for the user, and a "guard" page is no
\* longer; the user only reads "text".
Fill(v) == [c \in 1..PGSIZE |-> v]
Page(v, perm) == [valid |-> 1, perm |-> perm, data |-> Fill(v)]
Unmapped == [valid |-> 0, perm |-> "data", data |-> Fill(0)]
Kernel == Page(0, "kernel")

Space == [root : 0..1, tables : SUBSET (-2..MaxPages),
          pages : [Vas -> [valid : 0..1, data : [1..PGSIZE -> Vals],
                           perm : {"kernel", "guard", "text", "data"}]]]
NoSpace == [root |-> 0, tables |-> {}, pages |-> [va \in Vas |-> Unmapped]]

\* m at work, with `left` frames to be had; and the address space it leaves.
Work(m, held, left) ==
  [root |-> m.root, tables |-> m.tables, pages |-> m.pages,
   held |-> held, left |-> left, ok |-> TRUE, panic |-> FALSE]
Rest(m) == [root |-> m.root, tables |-> m.tables, pages |-> m.pages]

-----------------------------------------------------------------------------
(* A call after a call: Then only if the one before has not failed, Else,  *)
(* the error path, only if it has.                                         *)

Then(m, Call(_)) == IF m.ok THEN Call(m) ELSE m
Else(m, Undo(_)) == IF m.ok THEN m ELSE Undo(m)

-----------------------------------------------------------------------------
(* Frames.                                                                 *)

kalloc(m) ==
  IF m.left = 0 THEN [m EXCEPT !.ok = FALSE]
                ELSE [m EXCEPT !.left = @ - 1, !.held = @ + 1]

kfree(m, n) == [m EXCEPT !.held = @ - n]

\* The user pages that are mapped.
Mapped(m) == {va \in User : m.pages[va].valid = 1}

\* The frames of an address space: the tables and the user's pages.  The
\* trampoline is the kernel's, and the trapframe the process's.
Frames(m) == m.root + Cardinality(m.tables) + Cardinality(Mapped(m))

-----------------------------------------------------------------------------
(* Tables.                                                                 *)

\* The tables on the way from the root to the entry of an address.
Path(va) == IF va < 0 THEN <<-1, -2>> ELSE <<0, 1 + va \div PTES>>

\* walk() with alloc: what is missing is made, and stays when the next table
\* cannot be made.
walk(m, va) ==
  LET Table(w, t) ==
        IF t \in w.tables THEN w
        ELSE Then(kalloc(w), LAMBDA k : [k EXCEPT !.tables = @ \cup {t}])
  IN Then(Table(m, Path(va)[1]), LAMBDA w : Table(w, Path(va)[2]))

mappages(m, va, page) ==
  Then(walk(m, va),
       LAMBDA w : IF w.pages[va].valid = 1 THEN [w EXCEPT !.panic = TRUE]
                  ELSE [w EXCEPT !.pages[va] = page])

\* A page that is not mapped is skipped; the tables stay.
uvmunmap(m, va, n, do_free) ==
  LET gone == {a \in va..(va + n - 1) : m.pages[a].valid = 1}
  IN [m EXCEPT !.pages = [a \in Vas |-> IF a \in gone THEN Unmapped ELSE @[a]],
               !.held = @ - do_free * Cardinality(gone)]

uvmdealloc(m, oldsz, newsz) ==
  IF newsz >= oldsz THEN m ELSE uvmunmap(m, newsz, oldsz - newsz, 1)

\* The loops over the pages from a to below b: Step at each of them, until
\* one fails.
Loop(Step(_, _), m, a, b) ==
  LET at[va \in a..b] ==
        IF va = a THEN m ELSE Then(at[va - 1], LAMBDA w : Step(w, va - 1))
  IN IF a < b THEN at[b] ELSE m

\* A frame for `page` at va, or nothing: a frame that cannot be mapped is
\* given back.
\* Add_Drops: it is not.
Add_Drops(m, va, page) == Then(kalloc(m), LAMBDA k : mappages(k, va, page))
Add(m, va, page) ==
  Then(kalloc(m),
       LAMBDA k : Else(mappages(k, va, page), LAMBDA q : kfree(q, 1)))

\* Fresh pages from oldsz to newsz; if there is no frame for one, the ones
\* before it go.
uvmalloc(m, oldsz, newsz, perm) ==
  LET Grow(w, va) == Else(Add(w, va, Page(0, perm)),
                          LAMBDA q : uvmdealloc(q, va, oldsz))
  IN Loop(Grow, m, oldsz, newsz)

\* The pages of `old` that are mapped, with their contents and permissions.
\* uvmcopy_Stops: the first page that is not mapped ends the loop.
uvmcopy_Stops(old, m, sz) ==
  LET Copy(w, va) == IF \E a \in 0..va : old.pages[a].valid = 0 THEN w
                     ELSE Else(Add(w, va, old.pages[va]),
                               LAMBDA q : uvmunmap(q, 0, va, 1))
  IN Loop(Copy, m, 0, sz)
uvmcopy(old, m, sz) ==
  LET Copy(w, va) == IF old.pages[va].valid = 0 THEN w
                     ELSE Else(Add(w, va, old.pages[va]),
                               LAMBDA q : uvmunmap(q, 0, va, 1))
  IN Loop(Copy, m, 0, sz)

uvmclear(m, va) == [m EXCEPT !.pages[va].perm = "guard"]

\* freewalk() finds no page that is still mapped, or panics.
freewalk(m) ==
  IF \E va \in Vas : m.pages[va].valid = 1 THEN [m EXCEPT !.panic = TRUE]
  ELSE [kfree(m, m.root + Cardinality(m.tables)) EXCEPT
          !.root = 0, !.tables = {}]

uvmfree(m, sz) == freewalk(uvmunmap(m, 0, sz, 1))

\* vmfault(): a fresh page where p->sz allows one and there is none.
vmfault(m, sz, va) ==
  IF va >= sz \/ m.pages[va].valid = 1 THEN [m EXCEPT !.ok = FALSE]
  ELSE Add(m, va, Page(0, "data"))

-----------------------------------------------------------------------------
(* The kernel at the user's memory.                                        *)

\* walkaddr() finds what the user may use.
walkaddr(m, va) == m.pages[va].valid = 1 /\ m.pages[va].perm \in {"text", "data"}

\* The page at va, for the kernel to use: vmfault() makes one that is not
\* there.
Reach(m, sz, va) ==
  IF walkaddr(m, va) THEN m ELSE vmfault(m, sz, va)

\* n pages from va on are filled with v, or as many as can be reached and
\* written before the first that cannot.
copyout(m, sz, va, n, v) ==
  LET Put(w, a) ==
        Then(Reach(w, sz, a),
             LAMBDA q : IF q.pages[a].perm = "text" THEN [q EXCEPT !.ok = FALSE]
                        ELSE [q EXCEPT !.pages[a].data = Fill(v)])
  IN Loop(Put, m, va, va + n)

copyin(m, sz, va, n) ==
  LET Get(w, a) == Reach(w, sz, a) IN Loop(Get, m, va, va + n)

-----------------------------------------------------------------------------
(* The address space of a process.                                         *)

\* Empty, but for the two pages at the top.
proc_pagetable(m) ==
  LET Top(r) == Else(mappages([r EXCEPT !.root = 1], TRAMPOLINE, Kernel),
                     LAMBDA t : uvmfree(t, 0))
      Frame(t) == Else(mappages(t, TRAPFRAME, Kernel),
                       LAMBDA f : uvmfree(uvmunmap(f, TRAMPOLINE, 1, 0), 0))
  IN Then(Then(kalloc(m), Top), Frame)

proc_freepagetable(m, sz) ==
  uvmfree(uvmunmap(uvmunmap(m, TRAMPOLINE, 1, 0), TRAPFRAME, 1, 0), sz)

\* freeproc() of a process that has both: the trapframe is one more frame.
freeproc(m, sz) == proc_freepagetable(kfree(m, 1), sz)

\* allocproc(): the trapframe and the page table, or neither.
allocproc(m) ==
  Then(kalloc(m), LAMBDA t : Else(proc_pagetable(t), LAMBDA p : kfree(p, 1)))
=============================================================================
