--------------------------------- MODULE Fs ---------------------------------
(***************************************************************************)
(* Inodes, directories and path names (kernel/fs.c), and the system calls  *)
(* on them (kernel/sysfile.c), by several processes at once.               *)
(*                                                                         *)
(* A step is what a thread does from one ilock() to the next one, or to    *)
(* the iput() that follows it: everything in between is guarded by the     *)
(* inode lock, and itable.lock and the locks of buffers make steps of what *)
(* they guard.  iput() takes two steps when it frees the inode, since it   *)
(* lets go of itable.lock in between.                                      *)
(*                                                                         *)
(* Every operation is in a transaction, so a crash undoes it or keeps all  *)
(* of it (Log): the states after a crash are those in which no operation   *)
(* is under way.                                                           *)
(***************************************************************************)
EXTENDS Integers, FiniteSets, FiniteSetsExt, Sequences, SequencesExt

CONSTANTS
  Procs,       \* threads, in system calls of the file system
  NInodes,     \* sb.ninodes - 1: inodes 1..NInodes; 1 is the root
  NBlocks,     \* data blocks 1..NBlocks
  NDIRECT, NINDIRECT,
  DPB,         \* directory entries in a block
  Calls,       \* bound: the system calls that each thread makes, with their paths
  NoProc

ASSUME FsAssumption ==
  /\ NInodes \in Nat \ {0} /\ NBlocks \in Nat \ {0}
  /\ NDIRECT \in Nat \ {0} /\ NINDIRECT \in Nat /\ DPB \in Nat \ {0}
  /\ NoProc \notin Procs

Inums == 1..NInodes
ROOTINO == 1

VARIABLES
  d,        \* the inodes on disk, with what the directories hold
  bitmap,   \* the blocks in use
  ic,       \* itable: the entry of an inode, if its ref is not 0
  th,       \* where a thread is, and its local variables
  cwd,      \* p->cwd
  file,     \* the inode of p's open file; 0 if none
  hist      \* history: .removed, the directories that were unlinked; .strays,
            \* the inodes that were linked in one of them, and those of them
            \* that have links again for that; .dangling, those of them whose
            \* parent was freed; .lost, a thread followed the ".." of one

fs == <<d, bitmap, ic>>
vars == <<fs, th, cwd, file, hist>>

-----------------------------------------------------------------------------
(* Blocks.  An operator that changes the inodes takes the state of the     *)
(* disk, s.d and s.map, and returns it with its result r.                  *)

NoBlocks == [direct |-> [k \in 0..(NDIRECT - 1) |-> 0], ind |-> 0,
             a |-> [k \in 0..(NINDIRECT - 1) |-> 0]]
FreeInode == [type |-> "free", nlink |-> 0, ents |-> <<>>, size |-> 0,
              addrs |-> NoBlocks]

\* balloc(): the first block that is free; 0 if there is none.
balloc(s) ==
  LET free == 1..NBlocks \ s.map
  IN IF free = {} THEN [s EXCEPT !.r = 0]
     ELSE [s EXCEPT !.map = @ \cup {Min(free)}, !.r = Min(free)]

\* bmap(): the block at index bn of inode i, allocated if necessary.  Of an
\* indirect block that is allocated in vain, the inode keeps track.
bmap(s, i, bn) ==
  LET at == s.d[i].addrs
      direct == balloc(s)
      t == IF at.ind # 0 THEN [s EXCEPT !.r = at.ind] ELSE balloc(s)
      u == [t EXCEPT !.d[i].addrs.ind = t.r]
      leaf == balloc(u)
  IN CASE bn < NDIRECT /\ at.direct[bn] # 0 -> [s EXCEPT !.r = at.direct[bn]]
       [] bn < NDIRECT /\ at.direct[bn] = 0 ->
            [direct EXCEPT !.d[i].addrs.direct[bn] = direct.r]
       [] bn >= NDIRECT /\ t.r = 0 -> t
       [] bn >= NDIRECT /\ t.r # 0 /\ at.a[bn - NDIRECT] # 0 ->
            [u EXCEPT !.r = at.a[bn - NDIRECT]]
       [] OTHER -> [leaf EXCEPT !.d[i].addrs.a[bn - NDIRECT] = leaf.r]

\* The blocks of an inode, the indirect one among them.
Owned(at) == {at.direct[k] : k \in DOMAIN at.direct}
             \cup {at.a[k] : k \in DOMAIN at.a} \cup {at.ind}

\* bfree() of each block of bs.
bfree(s, bs) == [s EXCEPT !.map = @ \ bs]

itrunc_Leaves(s, i) ==
  [bfree(s, Owned(s.d[i].addrs) \ {s.d[i].addrs.ind}) EXCEPT
     !.d[i].addrs = NoBlocks, !.d[i].size = 0, !.d[i].ents = <<>>]
itrunc(s, i) ==
  [bfree(s, Owned(s.d[i].addrs)) EXCEPT
     !.d[i].addrs = NoBlocks, !.d[i].size = 0, !.d[i].ents = <<>>]

\* writei() within block bn, up to offset off: r = 0 if there is no block.
MAXFILE == NDIRECT + NINDIRECT

writei(s, i, bn, off) ==
  LET t == bmap(s, i, bn)
  IN IF bn >= MAXFILE THEN [s EXCEPT !.r = 0]
     ELSE IF t.r = 0 THEN t
     ELSE [t EXCEPT !.d[i].size = IF off > @ THEN off ELSE @]

-----------------------------------------------------------------------------
(* Directories.                                                            *)

\* dirlookup(): the offset of the first entry with the name; 0 if none.
Slots(s, i, name) ==
  {k \in DOMAIN s.d[i].ents : s.d[i].ents[k].inum # 0 /\ s.d[i].ents[k].name = name}
dirlookup(s, i, name) == IF Slots(s, i, name) = {} THEN 0 ELSE Min(Slots(s, i, name))

\* dirlink(): the first empty entry, or a new one at the end.
dirlink(s, i, name, inum) ==
  LET ents == s.d[i].ents
      empty == {k \in DOMAIN ents : ents[k].inum = 0}
      k == IF empty = {} THEN Len(ents) + 1 ELSE Min(empty)
      t == writei(s, i, (k - 1) \div DPB, k)
      e == [inum |-> inum, name |-> name]
  IN IF dirlookup(s, i, name) # 0 THEN [s EXCEPT !.r = 0]
     ELSE IF t.r = 0 THEN t
     ELSE [t EXCEPT !.d[i].ents = IF k > Len(ents) THEN Append(ents, e)
                                  ELSE [ents EXCEPT ![k] = e]]

\* sys_unlink(): the entry is overwritten with zeroes.
erase(s, i, k) == [s EXCEPT !.d[i].ents[k] = [inum |-> 0, name |-> ""]]

\* isdirempty(): nothing after "." and "..".
isdirempty(i) == \A k \in DOMAIN d[i].ents : k > 2 => d[i].ents[k].inum = 0

-----------------------------------------------------------------------------
(* The inode table.                                                        *)

NoEntry == [ref |-> 0, valid |-> 0, type |-> "free", nlink |-> 0, lock |-> NoProc]

\* iget(): an entry that is not used gets the inode, and is not valid.
iget(tab, i) == [tab EXCEPT ![i] = IF @.ref > 0 THEN [@ EXCEPT !.ref = @ + 1]
                                   ELSE [NoEntry EXCEPT !.ref = 1]]

\* ilock(): the inode is read if the entry is not valid.
ilock(tab, i, p) ==
  [tab EXCEPT ![i] = IF @.valid = 1 THEN [@ EXCEPT !.lock = p]
                     ELSE [@ EXCEPT !.lock = p, !.valid = 1,
                             !.type = d[i].type, !.nlink = d[i].nlink]]
Unlocked(i) == ic[i].lock = NoProc

\* ilock() panics if the inode that it reads is free.
NoType(i) == ic[i].valid = 0 /\ d[i].type = "free"

iunlock(tab, i) == [tab EXCEPT ![i].lock = NoProc]

\* iupdate(): the disk gets what the entry says.  Size and blocks of an inode
\* are only kept on disk here: each change of the entry's is followed by an
\* iupdate() under the lock.
iupdate(s, tab, i) ==
  [s EXCEPT !.d[i].type = tab[i].type, !.d[i].nlink = tab[i].nlink]

-----------------------------------------------------------------------------
Nowhere == [abs |-> FALSE, elems |-> <<>>]

\* Local variables: the system call, and of link() the second path; the inode
\* and the rest of the path that namex() is at, or dp and its name; ip; the
\* inodes for which iput() comes next, and if it has freed the first of them.
Idle == [op |-> "none", new |-> Nowhere, pc |-> "idle", path |-> <<>>, at |-> 0, ip |-> 0,
         puts |-> <<>>, freeing |-> FALSE]

\* mkfs: the root directory.
RootDir ==
  [type |-> "dir", nlink |-> 1, size |-> 2,
   ents |-> <<[inum |-> ROOTINO, name |-> "."], [inum |-> ROOTINO, name |-> ".."]>>,
   addrs |-> [NoBlocks EXCEPT !.direct[0] = 1]]

\* Every process has the root as its current directory.
Booted == [i \in Inums |-> IF i = ROOTINO THEN [NoEntry EXCEPT !.ref = Cardinality(Procs)]
                                          ELSE NoEntry]

Init ==
  /\ d = [i \in Inums |-> IF i = ROOTINO THEN RootDir ELSE FreeInode]
  /\ bitmap = {1}
  /\ ic = Booted
  /\ th = [p \in Procs |-> Idle]
  /\ cwd = [p \in Procs |-> ROOTINO] /\ file = [p \in Procs |-> 0]
  /\ hist = [removed |-> {}, strays |-> {}, dangling |-> {}, lost |-> FALSE]

State == [d |-> d, map |-> bitmap, r |-> 1]
Disk(s) == d' = s.d /\ bitmap' = s.map
SameDisk == UNCHANGED <<d, bitmap>>
Same == UNCHANGED <<cwd, file, hist>>

\* A thread goes on; a system call that has nothing left to do returns.
Go(p, t) == th' = [th EXCEPT ![p] = IF t.pc = "end" /\ t.puts = <<>> THEN Idle ELSE t]
Ready(p, pc) == th[p].pc = pc /\ th[p].puts = <<>>
End(puts) == [Idle EXCEPT !.pc = "end", !.puts = puts]

Strayed(dp, is) ==
  IF dp \in hist.removed THEN [hist EXCEPT !.strays = @ \cup is] ELSE hist

Panic(p) ==
  /\ Go(p, [th[p] EXCEPT !.pc = "panic"])
  /\ SameDisk /\ Same /\ UNCHANGED ic

-----------------------------------------------------------------------------
(* namex().  The thread has a reference to the inode th[p].at; th[p].path  *)
(* is what is left of the path.                                            *)

\* Which calls want the parent.
nameiparent(t) == t.op \in {"creat", "mkdir", "unlink"} \/ t.ip # 0

\* Where the caller goes on.
Found(t) ==
  [t EXCEPT !.pc = CASE t.op \in {"open", "trunc"} -> "open"
                     [] t.op \in {"creat", "mkdir"} -> "create"
                     [] t.op = "link" /\ t.ip = 0 -> "link"
                     [] t.op = "link" /\ t.ip # 0 -> "link_dir"
                     [] OTHER -> t.op]
Failed_Kept(t, puts) ==
  IF t.ip # 0 THEN [t EXCEPT !.pc = "link_bad", !.at = 0, !.path = <<>>] ELSE End(<<>>)
Failed(t, puts) ==
  IF t.ip # 0 THEN [t EXCEPT !.pc = "link_bad", !.puts = puts, !.at = 0, !.path = <<>>]
              ELSE End(puts)

\* The loop's condition, and what follows it.
Walked(t) ==
  IF t.path # <<>> THEN [t EXCEPT !.pc = "walk"]
  ELSE IF nameiparent(t) THEN Failed(t, <<t.at>>)
  ELSE Found(t)

Start(p, path) == IF path.abs THEN ROOTINO ELSE cwd[p]

Begin(p, call) ==
  LET at == Start(p, call.path)
  IN /\ Ready(p, "idle")
     /\ ic' = iget(ic, at)
     /\ Go(p, Walked([Idle EXCEPT !.op = call.op, !.new = call.new,
                              !.path = call.path.elems, !.at = at]))
     /\ SameDisk /\ Same

\* One path element, under the lock of the directory.
Walk(p) ==
  LET t == th[p]
      i == t.at
      tab == iunlock(ilock(ic, i, p), i)
      k == dirlookup(State, i, Head(t.path))
      next == d[i].ents[k].inum
  IN /\ Ready(p, "walk") /\ Unlocked(i) /\ ~NoType(i)
     /\ \/ /\ tab[i].type # "dir"
           /\ ic' = tab /\ Go(p, Failed(t, <<i>>))
        \/ /\ tab[i].type = "dir" /\ nameiparent(t) /\ Len(t.path) = 1
           /\ ic' = tab /\ Go(p, Found(t))
        \/ /\ tab[i].type = "dir" /\ ~(nameiparent(t) /\ Len(t.path) = 1)
           /\ IF k = 0 THEN ic' = tab /\ Go(p, Failed(t, <<i>>))
              ELSE /\ ic' = iget(tab, next)
                   /\ Go(p, [Walked([t EXCEPT !.path = Tail(@), !.at = next])
                             EXCEPT !.puts = <<i>> \o @])
     /\ hist' = [hist EXCEPT !.lost = Head(t.path) = ".." /\ i \in hist.dangling]
     /\ SameDisk /\ UNCHANGED <<cwd, file>>

-----------------------------------------------------------------------------
(* iput().                                                                 *)

LastRef(i) == ic[i].ref = 1 /\ ic[i].valid = 1 /\ ic[i].nlink = 0

\* What becomes of the entry's valid when the inode has been freed.
Freed_Valid(e) == e
Freed(e) == [e EXCEPT !.valid = 0]

\* The inode has no links and no other references: truncate and free.
IputFree(p) ==
  LET t == th[p]
      i == Head(t.puts)
      tab == [ic EXCEPT ![i].type = "free"]
  IN /\ t.puts # <<>> /\ ~t.freeing
     /\ LastRef(i) /\ Unlocked(i)
     /\ Disk(iupdate(itrunc(State, i), tab, i))
     /\ ic' = [tab EXCEPT ![i] = [Freed(@) EXCEPT !.lock = p]]
     /\ Go(p, [t EXCEPT !.freeing = TRUE])
     /\ hist' = [hist EXCEPT !.removed = @ \ {i}, !.strays = @ \ {i},
                   !.dangling = (@ \cup {e \in hist.removed : d[e].ents[2].inum = i}) \ {i}]
     /\ UNCHANGED <<cwd, file>>

\* The reference is dropped.
IputDrop(p) ==
  LET t == th[p]
      i == Head(t.puts)
      tab == IF t.freeing THEN iunlock(ic, i) ELSE ic
  IN /\ t.puts # <<>>
     /\ t.freeing \/ ~LastRef(i)
     /\ ic' = [tab EXCEPT ![i] = IF @.ref = 1 THEN [NoEntry EXCEPT !.lock = tab[i].lock]
                                 ELSE [@ EXCEPT !.ref = @ - 1]]
     /\ Go(p, [t EXCEPT !.puts = Tail(@), !.freeing = FALSE])
     /\ SameDisk /\ Same

-----------------------------------------------------------------------------
(* create().                                                               *)

\* ialloc(): the first free inode, marked on disk; not locked.
FreeInums == {i \in Inums : d[i].type = "free"}
Type(op) == IF op = "mkdir" THEN "dir" ELSE "file"

Create(p) ==
  LET t == th[p]
      i == t.at
      k == dirlookup(State, i, Head(t.path))
      n == Min(FreeInums)
  IN /\ Ready(p, "create") /\ Unlocked(i)
     /\ \/ /\ k # 0
           /\ ic' = iget(ic, d[i].ents[k].inum)
           /\ Go(p, [t EXCEPT !.pc = "create_old", !.puts = <<i>>,
                               !.at = d[i].ents[k].inum, !.path = <<>>])
           /\ SameDisk
        \/ /\ k = 0 /\ FreeInums = {}
           /\ Go(p, End(<<i>>))
           /\ SameDisk /\ UNCHANGED ic
        \/ /\ k = 0 /\ FreeInums # {}
           /\ d' = [d EXCEPT ![n] = [FreeInode EXCEPT !.type = Type(t.op)]]
           /\ ic' = iget(ilock(ic, i, p), n)
           /\ Go(p, [t EXCEPT !.pc = "create_new", !.ip = n])
           /\ UNCHANGED bitmap
     /\ Same

CreateOld(p) ==
  LET t == th[p]
      i == t.at
      tab == ilock(ic, i, p)
  IN /\ Ready(p, "create_old") /\ Unlocked(i) /\ ~NoType(i)
     /\ IF t.op = "creat" /\ tab[i].type = "file"
        THEN ic' = tab /\ Go(p, [t EXCEPT !.pc = "opened"])
        ELSE ic' = iunlock(tab, i) /\ Go(p, End(<<i>>))
     /\ SameDisk /\ Same

\* Both the directory and the new inode are locked.
CreateNew(p) ==
  LET t == th[p]
      dp == t.at
      ip == t.ip
      dir == t.op = "mkdir"
      tab == [ilock(ic, ip, p) EXCEPT ![ip].nlink = 1]
      s1 == iupdate(State, tab, ip)
      s2 == IF dir THEN dirlink(s1, ip, ".", ip) ELSE s1
      s3 == IF dir /\ s2.r # 0 THEN dirlink(s2, ip, "..", dp) ELSE s2
      s4 == IF s3.r # 0 THEN dirlink(s3, dp, Head(t.path), ip) ELSE s3
      ok == [tab EXCEPT ![dp].nlink = IF dir THEN @ + 1 ELSE @, ![dp].lock = NoProc]
      fail == iunlock(iunlock([tab EXCEPT ![ip].nlink = 0], ip), dp)
  IN /\ Ready(p, "create_new") /\ Unlocked(ip) /\ ~NoType(ip)
     /\ IF s4.r # 0
        THEN /\ Disk(iupdate(s4, ok, dp)) /\ ic' = ok
             /\ Go(p, [t EXCEPT !.pc = "opened", !.puts = <<dp>>, !.at = ip, !.ip = 0,
                                 !.path = <<>>])
             /\ hist' = Strayed(dp, {ip, dp})
        ELSE /\ Disk(iupdate(s4, fail, ip)) /\ ic' = fail
             /\ Go(p, End(<<ip, dp>>))
             /\ UNCHANGED hist
     /\ UNCHANGED <<cwd, file>>

-----------------------------------------------------------------------------
(* sys_open(), sys_mkdir(), sys_chdir(), and what is done with a file.     *)

Open(p) ==
  LET t == th[p]
      i == t.at
      tab == ilock(ic, i, p)
  IN /\ Ready(p, "open") /\ Unlocked(i) /\ ~NoType(i)
     /\ IF tab[i].type = "dir" /\ t.op # "open"
        THEN ic' = iunlock(tab, i) /\ Go(p, End(<<i>>))
        ELSE ic' = tab /\ Go(p, [t EXCEPT !.pc = "opened"])
     /\ SameDisk /\ Same

\* The inode is locked; there may be no descriptor for it.
Opened(p) ==
  LET t == th[p]
      i == t.at
      opens == t.op # "mkdir" /\ file[p] = 0
  IN /\ Ready(p, "opened")
     /\ ic' = iunlock(ic, i)
     /\ IF opens THEN file' = [file EXCEPT ![p] = i] /\ Go(p, End(<<>>))
                 ELSE UNCHANGED file /\ Go(p, End(<<i>>))
     /\ IF opens /\ t.op = "trunc" /\ ic[i].type = "file"
        THEN Disk(itrunc(State, i)) ELSE SameDisk
     /\ UNCHANGED <<cwd, hist>>

Chdir(p) ==
  LET t == th[p]
      i == t.at
      tab == iunlock(ilock(ic, i, p), i)
  IN /\ Ready(p, "chdir") /\ Unlocked(i) /\ ~NoType(i)
     /\ ic' = tab
     /\ IF tab[i].type = "dir"
        THEN cwd' = [cwd EXCEPT ![p] = i] /\ Go(p, End(<<cwd[p]>>))
        ELSE UNCHANGED cwd /\ Go(p, End(<<i>>))
     /\ SameDisk /\ UNCHANGED <<file, hist>>

Write(p) ==
  LET i == file[p]
      s == writei(State, i, d[i].size, d[i].size + 1)
  IN /\ Ready(p, "idle") /\ i # 0
     /\ Unlocked(i) /\ ic[i].type = "file"
     /\ Disk(s)
     /\ UNCHANGED <<ic, th>> /\ Same

Close(p) ==
  /\ Ready(p, "idle") /\ file[p] # 0
  /\ file' = [file EXCEPT ![p] = 0]
  /\ Go(p, End(<<file[p]>>))
  /\ SameDisk /\ UNCHANGED <<ic, cwd, hist>>

-----------------------------------------------------------------------------
(* sys_link().                                                             *)

\* The count goes up first, and the inode is unlocked for the second path.
LinkUp(p) ==
  LET t == th[p]
      i == t.at
      tab == ilock(ic, i, p)
      up == iunlock([tab EXCEPT ![i].nlink = @ + 1], i)
      at == Start(p, t.new)
  IN /\ Ready(p, "link") /\ Unlocked(i) /\ ~NoType(i)
     /\ IF tab[i].type = "dir"
        THEN ic' = iunlock(tab, i) /\ Go(p, End(<<i>>)) /\ SameDisk
        ELSE /\ Disk(iupdate(State, up, i))
             /\ ic' = iget(up, at)
             /\ Go(p, Walked([t EXCEPT !.path = t.new.elems, !.at = at,
                                       !.new = Nowhere, !.ip = i]))
     /\ Same

LinkDir(p) ==
  LET t == th[p]
      dp == t.at
      k == dirlookup(State, dp, Head(t.path))
      s == dirlink(State, dp, Head(t.path), t.ip)
      bad == Failed(t, <<dp>>)
  IN /\ Ready(p, "link_dir") /\ Unlocked(dp)
     /\ Disk(s)
     /\ \/ /\ k # 0
           /\ ic' = iget(ic, d[dp].ents[k].inum)
           /\ Go(p, [bad EXCEPT !.puts = <<d[dp].ents[k].inum>> \o @])
           /\ UNCHANGED hist
        \/ /\ k = 0 /\ s.r = 0
           /\ Go(p, bad) /\ UNCHANGED <<ic, hist>>
        \/ /\ k = 0 /\ s.r # 0
           /\ Go(p, End(<<dp, t.ip>>))
           /\ hist' = Strayed(dp, {t.ip})
           /\ UNCHANGED ic
     /\ UNCHANGED <<cwd, file>>

\* bad: the count goes down again.
Undone_Forgotten(n) == n
Undone(n) == n - 1

LinkBad(p) ==
  LET t == th[p]
      tab == [ic EXCEPT ![t.ip].nlink = Undone(@)]
  IN /\ Ready(p, "link_bad") /\ Unlocked(t.ip)
     /\ ic' = tab /\ Disk(iupdate(State, tab, t.ip))
     /\ Go(p, End(<<t.ip>>))
     /\ Same

-----------------------------------------------------------------------------
(* sys_unlink().                                                           *)

\* Cannot unlink "." or "..".
Refused_Dot(name) == name = "."
Refused(name) == name \in {".", ".."}

\* The directory stays locked if the name is there.
Unlink(p) ==
  LET t == th[p]
      dp == t.at
      k == dirlookup(State, dp, Head(t.path))
  IN /\ Ready(p, "unlink") /\ Unlocked(dp)
     /\ IF Refused(Head(t.path)) \/ k = 0
        THEN Go(p, End(<<dp>>)) /\ UNCHANGED ic
        ELSE /\ ic' = iget(ilock(ic, dp, p), d[dp].ents[k].inum)
             /\ Go(p, [t EXCEPT !.pc = "unlink_child", !.ip = d[dp].ents[k].inum])
     /\ SameDisk /\ Same

UnlinkChild(p) ==
  LET t == th[p]
      dp == t.at
      ip == t.ip
      tab == ilock(ic, ip, p)
      dir == tab[ip].type = "dir"
      gone == erase(State, dp, dirlookup(State, dp, Head(t.path)))
      down == [tab EXCEPT ![dp].nlink = IF dir THEN @ - 1 ELSE @, ![dp].lock = NoProc]
  IN /\ Ready(p, "unlink_child") /\ Unlocked(ip) /\ ~NoType(ip) /\ tab[ip].nlink >= 1
     /\ IF dir /\ ~isdirempty(ip)
        THEN /\ ic' = iunlock(iunlock(tab, ip), dp)
             /\ Go(p, End(<<ip, dp>>)) /\ SameDisk /\ UNCHANGED hist
        ELSE /\ hist' = IF dir THEN [hist EXCEPT !.removed = @ \cup {ip}] ELSE hist
             /\ ic' = down /\ Disk(iupdate(gone, down, dp))
             /\ Go(p, [t EXCEPT !.pc = "unlink_drop", !.puts = <<dp>>, !.at = 0,
                                 !.path = <<>>])
     /\ UNCHANGED <<cwd, file>>

UnlinkDrop(p) ==
  LET t == th[p]
      tab == iunlock([ic EXCEPT ![t.ip].nlink = @ - 1], t.ip)
  IN /\ Ready(p, "unlink_drop")
     /\ ic' = tab /\ Disk(iupdate(State, tab, t.ip))
     /\ Go(p, End(<<t.ip>>))
     /\ Same

-----------------------------------------------------------------------------
\* The inode whose lock a thread waits for or takes next; 0 if none.
Wants(p) ==
  CASE th[p].puts # <<>> -> 0
    [] th[p].pc \in {"create_new", "unlink_child", "link_bad"} -> th[p].ip
    [] th[p].pc \in {"walk", "create", "create_old", "open", "chdir", "link", "link_dir",
                     "unlink"} -> th[p].at
    [] OTHER -> 0

\* panic("ilock: no type"), and panic("unlink: nlink < 1").
ToPanic(p) ==
  LET i == Wants(p)
  IN /\ i # 0 /\ Unlocked(i)
     /\ \/ NoType(i)
        \/ th[p].pc = "unlink_child" /\ ilock(ic, i, p)[i].nlink < 1

Panics(p) == ToPanic(p) /\ Panic(p)

Quiet == \A p \in Procs : th[p] = Idle

\* fsinit() after a crash: ireclaim() frees the inodes without links.
Orphans == {i \in Inums : d[i].type # "free" /\ d[i].nlink = 0}

Reboot ==
  /\ Quiet
  /\ d' = [i \in Inums |-> IF i \in Orphans THEN FreeInode ELSE d[i]]
  /\ bitmap' = bitmap \ UNION {Owned(d[i].addrs) : i \in Orphans}
  /\ ic' = Booted
  /\ cwd' = [p \in Procs |-> ROOTINO] /\ file' = [p \in Procs |-> 0]
  /\ hist' = [hist EXCEPT !.removed = @ \ Orphans, !.strays = @ \ Orphans,
                          !.dangling = @ \ Orphans]
  /\ UNCHANGED th

Step(p) ==
  \/ Walk(p) \/ IputFree(p) \/ IputDrop(p)
  \/ Create(p) \/ CreateOld(p) \/ CreateNew(p)
  \/ Open(p) \/ Opened(p) \/ Chdir(p)
  \/ LinkUp(p) \/ LinkDir(p) \/ LinkBad(p)
  \/ Unlink(p) \/ UnlinkChild(p) \/ UnlinkDrop(p)

Panicked == \E p \in Procs : th[p].pc = "panic"

\* The ".." of a removed directory names an inode that may be free, or another
\* file or directory by now.  What follows is left out, but for the iput() of
\* the removed directory and the panic.
Next ==
  \/ /\ hist.lost /\ ~Panicked
     /\ \E p \in Procs : IputDrop(p) \/ Panics(p)
  \/ /\ ~hist.lost
     /\ \/ \E p \in Procs : \/ Step(p) \/ Write(p) \/ Close(p)
                             \/ \E call \in Calls[p] : Begin(p, call)
        \/ Reboot

Spec == Init /\ [][Next]_vars

-----------------------------------------------------------------------------
\* Types.
TypeOK ==
  /\ \A i \in Inums :
       /\ d[i].type \in {"free", "dir", "file"} /\ d[i].nlink \in Nat
       /\ d[i].size \in Nat
       /\ ic[i].ref \in Nat /\ ic[i].valid \in 0..1
       /\ ic[i].lock \in Procs \cup {NoProc}
  /\ bitmap \subseteq 1..NBlocks
  /\ cwd \in [Procs -> Inums] /\ file \in [Procs -> Inums \cup {0}]

\* The directory entries that count as links of an inode: all but "." and
\* the ".." of a directory that was removed or never got its name.
Links(i) ==
  UNION {{<<e, k>> : k \in {k \in DOMAIN d[e].ents :
            /\ d[e].ents[k].inum = i /\ d[e].ents[k].name # "."
            /\ d[e].ents[k].name = ".." => d[e].nlink > 0 /\ e \notin hist.removed}} :
         e \in {e \in Inums : d[e].type = "dir"}}

\* What a directory entry names exists, and its link count admits it: at any
\* moment of any system call nlink is at least the number of entries.  When
\* none is under way it is that number, also after a crash; but an inode that
\* was linked in a directory after its removal keeps a count for the entry
\* that goes with the directory.
LinkCounts ==
  /\ \A i \in Inums : Cardinality(Links(i)) <= d[i].nlink
  /\ Quiet => \A i \in Inums \ hist.strays : d[i].nlink = Cardinality(Links(i))

\* Every directory that an entry names has that entry's directory as its "..":
\* directories form a tree, whoever makes and removes them.
ParentRight ==
  \A i, e \in Inums :
    \A k \in DOMAIN d[e].ents :
      LET ent == d[e].ents[k]
      IN ent.inum = i /\ ent.name \notin {".", ".."} /\ d[i].type = "dir" =>
           d[i].ents # <<>> /\ d[i].ents[2].inum = e

\* How many references a thread holds for itself.
Refs(p, i) ==
  LET t == th[p]
      one(j) == IF j = i THEN 1 ELSE 0
      held == IF t.pc \in {"end", "idle"} THEN 0 ELSE one(t.at) + one(t.ip)
  IN held + one(cwd[p]) + one(file[p]) + Cardinality({k \in DOMAIN t.puts : t.puts[k] = i})

SumRefs(i) == MapThenSumSet(LAMBDA p : Refs(p, i), Procs)

\* ip->ref counts the current directories, the open files, and what system
\* calls hold in their local variables: no path leaks or drops a reference.
RefCounts ==
  \A i \in Inums : ic[i].ref = SumRefs(i)

\* fs.c:354-355: "ip->ref == 1 means no other process can have ip locked, so
\* this acquiresleep() won't block (or deadlock)."
IputWontBlock ==
  \A p \in Procs :
    th[p].puts # <<>> /\ ~th[p].freeing /\ LastRef(Head(th[p].puts))
      => Unlocked(Head(th[p].puts))

\* An inode without links is freed when the last reference goes: it is not
\* left behind, but in a crash, and then ireclaim() finds it.
NoOrphan ==
  \A i \in Inums : d[i].type # "free" /\ d[i].nlink = 0 => ic[i].ref > 0

\* The directories are a tree in which every inode has the links it counts,
\* and what has none is gone, whoever makes, links and removes what.
TreeSound == TypeOK /\ LinkCounts /\ ParentRight /\ NoOrphan

\* A block is marked in the bitmap if and only if it belongs to an inode, and
\* it belongs to one only: balloc(), bmap() and itrunc() neither leak nor
\* share a block, also when the disk is full in the middle of bmap().
BlocksAccounted ==
  /\ bitmap = UNION {Owned(d[i].addrs) : i \in Inums} \ {0}
  /\ \A i, j \in Inums : i # j => Owned(d[i].addrs) \cap Owned(d[j].addrs) \subseteq {0}

\* Threads never wait for each other's inode locks in a circle, nor a thread
\* for its own; and iput() does not wait for one with itable.lock held.
Blocks(p) == IF Wants(p) = 0 THEN NoProc ELSE ic[Wants(p)].lock
NoLockCycle ==
  /\ IputWontBlock
  /\ \A p \in Procs :
    /\ Blocks(p) # p
    /\ \A q \in Procs : ~(Blocks(p) = q /\ Blocks(q) = p)

\* ilock() panics "no type", and unlink() "nlink < 1", at most after a thread
\* has followed the ".." of a removed directory whose parent was freed.
PanicByDotDot == (\E p \in Procs : ToPanic(p)) => hist.lost

=============================================================================
