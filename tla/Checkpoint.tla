----------------------------- MODULE Checkpoint -----------------------------
(***************************************************************************)
(* checkpoint_proc() and restore_proc() of kernel/proc.c: what becomes of  *)
(* the open files, the pipes and the working directory of a process, while *)
(* other processes open, share, close and unlink the same files, and the   *)
(* machine may be rebooted between the two.                                *)
(*                                                                         *)
(* There is one checkpoint file; both system calls hold its inode's lock   *)
(* from beginning to end, so one of them runs at a time.  checkpoint reads *)
(* only its own process and is one step.  restore is one step per file     *)
(* descriptor: others run in between.  Memory is modelled in AddrSpace,    *)
(* the process table in Proc.                                              *)
(***************************************************************************)
EXTENDS FileTable, Sequences

CONSTANTS
  Machines    \* bound: the machines; a behaviour is of one of them

(* A machine: its slots of the process table, of which 1 is init; those    *)
(* that make system calls other than exit (a bound), and those of them     *)
(* that call fork() (a bound); whether they only do so while they are      *)
(* alone (a bound); file descriptors of a process, open files and pages    *)
(* for pipes (NOFILE, NFILE, kalloc()); the inodes of its disk, of which   *)
(* some are devices and directories; how often an inode number is used     *)
(* again (a bound); and the modes <<readable, writable>> of its open()     *)
(* calls (a bound).                                                        *)
Machine == [Procs : SUBSET Nat, Callers : SUBSET Nat, Forkers : SUBSET Nat,
            Alone : BOOLEAN, NOFILE : Nat \ {0}, NFILE : Nat, NPIPE : Nat,
            Inums : SUBSET (Nat \ {0}), Devices : SUBSET Nat, Dirs : SUBSET Nat,
            MaxGen : Nat, Modes : SUBSET ((0..1) \X (0..1))]

ROOTINO == 1

ASSUME CheckpointAssumption ==
  \A m \in Machines :
    /\ m \in Machine
    /\ 1 \in m.Procs /\ m.Forkers \subseteq m.Callers /\ m.Callers \subseteq m.Procs
    /\ m.Devices \subseteq m.Inums /\ m.Dirs \subseteq m.Inums
    /\ ROOTINO \in m.Dirs

VARIABLES
  machine,    \* which of the machines this is
  k,          \* open files, pipes and inodes
  live,       \* processes that run
  ofile,      \* p->ofile: a file, or 0
  cwd,        \* p->cwd: an inode, or 0
  img,        \* the checkpoint file: a header and whether its pages follow
  rs,         \* restore_proc(): where it is
  orig        \* history: what the process looked like when it was saved

vars == <<machine, k, live, ofile, cwd, img, rs, orig>>

Procs == machine.Procs
NOFILE == machine.NOFILE
FDs == 0..(NOFILE - 1)
Files == 1..machine.NFILE
Pipes == 1..machine.NPIPE
Inums == machine.Inums

Idle == [pc |-> "idle", by |-> 0, np |-> 0, i |-> 0]
NoImage == [magic |-> 0]
Truncated == [magic |-> 1, whole |-> 0]
Nothing == [taken |-> 0]

\* struct ckpt_fd.
NoFd == [type |-> "FD_NONE", readable |-> 0, writable |-> 0, inum |-> 0,
         off |-> 0, pipe_id |-> -1]

-----------------------------------------------------------------------------
(* What a process can see of its file descriptors.                         *)

FileOf(p, fd) == k.file[ofile[p][fd]]
Open(p) == {fd \in FDs : ofile[p][fd] # 0}
PipeFds(p) == {fd \in Open(p) : FileOf(p, fd).type = "FD_PIPE"}

\* The descriptors that are ends of the same pipe.
Peers(p, fd) ==
  {e \in PipeFds(p) : fd \in PipeFds(p) /\ FileOf(p, e).obj = FileOf(p, fd).obj}

View(p) ==
  [fd \in FDs |->
     IF fd \notin Open(p) THEN [type |-> "FD_NONE"]
     ELSE LET f == FileOf(p, fd)
              pipe == f.type = "FD_PIPE"
          IN [type |-> f.type, readable |-> f.readable, writable |-> f.writable,
              inum |-> IF pipe THEN 0 ELSE f.obj,
              off |-> f.off, peers |-> Peers(p, fd)]]

-----------------------------------------------------------------------------
InoType(i) ==
  IF i \in machine.Dirs THEN "DIR" ELSE IF i \in machine.Devices THEN "DEVICE" ELSE "FILE"

\* A booted machine: process 1, with / as its directory and no open files.
NoFiles == [p \in Procs |-> [fd \in FDs |-> 0]]
InitCwd == [p \in Procs |-> IF p = 1 THEN ROOTINO ELSE 0]

Init ==
  /\ machine \in Machines
  /\ k = [file |-> [f \in Files |-> FreeFile],
          pipe |-> [i \in Pipes |-> FreePipe],
          ino  |-> [i \in Inums |-> [ref |-> IF i = ROOTINO THEN 1 ELSE 0,
                                     nlink |-> 1, gen |-> 0,
                                     type |-> InoType(i)]]]
  /\ live = {1} /\ ofile = NoFiles /\ cwd = InitCwd /\ rs = Idle
  /\ img = NoImage
  /\ orig = Nothing

\* A running process that is not inside restore().
Running(p) == p \in live /\ rs.by # p
Ready(p) == Running(p) /\ p \in machine.Callers /\ (machine.Alone => live = {p})

FreeFds(p) == FDs \ Open(p)
Fdalloc(p) == Min(FreeFds(p))

Place(p, fd, f) == ofile' = [ofile EXCEPT ![p][fd] = f]

-----------------------------------------------------------------------------
(* The system calls that make, share and drop what a checkpoint refers to. *)
(* A call that finds no free descriptor, file or page undoes what it did   *)
(* and returns -1.                                                         *)

\* The struct file sys_open() fills in for inode i.
Opened(i, mode) ==
  [FreeFile EXCEPT !.type = IF k.ino[i].type = "DEVICE" THEN "FD_DEVICE"
                                                        ELSE "FD_INODE",
                   !.obj = i, !.readable = mode[1], !.writable = mode[2]]

SysOpen(p, i, mode) ==
  /\ Ready(p)
  /\ k.ino[i].nlink > 0
  /\ k.ino[i].type = "DIR" => mode = <<1, 0>>
  /\ FreeFiles(k) # {} /\ FreeFds(p) # {}
  /\ k' = Filealloc(Iget(k, i), FirstFree(k), Opened(i, mode))
  /\ Place(p, Fdalloc(p), FirstFree(k))
  /\ UNCHANGED <<live, cwd, img, rs, orig>>

\* open(O_CREATE), mknod() and mkdir() of a name that is not there: ialloc()
\* gives out the first inode that is free on disk.
Create(i) ==
  /\ \E p \in Procs : Ready(p)
  /\ k.ino[i].type = "NONE"
  /\ \A j \in Inums : j < i => k.ino[j].type # "NONE"
  /\ k.ino[i].gen < machine.MaxGen
  /\ k' = [k EXCEPT !.ino[i].type = InoType(i), !.ino[i].nlink = 1,
                    !.ino[i].gen = @ + 1]
  /\ UNCHANGED <<live, ofile, cwd, img, rs, orig>>

\* unlink() of the only name: namei() takes a reference and iunlockput()
\* gives it back.
Unlink(i) ==
  /\ \E p \in Procs : Ready(p)
  /\ i # ROOTINO
  /\ k.ino[i].nlink > 0
  /\ k' = Iput([Iget(k, i) EXCEPT !.ino[i].nlink = 0], i)
  /\ UNCHANGED <<live, ofile, cwd, img, rs, orig>>

Chdir(p, i) ==
  /\ Ready(p)
  /\ k.ino[i].type = "DIR" /\ k.ino[i].nlink > 0
  /\ k' = Iput(Iget(k, i), cwd[p])
  /\ cwd' = [cwd EXCEPT ![p] = i]
  /\ UNCHANGED <<live, ofile, img, rs, orig>>

Dup(p, fd) ==
  /\ Ready(p)
  /\ fd \in Open(p) /\ FreeFds(p) # {}
  /\ k' = Filedup(k, ofile[p][fd])
  /\ Place(p, Fdalloc(p), ofile[p][fd])
  /\ UNCHANGED <<live, cwd, img, rs, orig>>

SysPipe(p) ==
  /\ Ready(p)
  /\ CanPipealloc(k) /\ Cardinality(FreeFds(p)) >= 2
  /\ LET r == FirstFree(k)
         w == Min(FreeFiles(k) \ {r})
         fd0 == Fdalloc(p)
         fd1 == Min(FreeFds(p) \ {fd0})
     IN /\ k' = Pipealloc(k, r, w, Min(FreePipes(k)))
        /\ ofile' = [ofile EXCEPT ![p][fd0] = r, ![p][fd1] = w]
  /\ UNCHANGED <<live, cwd, img, rs, orig>>

SysClose(p, fd) ==
  /\ Ready(p)
  /\ fd \in Open(p)
  /\ k' = Fileclose(k, ofile[p][fd])
  /\ Place(p, fd, 0)
  /\ UNCHANGED <<live, cwd, img, rs, orig>>

\* read() or write() of a file moves the offset that all its descriptors
\* share (0 is the beginning, 1 is further on).
Seek(p, fd) ==
  /\ Ready(p)
  /\ fd \in Open(p)
  /\ FileOf(p, fd).type = "FD_INODE"
  /\ k.ino[FileOf(p, fd).obj].type # "NONE"
  /\ k' = [k EXCEPT !.file[ofile[p][fd]].off = 1]
  /\ UNCHANGED <<live, ofile, cwd, img, rs, orig>>

Fork(p, np) ==
  /\ Ready(p)
  /\ p \in machine.Forkers
  /\ np \in Procs \ live /\ np # rs.np
  /\ k' = Iget(FoldSet(LAMBDA fd, kk : Filedup(kk, ofile[p][fd]), k, Open(p)),
               cwd[p])
  /\ ofile' = [ofile EXCEPT ![np] = ofile[p]]
  /\ cwd' = [cwd EXCEPT ![np] = cwd[p]]
  /\ live' = live \cup {np}
  /\ UNCHANGED <<img, rs, orig>>

Exit(p) ==
  /\ Running(p) /\ p # 1
  /\ k' = Iput(FoldSet(LAMBDA fd, kk : Fileclose(kk, ofile[p][fd]), k, Open(p)),
               cwd[p])
  /\ ofile' = [ofile EXCEPT ![p] = [fd \in FDs |-> 0]]
  /\ cwd' = [cwd EXCEPT ![p] = 0]
  /\ live' = live \ {p}
  /\ UNCHANGED <<img, rs, orig>>

-----------------------------------------------------------------------------
(* checkpoint_proc().                                                      *)

\* Pipes are numbered in the order in which their first descriptor comes.
PipeId(p, fd) ==
  LET before == {e \in PipeFds(p) : e < Min(Peers(p, fd))}
  IN Cardinality({FileOf(p, e).obj : e \in before})

CkptFd(p, fd) ==
  IF fd \notin Open(p) THEN NoFd
  ELSE LET f == FileOf(p, fd)
           saved == [NoFd EXCEPT !.type = f.type, !.readable = f.readable,
                                 !.writable = f.writable]
       IN CASE f.type = "FD_PIPE"   -> [saved EXCEPT !.pipe_id = PipeId(p, fd)]
            [] f.type = "FD_INODE"  -> [saved EXCEPT !.inum = f.obj, !.off = f.off]
            [] f.type = "FD_DEVICE" -> [saved EXCEPT !.inum = f.obj]

\* The pipe graphs that checkpoint_proc() accepts: two descriptors for each
\* pipe, one that reads and one that writes.
Capturable_AnyPair(p) == \A fd \in PipeFds(p) : Cardinality(Peers(p, fd)) = 2
Capturable(p) ==
  \A fd \in PipeFds(p) :
     /\ Cardinality(Peers(p, fd)) = 2
     /\ \E e \in Peers(p, fd) : FileOf(p, e).readable # FileOf(p, fd).readable

\* The header is written, and then the pages.  The disk may be full before
\* the last of them (whole = 0): checkpoint() returns -1 and the header, in
\* the place of the one of the previous checkpoint, stays.  (What else that
\* header says is never used: restore_proc() reads the pages first.)
Checkpoint(p, whole) ==
  /\ Ready(p) /\ rs = Idle
  /\ Capturable(p)
  /\ img' = IF whole = 0 THEN Truncated
            ELSE [magic |-> 1, whole |-> 1, cwd |-> cwd[p],
                  fds |-> [fd \in FDs |-> CkptFd(p, fd)]]
  /\ orig' = IF whole = 0 THEN Nothing
             ELSE [taken |-> 1, view |-> View(p), cwd |-> cwd[p]]
  /\ UNCHANGED <<k, live, ofile, cwd, rs>>

-----------------------------------------------------------------------------
(* restore_proc().                                                         *)

Step(pc, i) == rs' = [rs EXCEPT !.pc = pc, !.i = i]
Restoring(pc) == rs.pc = pc /\ rs.i < NOFILE
Restored(pc) == rs.pc = pc /\ rs.i = NOFILE
Hdr(fd) == img.fds[fd]

\* The header is read, a slot taken and the pages read into it; an image
\* without all its pages is bad.
RestoreStart(p, np) ==
  /\ Ready(p) /\ rs = Idle
  /\ np \in Procs \ live
  /\ img.magic = 1
  /\ rs' = [pc |-> IF img.whole = 1 THEN "files" ELSE "bad",
            by |-> p, np |-> np, i |-> 0]
  /\ UNCHANGED <<k, live, ofile, cwd, img, orig>>

\* The struct file that a saved descriptor becomes.
RestoredFile(h) ==
  [FreeFile EXCEPT !.type = h.type, !.readable = h.readable,
                   !.writable = h.writable, !.obj = h.inum, !.off = h.off]

\* The first loop: files and devices.
RestoreFile ==
  /\ Restoring("files")
  /\ IF Hdr(rs.i).type \in {"FD_NONE", "FD_PIPE"}
     THEN Step("files", rs.i + 1) /\ UNCHANGED <<k, ofile>>
     ELSE IF FreeFiles(k) = {}
     THEN Step("bad", 0) /\ UNCHANGED <<k, ofile>>
     ELSE /\ k' = Filealloc(Iget(k, Hdr(rs.i).inum), FirstFree(k),
                            RestoredFile(Hdr(rs.i)))
          /\ Place(rs.np, rs.i, FirstFree(k))
          /\ Step("files", rs.i + 1)
  /\ UNCHANGED <<live, cwd, img, orig>>

\* Without a saved directory it is /.
RestoredCwd == IF img.cwd = 0 THEN ROOTINO ELSE img.cwd

RestoreCwd ==
  /\ Restored("files")
  /\ k' = Iget(k, RestoredCwd)
  /\ cwd' = [cwd EXCEPT ![rs.np] = RestoredCwd]
  /\ Step("pipes", 0)
  /\ UNCHANGED <<live, ofile, img, orig>>

\* The descriptor that the second loop pairs with fd.
Partners_AnyPipe(fd) ==
  {e \in fd + 1..(NOFILE - 1) : Hdr(e).type = "FD_PIPE" /\ ofile[rs.np][e] = 0}
Partners(fd) ==
  {e \in fd + 1..(NOFILE - 1) :
     /\ Hdr(e).type = "FD_PIPE"
     /\ Hdr(e).pipe_id = Hdr(fd).pipe_id
     /\ ofile[rs.np][e] = 0}

\* The second loop: pipes, two descriptors at a time.
RestorePipe ==
  /\ Restoring("pipes")
  /\ IF Hdr(rs.i).type # "FD_PIPE" \/ ofile[rs.np][rs.i] # 0
     THEN Step("pipes", rs.i + 1) /\ UNCHANGED <<k, ofile>>
     ELSE IF Partners(rs.i) = {} \/ ~CanPipealloc(k)
     THEN Step("bad", 0) /\ UNCHANGED <<k, ofile>>
     ELSE LET r == FirstFree(k)
              w == Min(FreeFiles(k) \ {r})
              end(fd) == IF Hdr(fd).readable = 1 THEN r ELSE w
              fdb == Min(Partners(rs.i))
          IN /\ k' = Pipealloc(k, r, w, Min(FreePipes(k)))
             /\ ofile' = [ofile EXCEPT ![rs.np][rs.i] = end(rs.i),
                                       ![rs.np][fdb] = end(fdb)]
             /\ Step("pipes", rs.i + 1)
  /\ UNCHANGED <<live, cwd, img, orig>>

RestoreDone ==
  /\ Restored("pipes")
  /\ live' = live \cup {rs.np}
  /\ rs' = Idle
  /\ UNCHANGED <<k, ofile, cwd, img, orig>>

\* bad: close what was opened, one descriptor after another.
RestoreBadFile ==
  /\ Restoring("bad")
  /\ IF ofile[rs.np][rs.i] = 0 THEN UNCHANGED <<k, ofile>>
     ELSE /\ k' = Fileclose(k, ofile[rs.np][rs.i])
          /\ Place(rs.np, rs.i, 0)
  /\ Step("bad", rs.i + 1)
  /\ UNCHANGED <<live, cwd, img, orig>>

RestoreBad_KeepCwd ==
  /\ Restored("bad")
  /\ rs' = Idle
  /\ UNCHANGED <<k, live, ofile, cwd, img, orig>>
\* The directory is put only if it was taken.
RestoreBad ==
  /\ Restored("bad")
  /\ k' = IF cwd[rs.np] = 0 THEN k ELSE Iput(k, cwd[rs.np])
  /\ cwd' = [cwd EXCEPT ![rs.np] = 0]
  /\ rs' = Idle
  /\ UNCHANGED <<live, ofile, img, orig>>

-----------------------------------------------------------------------------
\* The machine stops and boots again: memory is lost, the checkpoint file is
\* kept, and ireclaim() frees the inodes that only open files kept.
Reboot ==
  /\ live' = {1} /\ ofile' = NoFiles /\ cwd' = InitCwd /\ rs' = Idle
  /\ k' = [file |-> [f \in Files |-> FreeFile],
           pipe |-> [i \in Pipes |-> FreePipe],
           ino |-> [i \in Inums |->
                      [k.ino[i] EXCEPT
                         !.ref = IF i = ROOTINO THEN 1 ELSE 0,
                         !.type = IF k.ino[i].nlink = 0 THEN "NONE" ELSE @]]]
  /\ UNCHANGED <<img, orig>>

Syscall(p) ==
  \/ \E i \in Inums, mode \in machine.Modes : SysOpen(p, i, mode)
  \/ \E i \in Inums : Chdir(p, i)
  \/ \E fd \in FDs : Dup(p, fd) \/ SysClose(p, fd) \/ Seek(p, fd)
  \/ SysPipe(p)
  \/ \E np \in Procs : Fork(p, np) \/ RestoreStart(p, np)
  \/ Exit(p)
  \/ \E whole \in 0..1 : Checkpoint(p, whole)

Next ==
  /\ \/ \E p \in Procs : Syscall(p)
     \/ \E i \in Inums : Create(i) \/ Unlink(i)
     \/ RestoreFile \/ RestoreCwd \/ RestorePipe \/ RestoreDone
     \/ RestoreBadFile \/ RestoreBad
     \/ Reboot
  /\ UNCHANGED machine

Spec == Init /\ [][Next]_vars

-----------------------------------------------------------------------------
(* Properties.                                                             *)

Ref == 0..Cardinality(Procs) * (NOFILE + 1)
FdType == {"FD_NONE", "FD_PIPE", "FD_INODE", "FD_DEVICE"}

\* Types.  In particular no reference count goes below zero or above the
\* number of places that can hold a reference.
TypeOK ==
  /\ k.file \in [Files -> [type : FdType, ref : Ref, readable : 0..1,
                           writable : 0..1, obj : {0} \cup Inums \cup Pipes,
                           off : 0..1]]
  /\ k.pipe \in [Pipes -> [readopen : 0..1, writeopen : 0..1]]
  /\ k.ino \in [Inums -> [ref : Ref, nlink : 0..1, gen : 0..machine.MaxGen,
                          type : {"NONE", "FILE", "DIR", "DEVICE"}]]
  /\ live \subseteq Procs
  /\ ofile \in [Procs -> [FDs -> {0} \cup Files]]
  /\ cwd \in [Procs -> {0} \cup Inums]
  /\ rs.pc \in {"idle", "files", "pipes", "bad"} /\ rs.i \in 0..NOFILE
  /\ rs.by \in {0} \cup Procs /\ rs.np \in {0} \cup Procs

\* Every open file counts exactly the descriptors that refer to it, those of
\* a process that restore_proc() is still putting together included: closing
\* the last one frees the file, and no earlier one does.
FileRefs ==
  \A f \in Files :
     k.file[f].ref =
       Cardinality({d \in Procs \X FDs : ofile[d[1]][d[2]] = f})

\* Every inode counts exactly the open files and working directories that
\* refer to it, so that iput() frees an unlinked file when, and only when, the
\* last of them goes, whether it was opened or restored.
InodeRefs ==
  \A i \in Inums :
     k.ino[i].ref =
       Cardinality({f \in Files : /\ k.file[f].type \in {"FD_INODE", "FD_DEVICE"}
                                  /\ k.file[f].obj = i})
       + Cardinality({p \in Procs : cwd[p] = i})

\* An end of a pipe is open exactly while one open file is that end.  So a
\* reader sees end-of-file when the last writer is gone and no earlier, and a
\* pipe's page is freed exactly once.
PipeEnds ==
  \A i \in Pipes : \A w \in 0..1 :
     Cardinality({f \in Files : /\ k.file[f].type = "FD_PIPE"
                                /\ k.file[f].obj = i
                                /\ k.file[f].writable = w})
       = IF w = 1 THEN k.pipe[i].writeopen ELSE k.pipe[i].readopen

\* All counts are exact at every moment: of the descriptors of a file, the
\* users of an inode, and the ends of a pipe (file.c, fs.c, pipe.c), through
\* fork(), dup(), restores that fail half way, and reboots.
CountsExact == TypeOK /\ FileRefs /\ InodeRefs /\ PipeEnds

\* A slot that no process uses holds no file and no directory: what a failed
\* restore() or an exit() had opened is all given back.
NoLeak ==
  \A p \in Procs \ (live \cup {rs.np}) : Open(p) = {} /\ cwd[p] = 0

\* restore_proc() has put the process together and is about to let it run.
Finished == Restored("pipes") /\ orig.taken = 1

\* A restored process starts with the descriptors that the process had when
\* it was saved: of the same kind, to the same inode at the same offset, with
\* the same access, and with the ends of the same pipe paired, and in the same
\* directory, whatever the other processes did meanwhile and even if the
\* machine was rebooted in between.
RestoredAlike ==
  Finished =>
    /\ cwd[rs.np] = orig.cwd
    /\ \A fd \in FDs :
         LET a == View(rs.np)[fd]
             b == orig.view[fd]
         IN /\ a.type = b.type
            /\ a.type # "FD_NONE" =>
                 /\ <<a.readable, a.writable>> = <<b.readable, b.writable>>
                 /\ <<a.inum, a.off, a.peers>> = <<b.inum, b.off, b.peers>>

=============================================================================
