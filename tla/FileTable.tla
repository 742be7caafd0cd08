----------------------------- MODULE FileTable -----------------------------
(***************************************************************************)
(* What open files refer to: the file table of kernel/file.c, the life of  *)
(* pipes (kernel/pipe.c) and the reference counts of inodes (kernel/fs.c), *)
(* as operators on a record k with the fields                              *)
(*                                                                         *)
(*   k.file[f]  struct file, with obj the pipe or the inode number;        *)
(*   k.pipe[i]  struct pipe: the ends that are open;                       *)
(*   k.ino[i]   an inode: ref in memory, nlink and type on disk, and gen,  *)
(*              which counts the files that have had this inode number.    *)
(*                                                                         *)
(* The tables have NFILE files, as many pipes as kalloc() has pages for,   *)
(* and the inodes of the disk: what k.file, k.pipe and k.ino are defined   *)
(* for.                                                                    *)
(*                                                                         *)
(* ftable.lock, the pipe's lock and itable.lock make each of them one step.*)
(***************************************************************************)
EXTENDS Integers, FiniteSets, FiniteSetsExt

FreeFile == [type |-> "FD_NONE", ref |-> 0, readable |-> 0, writable |-> 0,
             obj |-> 0, off |-> 0]
FreePipe == [readopen |-> 0, writeopen |-> 0]

FreeFiles(k) == {f \in DOMAIN k.file : k.file[f].ref = 0}
FreePipes(k) == {i \in DOMAIN k.pipe : k.pipe[i] = FreePipe}

\* filealloc() takes the first free entry; its caller fills it in.
Filealloc(k, f, rec) == [k EXCEPT !.file[f] = [rec EXCEPT !.ref = 1]]
FirstFree(k) == Min(FreeFiles(k))

Filedup(k, f) == [k EXCEPT !.file[f].ref = @ + 1]

\* idup() and iget(): another reference to the inode.
Iget(k, i) == [k EXCEPT !.ino[i].ref = @ + 1]

\* The last reference to an inode without links frees it.
Iput(k, i) ==
  [k EXCEPT !.ino[i].ref = @ - 1,
            !.ino[i].type = IF k.ino[i].ref = 1 /\ k.ino[i].nlink = 0
                            THEN "NONE" ELSE @]

Pipeclose(k, i, writable) ==
  LET p == IF writable = 1 THEN [k.pipe[i] EXCEPT !.writeopen = 0]
                           ELSE [k.pipe[i] EXCEPT !.readopen = 0]
  IN [k EXCEPT !.pipe[i] =
        IF p.readopen = 0 /\ p.writeopen = 0 THEN FreePipe ELSE p]

\* fileclose(): the last reference closes the pipe end or puts the inode.
Fileclose(k, f) ==
  LET ff == k.file[f]
      freed == [k EXCEPT !.file[f] = FreeFile]
  IN CASE ff.ref > 1 -> [k EXCEPT !.file[f].ref = @ - 1]
       [] ff.ref = 1 /\ ff.type = "FD_PIPE" ->
            Pipeclose(freed, ff.obj, ff.writable)
       [] ff.ref = 1 /\ ff.type \in {"FD_INODE", "FD_DEVICE"} ->
            Iput(freed, ff.obj)
       [] OTHER -> freed

\* pipealloc(): two files and a page, or nothing.
CanPipealloc(k) == Cardinality(FreeFiles(k)) >= 2 /\ FreePipes(k) # {}
Pipealloc(k, r, w, i) ==
  LET end == [FreeFile EXCEPT !.type = "FD_PIPE", !.ref = 1, !.obj = i]
  IN [k EXCEPT !.pipe[i] = [readopen |-> 1, writeopen |-> 1],
               !.file[r] = [end EXCEPT !.readable = 1],
               !.file[w] = [end EXCEPT !.writable = 1]]
=============================================================================
