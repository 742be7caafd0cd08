------------------------------- MODULE Shell -------------------------------
(***************************************************************************)
(* The shell (user/sh.c), the init process that keeps it running           *)
(* (user/init.c) and the programs echo and cat, as processes that make     *)
(* system calls.  A process is the list of the calls it still has to make; *)
(* runcmd() is the translation of a command into such a list.  The calls   *)
(* of different processes interleave.                                      *)
(*                                                                         *)
(* The kernel below is the one the other modules describe: here a call is  *)
(* one step.  fork(), pipe() and open() may fail for lack of slots or      *)
(* memory, MaxFail times.  A character is a one-letter string, and "D" is  *)
(* control-D; an item is what one write() puts into a file or a pipe, and  *)
(* one read() takes out; a pipe holds PIPESIZE items.  Directories other   *)
(* than the root hold no programs, and what is printed on descriptor 2 is  *)
(* left out.                                                               *)
(***************************************************************************)
EXTENDS ShMeaning

CONSTANTS NPROC,    \* process slots; init has slot 1
          NOFILE,   \* descriptors of a process
          NFILE,    \* open files
          NPIPE,    \* pipes
          PIPESIZE, \* items in a pipe
          NBUF,     \* sizeof(buf) in main()
          MaxFail,  \* bound: calls that fail
          Dirs,     \* directories below the root
          Texts     \* what may be typed at the console

ASSUME ShellAssumption ==
  /\ {NPROC, NFILE, NPIPE, PIPESIZE} \subseteq Nat \ {0}
  /\ MaxFail \in Nat
  /\ NBUF > 2 /\ NOFILE > 3
  /\ \A t \in Texts : t # <<>> /\ Last(t) \in {"\n", Control_D}

VARIABLES typed,   \* all that is typed at the console
          pos,     \* next character of typed to be read
          buf,     \* the line that the shell runs, from its first non-blank
          sh,      \* pid in init's main(): the slot of the shell
          proc,    \* the processes
          open,    \* the open files: path and offset
          pipe,    \* the contents of the pipes
          file,    \* the contents of the files
          con,     \* the items written to the console
          failed   \* how many calls have failed

vars == <<typed, pos, buf, sh, proc, open, pipe, file, con, failed>>

Slots == 1..NPROC
initproc == 1
FDs == 0..(NOFILE - 1)

Console == <<"console", 0>>

\* The system calls of the user programs.
Close(fd) == [op |-> "close", fd |-> fd]
Dup(fd) == [op |-> "dup", fd |-> fd]
Open(name, mode) == [op |-> "open", name |-> name, mode |-> mode]
Fork(child) == [op |-> "fork", child |-> child]
Pipe(left, right) == [op |-> "pipe", left |-> left, right |-> right]
Wait == [op |-> "wait"]
Exec(argv) == [op |-> "exec", argv |-> argv]
Exit == [op |-> "exit"]

NoFiles == [fd \in {} |-> Console]
Unused == [state |-> "UNUSED", parent |-> 0, todo |-> <<>>, ofile |-> NoFiles,
           cwd |-> Root]
NoOpen == [path |-> Root, off |-> 0]

-----------------------------------------------------------------------------
(* The programs, as lists of calls.                                        *)

\* The cases of runcmd().  BACK does not wait.
RunBack(child) == <<Fork(child), Exit>>

RunList_NoWait(left, right) == <<Fork(left)>> \o right
RunList(left, right) == <<Fork(left), Wait>> \o right

RunRedir(c, cmd) == <<Close(c.fd), Open(c.file, c.mode)>> \o cmd

RunExec(argv) == IF argv = <<>> THEN <<Exit>> ELSE <<Exec(argv), Exit>>

RECURSIVE runcmd(_)
runcmd(c) ==
  CASE c.type = "PANIC" -> <<Exit>>
    [] c.type = "EXEC"  -> RunExec(c.argv)
    [] c.type = "REDIR" -> RunRedir(c, runcmd(c.cmd))
    [] c.type = "LIST"  -> RunList(runcmd(c.left), runcmd(c.right))
    [] c.type = "PIPE"  -> <<Pipe(runcmd(c.left), runcmd(c.right))>>
    [] c.type = "BACK"  -> RunBack(runcmd(c.cmd))

\* PIPE, once pipe() has returned r and w: the left child, the right child,
\* and the parent.
LeftEnd(r, w) == <<Close(1), Dup(w), Close(r), Close(w)>>
RightEnd_KeepsWrite(r, w) == <<Close(0), Dup(r), Close(r)>>
RightEnd(r, w) == <<Close(0), Dup(r), Close(r), Close(w)>>
PipeParent_KeepsWrite(r, w) == <<Close(r), Wait, Wait, Exit>>
PipeParent(r, w) == <<Close(r), Close(w), Wait, Wait, Exit>>
RunPipe(c, r, w) ==
  <<Fork(LeftEnd(r, w) \o c.left), Fork(RightEnd(r, w) \o c.right)>> \o PipeParent(r, w)

\* sh's main(), and its loop.
Main == [op |-> "main"]
GetCmd == [op |-> "getcmd"]
\* The line without its leading blanks.
Unindented(b) ==
  SubSeq(b, Min({k \in 1..(Len(b) + 1) : Char(b, k) # " "}), Len(b))

gets(text, k) == LineAt(text, k, NBUF - 1)

\* main() forks a process to parse the line and to run it.
RunLine(b) == Once(parsecmd(b), LAMBDA c : <<Fork(runcmd(c)), Wait, GetCmd>>)

\* init's main().
InitWait == [op |-> "initwait"]
InitMain == <<Fork(<<Main>>), InitWait>>

\* echo writes its arguments and does not look at the result; cat exits when
\* a write fails.
Write(x, must) == [op |-> "write", item |-> x, must |-> must]
Read(fd) == [op |-> "read", fd |-> fd]
Cat(name) == [op |-> "cat", name |-> name]
Echo(argv) == [i \in 1..(Len(argv) - 1) |-> Write(argv[i + 1], FALSE)] \o <<Exit>>
CatMain(argv) ==
  IF Len(argv) = 1 THEN <<Read(0), Exit>>
  ELSE [i \in 1..(Len(argv) - 1) |-> Cat(argv[i + 1])] \o <<Exit>>

-----------------------------------------------------------------------------
(* The kernel, as the programs see it.                                     *)

Init ==
  /\ typed \in Texts
  /\ pos = 1
  /\ buf = <<>>
  /\ sh = initproc
  /\ proc = [p \in Slots |->
               IF p = initproc
               THEN [Unused EXCEPT !.state = "RUNNING", !.todo = InitMain,
                                   !.ofile = [fd \in 0..2 |-> Console]]
               ELSE Unused]
  /\ open = [k \in 1..NFILE |-> NoOpen]
  /\ pipe = [k \in 1..NPIPE |-> <<>>]
  /\ file = [q \in {<<Root, <<"e">>>>, <<Root, <<"c">>>>} |->
               IF q[2] = <<"e">> THEN <<"ECHO">> ELSE <<"CAT">>]
  /\ con = <<>>
  /\ failed = 0

\* init has exited, and exit() has called panic("init exiting").
Halted == proc[initproc].state = "ZOMBIE"

At(p, op) == ~Halted /\ proc[p].state = "RUNNING" /\ Head(proc[p].todo).op = op
Call(p) == Head(proc[p].todo)
Rest(p) == Tail(proc[p].todo)

Returns(p, todo) == proc' = [proc EXCEPT ![p].todo = todo]

InUse(pr) == UNION {Range(pr[p].ofile) : p \in Slots}
LowestFree(fds) == Min(FDs \ fds)

\* A call that fails for want of a slot or of memory.
MayFail == failed < MaxFail
Fails == failed' = IF MayFail THEN failed + 1 ELSE failed

\* The open files and the pipes that no descriptor refers to any more are free.
Release(pr) ==
  /\ open' = [k \in 1..NFILE |-> IF <<"file", k>> \in InUse(pr) THEN open[k] ELSE NoOpen]
  /\ pipe' = [k \in 1..NPIPE |->
                IF {<<"r", k>>, <<"w", k>>} \cap InUse(pr) # {} THEN pipe[k] ELSE <<>>]

SysClose(p) ==
  /\ At(p, "close")
  /\ proc' = [proc EXCEPT ![p].todo = Rest(p),
                          ![p].ofile = Restrict(@, DOMAIN @ \ {Call(p).fd})]
  /\ Release(proc')
  /\ UNCHANGED <<typed, pos, buf, sh, file, con, failed>>

SysDup(p) ==
  /\ At(p, "dup")
  /\ proc' = [proc EXCEPT
       ![p].todo = Rest(p),
       ![p].ofile = (LowestFree(DOMAIN @) :> @[Call(p).fd]) @@ @]
  /\ UNCHANGED <<typed, pos, buf, sh, open, pipe, file, con, failed>>

FreeFiles == {k \in 1..NFILE : <<"file", k>> \notin InUse(proc)}

\* open() in directory cwd: the descriptor is the lowest that is free; then
\* the process goes on with the calls in todo.
Opens(p, name, mode, todo) ==
  LET path == <<proc[p].cwd, name>>
      new == [q \in {path} |-> <<>>]
      fd == LowestFree(DOMAIN proc[p].ofile)
  IN /\ path \in DOMAIN file \/ "CREATE" \in mode
     /\ FreeFiles # {}
     /\ file' = CASE "TRUNC" \in mode -> new @@ file
                  [] mode = {"CREATE"} -> file @@ new
                  [] OTHER -> file
     /\ open' = [open EXCEPT ![Min(FreeFiles)] = [path |-> path, off |-> 0]]
     /\ proc' = [proc EXCEPT ![p].todo = todo,
                             ![p].ofile = (fd :> <<"file", Min(FreeFiles)>>) @@ @]
     /\ UNCHANGED <<typed, pos, buf, sh, pipe, con, failed>>

OpenFails(p, name, mode) ==
  /\ \/ <<proc[p].cwd, name>> \notin DOMAIN file /\ "CREATE" \notin mode
        /\ UNCHANGED failed
     \/ (MayFail \/ FreeFiles = {}) /\ Fails
  /\ Returns(p, <<Exit>>)
  /\ UNCHANGED <<typed, pos, buf, sh, open, pipe, file, con>>

\* The open() of REDIR: runcmd() exits when it fails.
SysOpen(p) ==
  /\ At(p, "open")
  /\ \/ Opens(p, Call(p).name, Call(p).mode, Rest(p))
     \/ OpenFails(p, Call(p).name, Call(p).mode)

\* fork1(), and the fork() of init's main(): no process goes on without its
\* child.
SysFork(p) ==
  LET free == {q \in Slots : proc[q].state = "UNUSED"}
      child == [proc[p] EXCEPT !.parent = p, !.todo = Call(p).child]
  IN /\ At(p, "fork")
     /\ \/ /\ free # {}
           /\ proc' = [proc EXCEPT ![p].todo = Rest(p), ![Min(free)] = child]
           /\ sh' = IF p = initproc THEN Min(free) ELSE sh
           /\ UNCHANGED failed
        \/ /\ free = {} \/ MayFail
           /\ Returns(p, <<Exit>>)
           /\ Fails
           /\ UNCHANGED sh
     /\ UNCHANGED <<typed, pos, buf, open, pipe, file, con>>

SysPipe(p) ==
  LET free == {k \in 1..NPIPE : {<<"r", k>>, <<"w", k>>} \cap InUse(proc) = {}}
      r == LowestFree(DOMAIN proc[p].ofile)
      w == LowestFree(DOMAIN proc[p].ofile \cup {r})
  IN /\ At(p, "pipe")
     /\ \/ /\ free # {}
           /\ proc' = [proc EXCEPT
                ![p].todo = RunPipe(Call(p), r, w),
                ![p].ofile = (r :> <<"r", Min(free)>>) @@ (w :> <<"w", Min(free)>>) @@ @]
           /\ UNCHANGED failed
        \/ /\ free = {} \/ MayFail
           /\ Returns(p, <<Exit>>)
           /\ Fails
     /\ UNCHANGED <<typed, pos, buf, sh, open, pipe, file, con>>

Children(p) == {q \in Slots : proc[q].parent = p}
Zombies(p) == {q \in Children(p) : proc[q].state = "ZOMBIE"}

\* The child that wait(0) returns: the first zombie of the table.
Found(p) == IF Zombies(p) = {} THEN {} ELSE {Min(Zombies(p))}

\* wait(0) returns at once, with an error, when there is no child.
SysWait(p) ==
  /\ At(p, "wait")
  /\ Zombies(p) # {} \/ Children(p) = {}
  /\ proc' = [q \in Slots |-> IF q \in Found(p) THEN Unused
                              ELSE IF q = p THEN [proc[p] EXCEPT !.todo = Rest(p)]
                              ELSE proc[q]]
  /\ UNCHANGED <<typed, pos, buf, sh, open, pipe, file, con, failed>>

\* exit() closes the files and gives the children to init.
SysExit(p) ==
  /\ At(p, "exit")
  /\ proc' = [q \in Slots |->
       IF q = p THEN [Unused EXCEPT !.state = "ZOMBIE", !.parent = proc[p].parent]
       ELSE IF proc[q].parent = p THEN [proc[q] EXCEPT !.parent = initproc]
       ELSE proc[q]]
  /\ Release(proc')
  /\ UNCHANGED <<typed, pos, buf, sh, file, con, failed>>

\* exec(): the program is what the file of that name holds.
SysExec(p) ==
  LET path == <<proc[p].cwd, Head(Call(p).argv)>>
      prog == IF path \in DOMAIN file THEN file[path] ELSE <<>>
  IN /\ At(p, "exec")
     /\ Returns(p, CASE prog = <<"ECHO">> -> Echo(Call(p).argv)
                     [] prog = <<"CAT">> -> CatMain(Call(p).argv)
                     [] OTHER -> Rest(p))
     /\ UNCHANGED <<typed, pos, buf, sh, open, pipe, file, con, failed>>

\* Descriptor fd of p, or a pair that no call accepts.
Obj(p, fd) == IF fd \in DOMAIN proc[p].ofile THEN proc[p].ofile[fd] ELSE <<"bad", 0>>
HasEnd(end, k) == <<end, k>> \in InUse(proc)

WriteFails(p) ==
  /\ Returns(p, IF Call(p).must THEN <<Exit>> ELSE Rest(p))
  /\ UNCHANGED <<open, pipe, file, con>>

\* write(1, ...): a file is written at its offset; a pipe makes the writer wait
\* while it is full, and fails once no reader is left.
SysWrite(p) ==
  LET obj == Obj(p, 1)
      k == obj[2]
  IN /\ At(p, "write")
     /\ \/ /\ obj = Console
           /\ con' = Append(con, Call(p).item)
           /\ Returns(p, Rest(p))
           /\ UNCHANGED <<open, pipe, file>>
        \/ /\ obj[1] = "file"
           /\ open[k].off <= Len(file[open[k].path])
           /\ file' = [file EXCEPT ![open[k].path] = Put(@, open[k].off, Call(p).item)]
           /\ open' = [open EXCEPT ![k].off = @ + 1]
           /\ Returns(p, Rest(p))
           /\ UNCHANGED <<pipe, con>>
        \/ /\ obj[1] = "w" /\ HasEnd("r", k)
           /\ Len(pipe[k]) < PIPESIZE
           /\ pipe' = [pipe EXCEPT ![k] = Append(@, Call(p).item)]
           /\ Returns(p, Rest(p))
           /\ UNCHANGED <<open, file, con>>
        \/ /\ \/ obj[1] \in {"r", "bad"}
              \/ obj[1] = "w" /\ ~HasEnd("r", k)
              \/ obj[1] = "file" /\ open[k].off > Len(file[open[k].path])
           /\ WriteFails(p)
     /\ UNCHANGED <<typed, pos, buf, sh, failed>>

Copy(p, x) == Returns(p, <<Write(x, TRUE)>> \o proc[p].todo)
AtEnd(p) == Returns(p, Rest(p))

\* One round of cat(fd): read an item and write it, or stop at the end.  The
\* descriptor is open for reading: it is 0, or cat has just opened it.
SysRead(p) ==
  LET obj == Obj(p, Call(p).fd)
      k == obj[2]
  IN /\ At(p, "read")
     /\ \/ /\ obj = Console /\ pos <= Len(typed)
           /\ pos' = LineEnd(typed, pos, Len(typed)) + 1
           /\ LET x == LineAt(typed, pos, Len(typed))
              IN IF x = <<>> THEN AtEnd(p) ELSE Copy(p, x)
           /\ UNCHANGED <<open, pipe>>
        \/ /\ obj[1] = "file"
           /\ IF open[k].off < Len(file[open[k].path])
              THEN /\ Copy(p, file[open[k].path][open[k].off + 1])
                   /\ open' = [open EXCEPT ![k].off = @ + 1]
              ELSE AtEnd(p) /\ UNCHANGED open
           /\ UNCHANGED <<pos, pipe>>
        \/ /\ obj[1] = "r"
           /\ \/ /\ pipe[k] # <<>>
                 /\ Copy(p, Head(pipe[k]))
                 /\ pipe' = [pipe EXCEPT ![k] = Tail(@)]
              \/ /\ pipe[k] = <<>> /\ ~HasEnd("w", k)
                 /\ AtEnd(p)
                 /\ UNCHANGED pipe
           /\ UNCHANGED <<pos, open>>
     /\ UNCHANGED <<typed, buf, sh, file, con, failed>>

\* One argument of cat.
CatFile(p) ==
  LET fd == LowestFree(DOMAIN proc[p].ofile)
  IN /\ At(p, "cat")
     /\ \/ Opens(p, Call(p).name, {}, <<Read(fd), Close(fd)>> \o Rest(p))
        \/ OpenFails(p, Call(p).name, {})

-----------------------------------------------------------------------------
(* The loops of sh and of init.                                            *)

\* sh's main() opens the console until descriptors 0, 1 and 2 are taken.
ShMain(p) ==
  /\ At(p, "main")
  /\ proc' = [proc EXCEPT ![p].todo = <<GetCmd>>,
                          ![p].ofile = @ @@ [fd \in 0..2 |-> Console]]
  /\ UNCHANGED <<typed, pos, buf, sh, open, pipe, file, con, failed>>

IsCd(b) == SubSeq(b, 1, Min({3, Len(b)})) = <<"c", "d", " ">>
\* chdir(cmd+3), the last character chopped: only the root has directories.
Chdir(cwd, b) ==
  LET dir == SubSeq(b, 4, Len(b) - 1)
  IN IF cwd = Root /\ dir \in Dirs THEN dir ELSE cwd

\* One round of the loop of main(): getcmd(), and what the line asks for.
ShGetCmd(p) ==
  /\ At(p, "getcmd")
  /\ pos <= Len(typed)
  /\ pos' = LineEnd(typed, pos, NBUF - 1) + 1
  /\ \E line \in {gets(typed, pos)} : \E b \in {Unindented(line)} :
       /\ buf' = b
       /\ \/ /\ line = <<>>
             /\ Returns(p, <<Exit>>)
          \/ /\ line # <<>> /\ Char(b, 1) = "\n"
             /\ Returns(p, <<GetCmd>>)
          \/ /\ line # <<>> /\ IsCd(b)
             /\ proc' = [proc EXCEPT ![p].cwd = Chdir(@, b)]
          \/ /\ line # <<>> /\ Char(b, 1) # "\n" /\ ~IsCd(b)
             /\ Returns(p, RunLine(b))
  /\ UNCHANGED <<typed, sh, open, pipe, file, con, failed>>

Restarts(q) == q = sh

\* One round of the inner loop of init's main().
InitLoop(p) ==
  /\ At(p, "initwait")
  /\ Zombies(p) # {}
  /\ LET q == Min(Zombies(p))
     IN proc' = [proc EXCEPT ![p].todo = IF Restarts(q) THEN InitMain ELSE <<InitWait>>,
                             ![q] = Unused]
  /\ UNCHANGED <<typed, pos, buf, sh, open, pipe, file, con, failed>>

Next ==
  \E p \in Slots :
    \/ SysClose(p) \/ SysDup(p) \/ SysOpen(p) \/ SysFork(p) \/ SysPipe(p)
    \/ SysWait(p) \/ SysExit(p) \/ SysExec(p) \/ SysWrite(p) \/ SysRead(p)
    \/ CatFile(p) \/ ShMain(p) \/ ShGetCmd(p) \/ InitLoop(p)

\* The scheduler never stops while some process can run.
Spec == Init /\ [][Next]_vars /\ WF_vars(Next)

-----------------------------------------------------------------------------
(* Properties.                                                             *)

AtPrompt == proc[sh].state = "RUNNING" /\ Head(proc[sh].todo) = GetCmd
AllRead == pos > Len(typed)
Alone == \A p \in Slots \ {initproc, sh} : proc[p].state = "UNUSED"

\* parsecmd() (sh.c:334-348) builds the command that the line means by the
\* shell's grammar, with the right strings in argv and file once nulterminate()
\* has cut the line, and panics on exactly the lines outside the grammar.
ParseRight == buf # <<>> => parsecmd(buf) = Grammar(buf)

\* runcmd() (sh.c:59-132): whatever pipes and redirections a program runs
\* under, it starts with descriptors 0, 1 and 2 only, and 2 is the console: no
\* end of a pipe stays open that would keep a reader from its end of file.
OnlyStdFds ==
  \A p \in Slots :
    At(p, "exec") => DOMAIN proc[p].ofile = 0..2 /\ proc[p].ofile[2] = Console

\* What the typed text does, line by line, from position w.pos in directory
\* cwd.
RECURSIVE Session(_, _, _)
Session(text, cwd, w) ==
  IF w.pos > Len(text) THEN w
  ELSE LET line == gets(text, w.pos)
           b == Unindented(line)
           v == [w EXCEPT !.pos = LineEnd(text, w.pos, NBUF - 1) + 1]
       IN CASE line = <<>> -> Session(text, Root, v)
            [] line # <<>> /\ IsCd(b) -> Session(text, Chdir(cwd, b), v)
            [] OTHER -> Session(text, cwd, Runs(text, Grammar(b), cwd, 1, 1, v))

Expected ==
  Session(typed, Root,
    [file |-> [q \in {<<Root, <<"e">>>>, <<Root, <<"c">>>>} |->
                 IF q[2] = <<"e">> THEN <<"ECHO">> ELSE <<"CAT">>],
     con |-> <<>>, pos |-> 1, str |-> <<Stream("console", Root, <<>>)>>, sure |-> TRUE])

\* When no & was typed and no call failed, the prompt comes back only after
\* every process of the line is gone: the wait() calls of sh.c:97, 121-122 and
\* 174.  And runcmd() with all its processes does what the commands mean: once
\* the text is read and the prompt is back, the files hold and the console
\* shows what running the lines one after another in a single process gives,
\* each right side of a pipe having read all that the left side wrote.  This is
\* claimed for a text that has no &, in which the sides of a pipe share no file
\* that one of them writes, when no call failed.
ResultRight ==
  AtPrompt /\ failed = 0 =>
    /\ "&" \notin Range(typed) => Alone
    /\ AllRead /\ Expected.sure => file = Expected.file /\ con = Expected.con

\* Every line that is typed is run and the prompt comes back (sh.c:160-176),
\* background processes end and are reaped by init (init.c:39-52), and the
\* shell is started again when it exits, whatever call fails; unless it is the
\* fork() of init that fails.
Finishes == <>[](Halted \/ (AllRead /\ AtPrompt /\ Alone))
=============================================================================
