---------------------------- MODULE MCCheckpoint ----------------------------
(* Four machines for Checkpoint.                                           *)
EXTENDS Checkpoint

\* O_RDONLY and O_WRONLY.
OneWay == {<<1, 0>>, <<0, 1>>}

\* One process and the one it restores: two pipes on four descriptors, in every
\* arrangement that dup() and close() make, and a file table that is soon full.
TwoPipes ==
  [Procs |-> {1, 2}, Callers |-> {1}, Forkers |-> {}, Alone |-> TRUE,
   NOFILE |-> 4, NFILE |-> 4, NPIPE |-> 2,
   Inums |-> {1}, Devices |-> {}, Dirs |-> {1}, MaxGen |-> 0, Modes |-> {}]

\* Two processes that share a pipe.
SharedPipe ==
  [TwoPipes EXCEPT !.Callers = {1, 2}, !.Alone = FALSE, !.Forkers = {1},
                   !.NOFILE = 3, !.NFILE = 3, !.NPIPE = 1]

\* Files, a device and directories that are opened, unlinked and made again.
SomeFiles ==
  [TwoPipes EXCEPT !.Callers = {1, 2}, !.Alone = FALSE, !.Forkers = {1},
                   !.NOFILE = 1, !.NFILE = 2, !.NPIPE = 0, !.Inums = {1, 2, 3},
                   !.Devices = {3}, !.Dirs = {1, 2}, !.MaxGen = 1, !.Modes = OneWay]

\* One file that may be open in the whole system.
OneFile == [SomeFiles EXCEPT !.NFILE = 1, !.Inums = {1, 2}, !.Devices = {}]

AllMachines == {TwoPipes, SharedPipe, SomeFiles, OneFile}
=============================================================================
