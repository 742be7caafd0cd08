-------------------------------- MODULE MCFs --------------------------------
(* An instance of Fs.                                                      *)
EXTENDS Fs, TLC

CONSTANTS p1, p2

Rel(elems) == [abs |-> FALSE, elems |-> elems]
Abs(elems) == [abs |-> TRUE, elems |-> elems]
Call(op, path) == [op |-> op, path |-> path, new |-> Nowhere]
Link(path, new) == [op |-> "link", path |-> path, new |-> new]

MCCalls ==
  [p \in Procs |->
     IF p = p1
     THEN {Call("unlink", Abs(<<"a">>)), Call("unlink", Abs(<<"a", "a">>)),
           Call("trunc", Abs(<<"a">>)),
           Link(Abs(<<"a">>), Abs(<<"b">>))}
     ELSE {Call("mkdir", Rel(<<"a">>)), Call("creat", Rel(<<"a">>)),
           Call("chdir", Rel(<<"a">>)), Call("chdir", Rel(<<"..">>)),
           Call("unlink", Rel(<<"..">>))}]
=============================================================================
