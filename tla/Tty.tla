--------------------------------- MODULE Tty --------------------------------
(***************************************************************************)
(* What the console promises to those who read it: the head of             *)
(* kernel/console.c, and its comments.  Typed characters gather in a line  *)
(* that can be edited until a newline or an end of file makes it ready.    *)
(* Ready characters go to the readers, each to one, in the order in which  *)
(* they were typed.  A read ends with the line, and an end of file is one  *)
(* read that returns nothing.                                              *)
(***************************************************************************)
EXTENDS Naturals, Sequences

CONSTANTS
  Readers,     \* the processes that read
  Letters,     \* the characters that stand for themselves
  Capacity     \* how many characters wait to be read, at most

Newline == "newline"
Eof == "eof"

VARIABLES
  ready,       \* characters that can be read
  line,        \* characters that can still be erased
  call         \* for each reader: <<what its read has so far>>, or NoCall

NoCall == <<>>
ttyvars == <<ready, line, call>>

TtyInit == ready = <<>> /\ line = <<>> /\ call = [p \in Readers |-> NoCall]

Full == Len(ready) + Len(line) >= Capacity

\* A character is typed: the line grows, or becomes ready.  The last one that
\* fits makes it ready, too.
Typed(c) ==
  /\ ~Full
  /\ IF c \in Letters /\ Len(ready) + Len(line) + 1 < Capacity
     THEN line' = Append(line, c) /\ ready' = ready
     ELSE line' = <<>> /\ ready' = ready \o Append(line, c)
  /\ UNCHANGED call

\* The end of the line is erased, one character or the whole.
Erased ==
  /\ line # <<>>
  /\ line' \in {<<>>, SubSeq(line, 1, Len(line) - 1)}
  /\ UNCHANGED <<ready, call>>

Begun(p) ==
  /\ call[p] = NoCall
  /\ call' = [call EXCEPT ![p] = <<<<>>>>]
  /\ UNCHANGED <<ready, line>>

\* A reader takes a character.  One that cannot be stored is lost, and the
\* read ends; so does a read that has a newline.
Taken(p) ==
  /\ call[p] # NoCall /\ ready # <<>> /\ Head(ready) # Eof
  /\ ready' = Tail(ready)
  /\ \/ /\ Head(ready) # Newline
        /\ call' = [call EXCEPT ![p][1] = Append(@, Head(ready))]
     \/ call' = [call EXCEPT ![p] = NoCall]
  /\ UNCHANGED line

\* An end of file is for a read that has nothing yet.
Ended(p) ==
  /\ call[p] = <<<<>>>> /\ ready # <<>> /\ Head(ready) = Eof
  /\ ready' = Tail(ready)
  /\ call' = [call EXCEPT ![p] = NoCall]
  /\ UNCHANGED line

\* A read returns what it has, because it is all that was asked for, or an end
\* of file follows, or the reader was killed while there was nothing.
Returned(p) ==
  /\ call[p] # NoCall
  /\ call[p] # <<<<>>>> \/ ready = <<>>
  /\ call' = [call EXCEPT ![p] = NoCall]
  /\ UNCHANGED <<ready, line>>

TtyNext ==
  \/ \E c \in Letters \cup {Newline, Eof} : Typed(c)
  \/ Erased
  \/ \E p \in Readers : Begun(p) \/ Taken(p) \/ Ended(p) \/ Returned(p)

TtySpec == TtyInit /\ [][TtyNext]_ttyvars
=============================================================================
