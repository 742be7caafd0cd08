------------------------------ MODULE MCShell ------------------------------
(* Shell: every line of up to MaxLen characters from a small alphabet, and *)
(* longer ones for the constructs that need them.                          *)
EXTENDS Shell

CONSTANT MaxLen

Alphabet == {"e", " ", "|", "<", ">", "&", ";", "(", ")"}

Short == {t \o <<"\n">> : t \in BoundedSeq(Alphabet, MaxLen)}

\* e x|c
EchoCat == <<"e", " ", "x", "|", "c", "\n">>
\* (e x;e y)>f, then c<f|c
BlockToFile ==
  <<"(", "e", " ", "x", ";", "e", " ", "y", ")", ">", "f", "\n">> \o
  <<"c", "<", "f", "|", "c", "\n">>
\* e x y|c|c>f
ThreeStages ==
  <<"e", " ", "x", " ", "y", "|", "c", "|", "c", ">", "f", "\n">>
\* e x|e y
NoReader == <<"e", " ", "x", "|", "e", " ", "y", "\n">>
\* e x y>f, e z>>f, c f g
Overwritten ==
  <<"e", " ", "x", " ", "y", ">", "f", "\n">> \o
  <<"e", " ", "z", ">", ">", "f", "\n">> \o <<"c", " ", "f", " ", "g", "\n">>
\* c, which reads a line and control-D, and then e z
FromConsole == <<"c", "\n", "a", "\n", "D", "e", " ", "z", "\n">>
\* e x|c&, then e y
Background ==
  <<"e", " ", "x", "|", "c", "&", "\n">> \o <<"e", " ", "y", "\n">>
\* cd d, >f, control-D, and e x>f in the root again
Directory ==
  <<" ", "c", "d", " ", "d", "\n">> \o <<">", "f", "\n">> \o
  <<"D", "e", " ", "x", ">", "f", "\n">>
\* e x y;e z;e x|c>ff, which is longer than the buffer
TooLong ==
  <<"e", " ", "x", " ", "y", ";", "e", " ", "z", ";">> \o
  <<"e", " ", "x", "|", "c", ">", "f", "f", "\n">>

\* Lines that nest or misplace the separators: e>>e  e|e;e  (e;e)|e  (e)&;e
\* e;e|e&  e)(;e  (e)e  (e)>e<e  e e e e
Nested ==
  {<<"e", ">", ">", "e", "\n">>,
   <<"e", "|", "e", ";", "e", "\n">>,
   <<"(", "e", ";", "e", ")", "|", "e", "\n">>,
   <<"(", "e", ")", "&", ";", "e", "\n">>,
   <<"e", ";", "e", "|", "e", "&", "\n">>,
   <<"e", ")", "(", ";", "e", "\n">>,
   <<"(", "e", ")", "e", "\n">>,
   <<"(", "e", ")", ">", "e", "<", "e", "\n">>,
   <<"e", " ", "e", " ", "e", " ", "e", "\n">>}

Long == {EchoCat, BlockToFile, ThreeStages, NoReader, Overwritten, FromConsole,
         Background, Directory, TooLong}

AllTexts == Short \cup Long \cup Nested
MCDirs == {<<"d">>}
=============================================================================
