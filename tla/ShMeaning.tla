----------------------------- MODULE ShMeaning -----------------------------
(***************************************************************************)
(* What the shell promises: the command that a line stands for, and what   *)
(* running it does to the files and to the console.  Neither definition    *)
(* follows sh.c.  Grammar(b) cuts the tokens of a line at its separators,  *)
(* loosest first; Meaning evaluates the command in one process, a pipe     *)
(* being the list of what its left side wrote.                             *)
(***************************************************************************)
EXTENDS ShParse, Functions

\* The members of a set of numbers, smallest first.
InOrder(S) ==
  [i \in 1..Cardinality(S) |->
     CHOOSE k \in S : Cardinality({j \in S : j < k}) = i - 1]

\* Position k is the second character of a >>.
SecondOfTwo(b, k) ==
  /\ b[k] = ">"
  /\ \E n \in 1..(k - 1) : /\ n % 2 = 1
                           /\ \A j \in (k - n)..(k - 1) : b[j] = ">"
                           /\ k - n = 1 \/ b[k - n - 1] # ">"

Starts(b) ==
  {k \in 1..Len(b) :
     \/ b[k] \in symbols /\ ~SecondOfTwo(b, k)
     \/ /\ b[k] \notin symbols \cup whitespace
        /\ k = 1 \/ b[k - 1] \in symbols \cup whitespace}

\* Words are kept, and every symbol is a token of its own but for >>.
TokenAt(b, k) ==
  CASE b[k] = ">" /\ Char(b, k + 1) = ">" -> [t |-> "+", w |-> <<>>]
    [] b[k] \in symbols /\ ~(b[k] = ">" /\ Char(b, k + 1) = ">") ->
         [t |-> b[k], w |-> <<>>]
    [] OTHER ->
         [t |-> "a",
          w |-> SubSeq(b, k,
                  Max({j \in k..Len(b) :
                         \A i \in k..j : b[i] \notin symbols \cup whitespace}))]

Tokens(b) ==
  LET ks == InOrder(Starts(b))
  IN [i \in DOMAIN ks |-> TokenAt(b, ks[i])]

\* The number of parentheses open before token k.
Depth(ts, k) ==
    Cardinality({j \in 1..(k - 1) : ts[j].t = "("})
  - Cardinality({j \in 1..(k - 1) : ts[j].t = ")"})

Outside(ts, sym) == {k \in 1..Len(ts) : ts[k].t = sym /\ Depth(ts, k) = 0}

Before(ts, k) == SubSeq(ts, 1, k - 1)
After(ts, k) == SubSeq(ts, k + 1, Len(ts))

IsRedir(t) == t.t \in {"<", ">", "+"}

\* The tokens of a simple command or behind a block: each redirection has its
\* file, and what is left are words.
Files(ts) == {k \in 2..Len(ts) : IsRedir(ts[k - 1])}
Words(ts) == {k \in 1..Len(ts) : ts[k].t = "a"} \ Files(ts)
Simple(ts) ==
  /\ \A k \in 1..Len(ts) : ts[k].t = "a" \/ IsRedir(ts[k])
  /\ \A k \in 1..Len(ts) : IsRedir(ts[k]) => k < Len(ts) /\ ts[k + 1].t = "a"

RedirsOf(ts) ==
  LET ks == InOrder(Files(ts))
  IN [i \in DOMAIN ks |-> Redir(ts[ks[i] - 1].t, ts[ks[i]].w)]
WordsOf(ts) ==
  LET ks == InOrder(Words(ts))
  IN [i \in DOMAIN ks |-> ts[ks[i]].w]

\* list = back [; list],  back = pipe {&},  pipe = cmd [| pipe],
\* cmd = ( list ) redirs  or  words and redirections.
RECURSIVE ListOf(_)

CmdOf(ts) ==
  IF ts # <<>> /\ ts[1].t = "("
  THEN LET ends == {k \in 1..Len(ts) : ts[k].t = ")" /\ Depth(ts, k) = 1}
           k == Min(ends)
       IN IF ends # {} /\ Simple(After(ts, k)) /\ Words(After(ts, k)) = {}
          THEN Redirected(ListOf(SubSeq(ts, 2, k - 1)), RedirsOf(After(ts, k)))
          ELSE SyntaxError
  ELSE IF Simple(ts) /\ Cardinality(Words(ts)) < MAXARGS
       THEN Redirected(execcmd(WordsOf(ts)), RedirsOf(ts))
       ELSE SyntaxError

RECURSIVE PipeOf(_)
PipeOf(ts) ==
  IF Outside(ts, "|") = {} THEN CmdOf(ts)
  ELSE LET k == Min(Outside(ts, "|"))
       IN pipecmd(CmdOf(Before(ts, k)), PipeOf(After(ts, k)))

RECURSIVE BackOf(_)
BackOf(ts) ==
  IF ts # <<>> /\ Last(ts).t = "&" THEN backcmd(BackOf(Front(ts))) ELSE PipeOf(ts)

ListOf(ts) ==
  IF Outside(ts, ";") = {} THEN BackOf(ts)
  ELSE LET k == Min(Outside(ts, ";"))
       IN listcmd(BackOf(Before(ts, k)), ListOf(After(ts, k)))

RECURSIVE HasError(_)
HasError(c) ==
  CASE c.type = "PANIC" -> TRUE
    [] c.type = "EXEC" -> FALSE
    [] c.type \in {"REDIR", "BACK"} -> HasError(c.cmd)
    [] c.type \in {"PIPE", "LIST"} -> HasError(c.left) \/ HasError(c.right)

Grammar(b) ==
  LET c == ListOf(Tokens(b)) IN IF HasError(c) THEN SyntaxError ELSE c

-----------------------------------------------------------------------------
(* A world w: the files, what the console shows, how much of the typed     *)
(* text is read, the open streams, and whether the order in which the two  *)
(* sides of every pipe ran can make no difference.                         *)

Root == <<>>
Control_D == "D"

\* Item x at offset off of a file.
Put(xs, off, x) == IF off < Len(xs) THEN [xs EXCEPT ![off + 1] = x] ELSE Append(xs, x)

\* Where the text that one read of the console takes ends: a line, the text
\* before a control-D, or max characters.
LineEnd(text, pos, max) ==
  Min({k \in pos..Len(text) : text[k] \in {"\n", Control_D} \/ k - pos + 1 = max})
LineAt(text, pos, max) ==
  LET k == LineEnd(text, pos, max)
  IN SubSeq(text, pos, IF text[k] = Control_D THEN k - 1 ELSE k)

Stream(kind, path, xs) == [kind |-> kind, path |-> path, off |-> 0, data |-> xs]
Opened(w, s) == [w EXCEPT !.str = Append(@, s)]

Writes(w, o, x) ==
  LET s == w.str[o]
  IN CASE s.kind = "console" -> [w EXCEPT !.con = Append(@, x)]
       [] s.kind = "pipe" -> [w EXCEPT !.str[o].data = Append(@, x)]
       [] s.kind = "file" -> [w EXCEPT !.file[s.path] = Put(@, s.off, x),
                                       !.str[o].off = @ + 1]

\* cat: everything that stream i holds goes to stream o.
RECURSIVE Copies(_, _, _, _)
Copies(text, w, i, o) ==
  LET s == w.str[i]
  IN CASE s.kind = "console" ->
            LET x == LineAt(text, w.pos, Len(text))
                v == [w EXCEPT !.pos = LineEnd(text, w.pos, Len(text)) + 1]
            IN IF x = <<>> THEN v ELSE Copies(text, Writes(v, o, x), i, o)
       [] s.kind = "pipe" /\ s.data # <<>> ->
            Copies(text, Writes([w EXCEPT !.str[i].data = Tail(@)], o, Head(s.data)), i, o)
       [] s.kind = "file" /\ s.off < Len(w.file[s.path]) ->
            Copies(text, Writes([w EXCEPT !.str[i].off = @ + 1], o,
                                w.file[s.path][s.off + 1]), i, o)
       [] OTHER -> w

\* The files that a command may write, and all that it names.
RECURSIVE Outputs(_)
Outputs(c) ==
  CASE c.type = "EXEC" -> {}
    [] c.type = "BACK" -> Outputs(c.cmd)
    [] c.type = "REDIR" -> Outputs(c.cmd) \cup (IF c.fd = 1 THEN {c.file} ELSE {})
    [] c.type \in {"PIPE", "LIST"} -> Outputs(c.left) \cup Outputs(c.right)
RECURSIVE Names(_)
Names(c) ==
  CASE c.type = "EXEC" -> ToSet(c.argv)
    [] c.type = "BACK" -> Names(c.cmd)
    [] c.type = "REDIR" -> Names(c.cmd) \cup {c.file}
    [] c.type \in {"PIPE", "LIST"} -> Names(c.left) \cup Names(c.right)
Clash(l, r) == Outputs(l) \cap Names(r) # {} \/ Outputs(r) \cap Names(l) # {}

\* cat f g ...: up to the first file that is missing.
RECURSIVE CopiesFiles(_, _, _, _, _)
CopiesFiles(text, w, cwd, fs, o) ==
  IF fs = <<>> \/ <<cwd, Head(fs)>> \notin DOMAIN w.file THEN w
  ELSE LET v == Opened(w, Stream("file", <<cwd, Head(fs)>>, <<>>))
       IN CopiesFiles(text, Copies(text, v, Len(v.str), o), cwd, Tail(fs), o)

\* The world after command c, run in directory cwd with streams i and o.
RECURSIVE Runs(_, _, _, _, _, _)
Runs(text, c, cwd, i, o, w) ==
  CASE c.type = "PANIC" -> w
    [] c.type = "EXEC" ->
         LET prog == IF c.argv # <<>> /\ <<cwd, Head(c.argv)>> \in DOMAIN w.file
                     THEN w.file[<<cwd, Head(c.argv)>>] ELSE <<>>
         IN CASE prog = <<"ECHO">> ->
                   FoldLeft(LAMBDA v, x : Writes(v, o, x), w, Tail(c.argv))
              [] prog = <<"CAT">> /\ Len(c.argv) = 1 -> Copies(text, w, i, o)
              [] prog = <<"CAT">> /\ Len(c.argv) > 1 ->
                   CopiesFiles(text, w, cwd, Tail(c.argv), o)
              [] OTHER -> w
    [] c.type = "LIST" ->
         Runs(text, c.right, cwd, i, o, Runs(text, c.left, cwd, i, o, w))
    [] c.type = "BACK" -> [Runs(text, c.cmd, cwd, i, o, w) EXCEPT !.sure = FALSE]
    [] c.type = "PIPE" ->
         LET v == Opened(w, Stream("pipe", Root, <<>>))
             k == Len(v.str)
             u == Runs(text, c.right, cwd, k, o, Runs(text, c.left, cwd, i, k, v))
         IN [u EXCEPT !.sure = @ /\ ~Clash(c.left, c.right)]
    [] c.type = "REDIR" ->
         LET path == <<cwd, c.file>>
             new == [q \in {path} |-> <<>>]
             v == CASE "TRUNC" \in c.mode -> [w EXCEPT !.file = new @@ @]
                    [] c.mode = {"CREATE"} -> [w EXCEPT !.file = @ @@ new]
                    [] OTHER -> w
             u == Opened(v, Stream("file", path, <<>>))
         IN CASE path \notin DOMAIN v.file -> w
              [] path \in DOMAIN v.file /\ c.fd = 0 ->
                   Runs(text, c.cmd, cwd, Len(u.str), o, u)
              [] OTHER -> Runs(text, c.cmd, cwd, i, Len(u.str), u)
=============================================================================
