------------------------------ MODULE ShParse ------------------------------
(***************************************************************************)
(* The parser of user/sh.c.  A line is a sequence b of characters; *ps is  *)
(* an index s of b, es is Len(b) + 1 and the byte there is NUL.  A parsing *)
(* function returns the command and the index where it stopped; index 0    *)
(* stands for panic(), which ends the process.                             *)
(*                                                                         *)
(* A word stays a pair of indices into the line until nulterminate() has   *)
(* put a NUL behind each of them: what runcmd() then finds at argv[i] and  *)
(* file is the string up to the next NUL.                                  *)
(***************************************************************************)
EXTENDS Integers, Sequences, SequencesExt, FiniteSets, FiniteSetsExt

CONSTANT MAXARGS

ASSUME MaxArgsAssumption == MAXARGS \in Nat \ {0}

NUL == "0"
whitespace == {" ", "\n"}
symbols == {"<", "|", ">", "&", ";", "(", ")"}

\* *s, where s <= es.
Char(b, s) == IF s <= Len(b) THEN b[s] ELSE NUL

\* while(s < es && strchr(whitespace, *s)) s++
Skip(b, s) == Min({k \in s..(Len(b) + 1) : Char(b, k) \notin whitespace})

WordEnd(b, s) ==
  Min({k \in s..(Len(b) + 1) : Char(b, k) \in whitespace \cup symbols \cup {NUL}})

Token(b, ret, q, eq) == [ret |-> ret, q |-> q, eq |-> eq, s |-> Skip(b, eq)]

gettoken(b, s) ==
  LET q == Skip(b, s)
      c == Char(b, q)
  IN CASE c = NUL -> Token(b, NUL, q, q)
       [] c = ">" /\ Char(b, q + 1) = ">" -> Token(b, "+", q, q + 2)
       [] c \in symbols /\ ~(c = ">" /\ Char(b, q + 1) = ">") -> Token(b, c, q, q + 1)
       [] OTHER -> Token(b, "a", q, WordEnd(b, q))

peek(b, s, toks) == Char(b, Skip(b, s)) \in toks

Got(cmd, s) == [cmd |-> cmd, s |-> s]
Panics == Got(<<>>, 0)
\* F(x), x being evaluated once.
Once(x, F(_)) == CHOOSE v \in {F(q) : q \in {x}} : TRUE
Then(r, F(_, _)) == Once(r, LAMBDA q : IF q.s = 0 THEN q ELSE F(q.cmd, q.s))

Word(t) == [q |-> t.q, eq |-> t.eq]

\* The constructors.
execcmd(argv) == [type |-> "EXEC", argv |-> argv]
redircmd(c, r) ==
  [type |-> "REDIR", cmd |-> c, file |-> r.file, mode |-> r.mode, fd |-> r.fd]
pipecmd(l, r) == [type |-> "PIPE", left |-> l, right |-> r]
listcmd(l, r) == [type |-> "LIST", left |-> l, right |-> r]
backcmd(c) == [type |-> "BACK", cmd |-> c]

\* A command with the redirections rs around it, the first one innermost.
Redirected(c, rs) == FoldLeft(redircmd, c, rs)

\* The arguments that parseredirs() gives redircmd() for each token.
Redir(tok, f) ==
  CASE tok = "<" -> [file |-> f, mode |-> {}, fd |-> 0]
    [] tok = ">" -> [file |-> f, mode |-> {"CREATE", "TRUNC"}, fd |-> 1]
    [] tok = "+" -> [file |-> f, mode |-> {"CREATE"}, fd |-> 1]

\* The redirections at s, behind the ones collected in rs.
RECURSIVE parseredirs(_, _, _)
parseredirs(rs, b, s) ==
  IF ~peek(b, s, {"<", ">"})
  THEN Got(rs, s)
  ELSE LET tok == gettoken(b, s)
           f == gettoken(b, tok.s)
       IN IF f.ret # "a" THEN Panics
          ELSE Then(Got(Append(rs, Redir(tok.ret, Word(f))), f.s),
                    LAMBDA rs1, s1 : parseredirs(rs1, b, s1))

TooMany(argc) == argc >= MAXARGS

\* The loop of parseexec(): argv and the redirections so far.
RECURSIVE parseargs(_, _, _, _)
parseargs(argv, rs, b, s) ==
  LET t == gettoken(b, s)
  IN CASE peek(b, s, {"|", ")", "&", ";"}) \/ t.ret = NUL ->
            Got(Redirected(execcmd(argv), rs), s)
       [] ~peek(b, s, {"|", ")", "&", ";"}) /\ t.ret \notin {NUL, "a"} -> Panics
       [] t.ret = "a" /\ TooMany(Len(argv) + 1) -> Panics
       [] t.ret = "a" /\ ~TooMany(Len(argv) + 1) ->
            Then(parseredirs(rs, b, t.s),
                 LAMBDA rs1, s1 : parseargs(Append(argv, Word(t)), rs1, b, s1))

\* The loop of parseline(): one backcmd() for each &.
RECURSIVE parsebacks(_, _, _)
parsebacks(c, b, s) ==
  IF ~peek(b, s, {"&"}) THEN Got(c, s)
  ELSE Then(Got(backcmd(c), gettoken(b, s).s), LAMBDA d, s1 : parsebacks(d, b, s1))

RECURSIVE parseline(_, _)

parseblock(b, s) ==
  Then(parseline(b, gettoken(b, s).s), LAMBDA c, s1 :
    IF ~peek(b, s1, {")"}) THEN Panics
    ELSE Then(parseredirs(<<>>, b, gettoken(b, s1).s),
              LAMBDA rs, s2 : Got(Redirected(c, rs), s2)))

parseexec(b, s) ==
  IF peek(b, s, {"("}) THEN parseblock(b, s)
  ELSE Then(parseredirs(<<>>, b, s), LAMBDA rs, s1 : parseargs(<<>>, rs, b, s1))

RECURSIVE parsepipe(_, _)
parsepipe(b, s) ==
  Then(parseexec(b, s), LAMBDA c, s1 :
    IF peek(b, s1, {"|"})
    THEN Then(parsepipe(b, gettoken(b, s1).s),
              LAMBDA d, s2 : Got(pipecmd(c, d), s2))
    ELSE Got(c, s1))

parseline(b, s) ==
  Then(parsepipe(b, s), LAMBDA c, s1 :
    Then(parsebacks(c, b, s1), LAMBDA d, s2 :
      IF peek(b, s2, {";"})
      THEN Then(parseline(b, gettoken(b, s2).s),
                LAMBDA e, s3 : Got(listcmd(d, e), s3))
      ELSE Got(d, s2)))

RECURSIVE nulterminate_Args(_)
nulterminate_Args(c) ==
  CASE c.type = "EXEC"  -> {c.argv[i].eq : i \in DOMAIN c.argv}
    [] c.type \in {"REDIR", "BACK"} -> nulterminate_Args(c.cmd)
    [] c.type \in {"PIPE", "LIST"} ->
         nulterminate_Args(c.left) \cup nulterminate_Args(c.right)

\* The indices where nulterminate() stores a NUL.
RECURSIVE nulterminate(_)
nulterminate(c) ==
  CASE c.type = "EXEC"  -> {c.argv[i].eq : i \in DOMAIN c.argv}
    [] c.type = "REDIR" -> {c.file.eq} \cup nulterminate(c.cmd)
    [] c.type \in {"PIPE", "LIST"} -> nulterminate(c.left) \cup nulterminate(c.right)
    [] c.type = "BACK"  -> nulterminate(c.cmd)

\* The C string at the start of word w, in line b with NULs at the indices z.
CString(b, z, w) ==
  SubSeq(b, w.q, Min({k \in w.q..(Len(b) + 1) : k \in z \/ k = Len(b) + 1}) - 1)

\* The command as runcmd() reads it: through its pointers.
RECURSIVE Strings(_, _, _)
Strings(c, b, z) ==
  CASE c.type = "EXEC"  -> execcmd([i \in DOMAIN c.argv |-> CString(b, z, c.argv[i])])
    [] c.type = "REDIR" ->
         redircmd(Strings(c.cmd, b, z), [c EXCEPT !.file = CString(b, z, c.file)])
    [] c.type = "PIPE" -> pipecmd(Strings(c.left, b, z), Strings(c.right, b, z))
    [] c.type = "LIST" -> listcmd(Strings(c.left, b, z), Strings(c.right, b, z))
    [] c.type = "BACK"  -> backcmd(Strings(c.cmd, b, z))

\* A line that made the parser panic(): its process has nothing to run.
SyntaxError == [type |-> "PANIC"]

parsecmd(b) ==
  Once(parseline(b, 1), LAMBDA r :
    IF r.s = 0 THEN SyntaxError
    ELSE IF Skip(b, r.s) # Len(b) + 1 THEN SyntaxError
    ELSE Once(nulterminate(r.cmd), LAMBDA z : Strings(r.cmd, b, z)))
=============================================================================
