------------------------------- MODULE Shell -------------------------------
(***************************************************************************)
(* The shell's parser and the wiring of its processes (sh.c).  A command   *)
(* line is a sequence of characters: "w" stands for any character of a     *)
(* word.  The parser returns a tree and the place it has come to, or fails *)
(* where the code panics.  Running a tree gives the processes it consists  *)
(* of with their file descriptors.                                         *)
(***************************************************************************)
EXTENDS Naturals, Sequences, FiniteSets

CONSTANTS MAXARGS, NFD   \* NFD: the file descriptors of a process

Whitespace == {" "}
Symbols == {"<", "|", ">", "&", ";", "(", ")"}

\* The character at i, or the end of the line.
Ch(s, i) == IF i <= Len(s) THEN s[i] ELSE "0"

RECURSIVE SkipSpace(_, _), WordEnd(_, _)
SkipSpace(s, i) == IF Ch(s, i) \in Whitespace THEN SkipSpace(s, i + 1) ELSE i
WordEnd(s, i) ==
  IF i > Len(s) \/ Ch(s, i) \in Whitespace \cup Symbols THEN i ELSE WordEnd(s, i + 1)

\* The token at place q, where it starts and where it ends: ">>" is "+", a word
\* is "a", the end of the line is "0".
Double(s, q) == Ch(s, q) = ">" /\ Ch(s, q + 1) = ">"
Token(s, q) ==
  CASE Ch(s, q) = "0" -> [tok |-> "0", q |-> q, eq |-> q]
    [] Double(s, q) -> [tok |-> "+", q |-> q, eq |-> q + 2]
    [] Ch(s, q) \in Symbols /\ ~Double(s, q) -> [tok |-> Ch(s, q), q |-> q, eq |-> q + 1]
    [] OTHER -> [tok |-> "a", q |-> q, eq |-> WordEnd(s, q)]
gettoken(s, i) == Token(s, SkipSpace(s, i))

-----------------------------------------------------------------------------
(* The parser.  It sees the line through gettoken() and peek() only, and what *)
(* they find depends on the place alone: so the line is cut into tokens once, *)
(* and i is the number of a token.  A result is [ok, cmd, i].                 *)

RECURSIVE Tokens(_, _)
Tokens(s, t) == IF t.tok = "0" THEN <<t>> ELSE <<t>> \o Tokens(s, gettoken(s, t.eq))

peek(ts, i, toks) == ts[i].tok \in toks

Fail == [ok |-> FALSE]
Ok(cmd, i) == [ok |-> TRUE, cmd |-> cmd, i |-> i]

execcmd(argv) == [type |-> "EXEC", argv |-> argv]
redircmd(cmd, file, fd) == [type |-> "REDIR", cmd |-> cmd, file |-> file, fd |-> fd]
pipecmd(left, right) == [type |-> "PIPE", left |-> left, right |-> right]
listcmd(left, right) == [type |-> "LIST", left |-> left, right |-> right]
backcmd(cmd) == [type |-> "BACK", cmd |-> cmd]

\* Redirections are collected as <<file, fd>> and wrapped around the command,
\* the last one outermost.
RECURSIVE Redirs(_, _, _), Wrap(_, _)
Redirs(ts, i, rs) ==
  CASE ~peek(ts, i, {"<", ">", "+"}) -> Ok(rs, i)
    [] peek(ts, i, {"<", ">", "+"}) /\ ~peek(ts, i + 1, {"a"}) -> Fail
    [] OTHER -> Redirs(ts, i + 2, Append(rs, <<ts[i + 1].q, IF peek(ts, i, {"<"}) THEN 0 ELSE 1>>))
Wrap(cmd, rs) ==
  IF rs = <<>> THEN cmd ELSE Wrap(redircmd(cmd, rs[1][1], rs[1][2]), Tail(rs))
Wrapped(cmd, r) == IF r.ok THEN Ok(Wrap(cmd, r.cmd), r.i) ELSE Fail

\* The loop of parseexec(): arguments, with redirections r between them.
RECURSIVE Args(_, _, _)
Args(ts, argv, r) ==
  CASE ~r.ok -> Fail
    [] r.ok /\ peek(ts, r.i, {"|", ")", "&", ";", "0"}) -> Wrapped(execcmd(argv), r)
    [] r.ok /\ peek(ts, r.i, {"a"}) /\ Len(argv) + 1 < MAXARGS ->
         Args(ts, Append(argv, ts[r.i].q), Redirs(ts, r.i + 1, r.cmd))
    [] OTHER -> Fail

\* Mutant: a background job ends the line.
AfterBack_Stop(ts, i) == FALSE

AfterBack(ts, i) == peek(ts, i, {";"})

RECURSIVE parseline(_, _), parsepipe(_, _), parseexec(_, _), Backs(_, _)
Backs(ts, p) ==
  IF p.ok /\ peek(ts, p.i, {"&"}) THEN Backs(ts, Ok(backcmd(p.cmd), p.i + 1)) ELSE p
List(b, l) == IF l.ok THEN Ok(listcmd(b.cmd, l.cmd), l.i) ELSE Fail
Line(ts, b) == IF b.ok /\ AfterBack(ts, b.i) THEN List(b, parseline(ts, b.i + 1)) ELSE b
parseline(ts, i) == Line(ts, Backs(ts, parsepipe(ts, i)))
Pipe(e, p) == IF p.ok THEN Ok(pipecmd(e.cmd, p.cmd), p.i) ELSE Fail
Pipeline(ts, e) == IF e.ok /\ peek(ts, e.i, {"|"}) THEN Pipe(e, parsepipe(ts, e.i + 1)) ELSE e
parsepipe(ts, i) == Pipeline(ts, parseexec(ts, i))
Block(ts, l) ==
  IF l.ok /\ peek(ts, l.i, {")"}) THEN Wrapped(l.cmd, Redirs(ts, l.i + 1, <<>>)) ELSE Fail
parseblock(ts, i) == Block(ts, parseline(ts, i + 1))
parseexec(ts, i) ==
  IF peek(ts, i, {"("}) THEN parseblock(ts, i) ELSE Args(ts, <<>>, Redirs(ts, i, <<>>))

\* Nothing may be left of the line.
Whole(ts, l) == IF l.ok /\ peek(ts, l.i, {"0"}) THEN l ELSE Fail
ParseTokens(ts) == Whole(ts, parseline(ts, 1))
parsecmd(s) == ParseTokens(Tokens(s, gettoken(s, 1)))

-----------------------------------------------------------------------------
(* runcmd(): the processes of a command; fd is the table it starts with, at   *)
(* the path from the root, which names the pipe of a PIPE                     *)

Fds == 0 .. NFD - 1
Closed == <<"closed", <<>>>>
Least(S) == CHOOSE x \in S : \A y \in S : x <= y
Close(fd, n) == [fd EXCEPT ![n] = Closed]
Lowest(fd) == Least({n \in Fds : fd[n] = Closed})
\* open(), dup() and pipe() take the lowest descriptor.
Install(fd, v) == [fd EXCEPT ![Lowest(fd)] = v]


\* The children of a PIPE: p holds the two descriptors of the pipe.
LeftEnds(f, p) == Close(Close(Install(Close(f, 1), f[p[2]]), p[1]), p[2])

RightEnds(f, p) == Close(Close(Install(Close(f, 0), f[p[1]]), p[1]), p[2])

RECURSIVE runcmd(_, _, _)
runcmd(cmd, fd, path) ==
  CASE cmd.type = "EXEC" ->
         IF cmd.argv = <<>> THEN {} ELSE {[argv |-> cmd.argv, fd |-> fd]}
    [] cmd.type = "REDIR" ->
         runcmd(cmd.cmd, Install(Close(fd, cmd.fd), <<"file", <<cmd.file>>>>), Append(path, 0))
    [] cmd.type = "LIST" ->
         runcmd(cmd.left, fd, Append(path, 1)) \cup runcmd(cmd.right, fd, Append(path, 2))
    [] cmd.type = "BACK" -> runcmd(cmd.cmd, fd, Append(path, 0))
    [] cmd.type = "PIPE" ->
         LET f1 == Install(fd, <<"read", path>>)
             f2 == Install(f1, <<"write", path>>)
             p == <<Lowest(fd), Lowest(f1)>>
         IN  runcmd(cmd.left, LeftEnds(f2, p), Append(path, 1))
             \cup runcmd(cmd.right, RightEnds(f2, p), Append(path, 2))

\* The shell's own descriptors 0, 1, 2 are the console.
Console == [n \in Fds |-> IF n <= 2 THEN <<"console", <<>>>> ELSE Closed]

-----------------------------------------------------------------------------
(* References *)

\* The grammar, on the characters from i up to j - 1 of s.
Plain(s, i, j) == \A k \in i .. j - 1 : s[k] \in {"w"} \cup Whitespace
Blank(s, i, j) == \A k \in i .. j - 1 : s[k] \in Whitespace
OneWord(s, i, j) ==
  \E a, b \in i .. j : /\ a < b /\ Blank(s, i, a) /\ Blank(s, b, j)
                       /\ \A k \in a .. b - 1 : s[k] = "w"
\* A redirection from i, with the file at k.
IsOp(s, i, k) ==
  \/ k = i + 1 /\ s[i] \in {"<", ">"}
  \/ k = i + 2 /\ s[i] = ">" /\ s[i + 1] = ">"

RECURSIVE IsSimple(_, _, _), IsRedirs(_, _, _), IsBlock(_, _, _), IsPipe(_, _, _),
          IsLine(_, _, _), IsJobs(_, _, _)
IsSimple(s, i, j) ==
  \/ Plain(s, i, j)
  \/ \E k \in i .. j - 1 : \E m \in k + 1 .. j - 1 :
       IsSimple(s, i, k) /\ IsOp(s, k, m) /\ Plain(s, m, j) /\ ~Blank(s, m, j)
IsRedirs(s, i, j) ==
  \/ Blank(s, i, j)
  \/ \E k \in i .. j - 1 : \E m \in k + 1 .. j - 1 :
       IsRedirs(s, i, k) /\ IsOp(s, k, m) /\ OneWord(s, m, j)
IsBlock(s, i, j) ==
  \E a \in i .. j - 1 : \E b \in a + 1 .. j - 1 :
    /\ Blank(s, i, a) /\ s[a] = "(" /\ IsLine(s, a + 1, b) /\ s[b] = ")"
    /\ IsRedirs(s, b + 1, j)
IsPipe(s, i, j) ==
  \/ IsSimple(s, i, j) \/ IsBlock(s, i, j)
  \/ \E k \in i .. j - 1 : /\ s[k] = "|" /\ IsPipe(s, k + 1, j)
                           /\ IsSimple(s, i, k) \/ IsBlock(s, i, k)
IsJobs(s, i, j) ==
  IsPipe(s, i, j) \/ \E k \in i .. j - 1 : s[k] = "&" /\ Blank(s, k + 1, j) /\ IsJobs(s, i, k)
IsLine(s, i, j) ==
  IsJobs(s, i, j) \/ \E k \in i .. j - 1 : s[k] = ";" /\ IsJobs(s, i, k) /\ IsLine(s, k + 1, j)

\* What a command reads and writes: from the shape of the tree.
RECURSIVE Wiring(_, _, _, _)
Wiring(cmd, in, out, path) ==
  CASE cmd.type = "EXEC" ->
         IF cmd.argv = <<>> THEN {} ELSE {[argv |-> cmd.argv, in |-> in, out |-> out]}
    [] cmd.type = "REDIR" ->
         Wiring(cmd.cmd, IF cmd.fd = 0 THEN <<"file", <<cmd.file>>>> ELSE in,
                IF cmd.fd = 1 THEN <<"file", <<cmd.file>>>> ELSE out, Append(path, 0))
    [] cmd.type \in {"LIST", "PIPE"} ->
         LET pipe == cmd.type = "PIPE" IN
         Wiring(cmd.left, in, IF pipe THEN <<"write", path>> ELSE out, Append(path, 1))
         \cup Wiring(cmd.right, IF pipe THEN <<"read", path>> ELSE in, out, Append(path, 2))
    [] cmd.type = "BACK" -> Wiring(cmd.cmd, in, out, Append(path, 0))

\* The places of words in a tree, as arguments and as files.
RECURSIVE Words(_)
Words(cmd) ==
  CASE cmd.type = "EXEC" -> cmd.argv
    [] cmd.type = "REDIR" -> Append(Words(cmd.cmd), cmd.file)
    [] cmd.type = "BACK" -> Words(cmd.cmd)
    [] OTHER -> Words(cmd.left) \o Words(cmd.right)

WordStarts(s) ==
  {k \in 1 .. Len(s) : s[k] = "w" /\ (k = 1 \/ Ch(s, k - 1) # "w")}

\* The parser accepts the lines of the grammar and no others, and every word
\* of the line is in the tree once.
WordsKept(s, ws) ==
  {ws[k] : k \in DOMAIN ws} = WordStarts(s) /\ Len(ws) = Cardinality(WordStarts(s))
ParsesGrammar(s, l) ==
  /\ l.ok <=> IsLine(s, 1, Len(s) + 1)
  /\ l.ok => WordsKept(s, Words(l.cmd))

\* Each process gets the input and output that the shape of the command says,
\* and no other descriptor of a pipe stays open in it (a reader would wait for
\* the end of its input as long as a second writer exists).
Connected(ps, wires) ==
  /\ \A p \in ps : \A n \in Fds : n > 2 => p.fd[n] = Closed
  /\ {[argv |-> p.argv, in |-> p.fd[0], out |-> p.fd[1]] : p \in ps} = wires
RunsWired(l) ==
  l.ok => Connected(runcmd(l.cmd, Console, <<>>), Wiring(l.cmd, Console[0], Console[1], <<>>))

ParsesAndRuns(s, l) == ParsesGrammar(s, l) /\ RunsWired(l)
=============================================================================
