-------------------------------- MODULE Lib --------------------------------
(***************************************************************************)
(* Functions without state of the kernel and of the user programs: path    *)
(* elements and names (fs.c, string.c), the checks of arguments            *)
(* (syscall.c), numbers (printf.c, ulib.c) and grep (grep.c), each with a  *)
(* reference.  A string is a sequence; "0" is the character at its end.    *)
(***************************************************************************)
EXTENDS Integers, Sequences, FiniteSets

CONSTANTS
  DIRSIZ,    \* the length of a name in a directory entry
  WORDMOD,   \* 2^32: unsigned integers wrap around here
  GREPBUF    \* 1024: sizeof(buf) of grep.c

LOCAL Least(S) == CHOOSE x \in S : \A y \in S : x <= y
LOCAL Lesser(a, b) == IF a < b THEN a ELSE b
At(s, i) == IF i \in DOMAIN s THEN s[i] ELSE "0"
From(s, i) == SubSeq(s, i, Len(s))

-----------------------------------------------------------------------------
(* Memory and strings *)

\* Mutant: always upwards.
Downward_Never(dst, src, n) == FALSE

Downward(dst, src, n) == src < dst /\ src + n > dst

\* memmove() on memory m, byte by byte in the direction that the test chooses.
RECURSIVE Moved(_, _, _, _, _)
Moved(m, dst, src, ks, down) ==
  IF ks = {} THEN m
  ELSE LET k == CHOOSE x \in ks : \A y \in ks : IF down THEN x >= y ELSE x <= y
       IN  Moved([m EXCEPT ![dst + k] = m[src + k]], dst, src, ks \ {k}, down)
memmove(m, dst, src, n) == Moved(m, dst, src, 0 .. n - 1, Downward(dst, src, n))

\* strncpy() into a field of n characters, with zeros behind a short string.
strncpy(t, n) == [k \in 1 .. n |-> At(t, k)]

\* strncmp() = 0.
RECURSIVE Same(_, _, _, _)
Same(p, q, i, n) ==
  IF n > 0 /\ At(p, i) # "0" /\ At(p, i) = At(q, i) THEN Same(p, q, i + 1, n - 1)
  ELSE n = 0 \/ At(p, i) = At(q, i)
namecmp(s, t) == Same(s, t, 1, DIRSIZ)

\* Mutant: a short name is not terminated.
Terminator_None(len, k) == FALSE

\* name[len] = 0, for a name shorter than the buffer.
Terminator(len, k) == len < DIRSIZ /\ k = len + 1

\* skipelem(): what is left of the path, and the buffer name, which keeps the
\* characters of an earlier element behind the end of a short one.
skipelem(path, name) ==
  LET a == Least({i \in 1 .. Len(path) + 1 : At(path, i) # "/"})
      b == Least({i \in a .. Len(path) + 1 : At(path, i) \in {"/", "0"}})
      c == Least({i \in b .. Len(path) + 1 : At(path, i) # "/"})
      len == b - a
  IN  [none |-> a > Len(path), path |-> From(path, c),
       name |-> [k \in DOMAIN name |->
                   IF k <= Lesser(len, DIRSIZ) THEN path[a + k - 1]
                   ELSE IF Terminator(len, k) THEN "0" ELSE name[k]]]

\* The names that the loop of namex() sees.
RECURSIVE Names(_, _)
Names(path, name) ==
  LET e == skipelem(path, name) IN
  IF e.none THEN <<>> ELSE <<e.name>> \o Names(e.path, e.name)

-----------------------------------------------------------------------------
(* Arguments of system calls *)

\* Mutant: the first test is left out.
Outside_End(addr, n, sz) == (addr + n) % WORDMOD > sz

\* fetchint() with n = 4, and argptr(), fail.
Outside(addr, n, sz) == addr >= sz \/ (addr + n) % WORDMOD > sz

-----------------------------------------------------------------------------
(* Numbers *)

RECURSIVE Digits(_, _), Value(_, _)
Digits(x, base) ==
  IF x \div base = 0 THEN <<x % base>> ELSE Append(Digits(x \div base, base), x % base)


\* -xx as an unsigned number, also for the smallest integer.
Unsigned(xx) == (-xx) % WORDMOD

\* printint(): a sign and digits.
printint(xx, base, sgn) ==
  IF sgn /\ xx < 0 THEN [neg |-> TRUE, digits |-> Digits(Unsigned(xx), base)]
  ELSE [neg |-> FALSE, digits |-> Digits(xx % WORDMOD, base)]

\* atoi() of a string of digits: an int.
Value(ds, base) ==
  IF ds = <<>> THEN 0 ELSE Value(SubSeq(ds, 1, Len(ds) - 1), base) * base + ds[Len(ds)]
Signed(x) == IF x % WORDMOD < WORDMOD \div 2 THEN x % WORDMOD ELSE (x % WORDMOD) - WORDMOD
atoi(ds) == Signed(Value(ds, 10))

-----------------------------------------------------------------------------
(* grep *)

RECURSIVE matchhere(_, _), matchstar(_, _, _)
matchstar(c, re, text) ==
  \/ matchhere(re, text)
  \/ /\ text # <<>> /\ (text[1] = c \/ c = ".")
     /\ matchstar(c, re, Tail(text))
matchhere(re, text) ==
  IF re = <<>> THEN TRUE
  ELSE IF At(re, 2) = "*" THEN matchstar(re[1], From(re, 3), text)
  ELSE IF re = <<"$">> THEN text = <<>>
  ELSE /\ text # <<>> /\ re[1] \in {".", text[1]}
       /\ matchhere(Tail(re), Tail(text))

\* Mutant: the empty string at the end is not looked at.
Starts_NonEmpty(text) == 1 .. Len(text)

Starts(text) == 1 .. Len(text) + 1

match(re, text) ==
  IF At(re, 1) = "^" THEN matchhere(Tail(re), text)
  ELSE \E i \in Starts(text) : matchhere(re, From(text, i))

\* The lines of buf that end in it, those that match, and what is behind them.
RECURSIVE Printed(_, _)
Newlines(s) == {i \in DOMAIN s : s[i] = "n"}
Printed(re, buf) ==
  IF Newlines(buf) = {} THEN <<>>
  ELSE LET q == Least(Newlines(buf))
           line == SubSeq(buf, 1, q - 1)
       IN  (IF match(re, line) THEN <<line>> ELSE <<>>) \o Printed(re, From(buf, q + 1))

\* Mutant: what is behind the last line is thrown away.
Kept_None(buf) == <<>>

\* What stays in the buffer; a buffer without a line is thrown away.
Kept(buf) ==
  IF Newlines(buf) = {} THEN <<>>
  ELSE From(buf, 1 + CHOOSE i \in Newlines(buf) : \A j \in Newlines(buf) : j <= i)

\* grep() of a file: a read fills the buffer or comes to the end.
RECURSIVE grep(_, _, _)
grep(re, file, buf) ==
  LET n == Lesser(GREPBUF - Len(buf) - 1, Len(file))
      b == buf \o SubSeq(file, 1, n)
  IN  IF n = 0 THEN <<>> ELSE Printed(re, b) \o grep(re, From(file, n + 1), Kept(b))

-----------------------------------------------------------------------------
(* Properties, of one input each *)

\* The n bytes at dst become what was at src, also where the two overlap, and
\* no other byte changes (string.c memmove).
MoveCopies(size, dst, src, n) ==
  LET m == memmove([k \in 0 .. size - 1 |-> k], dst, src, n) IN
  \A k \in 0 .. size - 1 : m[k] = IF k \in dst .. dst + n - 1 THEN src + k - dst ELSE k

\* The elements of a path: the longest stretches without "/".
Elements(path) ==
  LET first == {i \in DOMAIN path : path[i] # "/" /\ At(path, i - 1) \in {"/", "0"}}
      RECURSIVE In(_)
      In(S) == IF S = {} THEN <<>>
               ELSE LET a == Least(S)
                        b == Least({i \in a .. Len(path) + 1 : At(path, i) \in {"/", "0"}})
                    IN  <<SubSeq(path, a, b - 1)>> \o In(S \ {a})
  IN  In(first)
Cut(t) == SubSeq(t, 1, Lesser(Len(t), DIRSIZ))

\* namex() looks the elements of the path up in their order, and a directory
\* entry made for the name t is found for those equal to t in DIRSIZ characters:
\* what an earlier, longer element left in the buffer does not matter.
NamesFound(path, t) ==
  LET es == Elements(path)
      ns == Names(path, [k \in 1 .. DIRSIZ |-> "x"])
  IN  /\ Len(ns) = Len(es)
      /\ \A k \in DOMAIN es : namecmp(strncpy(t, DIRSIZ), ns[k]) <=> Cut(t) = Cut(es[k])

\* An argument passes exactly if all its bytes are below sz, though the sum may
\* wrap around; sz is at most KERNBASE, half of the addresses, and n is an int.
ArgsInside(addr, n, sz) == ~Outside(addr, n, sz) <=> addr < sz /\ addr + n <= sz

\* Printing gives the number, with the smallest integer too, and atoi() takes
\* back what it printed.
PrintsNumber(xx, base) ==
  LET r == printint(xx, base, TRUE) IN
  /\ xx = IF r.neg THEN -Value(r.digits, base) ELSE Value(r.digits, base)
  /\ Len(r.digits) > 1 => r.digits[1] # 0
  /\ base = 10 /\ xx >= 0 => atoi(r.digits) = xx

\* The places in text that the pattern from i leads to from those in S.
RECURSIVE Ends(_, _, _, _)
Ends(re, i, text, S) ==
  LET fits(k) == re[i] \in {".", text[k]} IN
  IF i > Len(re) THEN S
  ELSE IF At(re, i + 1) = "*"
  THEN Ends(re, i + 2, text,
            {e \in 0 .. Len(text) : \E b \in S : b <= e /\ \A k \in b + 1 .. e : fits(k)})
  ELSE IF i = Len(re) /\ re[i] = "$" THEN S \cap {Len(text)}
  ELSE Ends(re, i + 1, text, {k \in 1 .. Len(text) : k - 1 \in S /\ fits(k)})

\* match() finds the pattern exactly if its language has a part of the text, at
\* the front for "^" and at the end for "$".
MatchesPattern(re, text) ==
  match(re, text) <=>
    IF At(re, 1) = "^" THEN Ends(re, 2, text, {0}) # {}
    ELSE Ends(re, 1, text, 0 .. Len(text)) # {}

\* The lines that end in a newline, in order.
RECURSIVE LinesOf(_)
LinesOf(file) ==
  IF Newlines(file) = {} THEN <<>>
  ELSE LET q == Least(Newlines(file)) IN <<SubSeq(file, 1, q - 1)>> \o LinesOf(From(file, q + 1))

\* grep prints the lines of a file that match, wherever the reads cut them, if
\* every line fits in the buffer with its newline.
GrepPrints(re, file) ==
  LET matches(line) == match(re, line) IN
  (\A k \in DOMAIN LinesOf(file) : Len(LinesOf(file)[k]) + 2 <= GREPBUF)
     => grep(re, file, <<>>) = SelectSeq(LinesOf(file), matches)
=============================================================================
