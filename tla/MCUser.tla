------------------------------- MODULE MCUser -------------------------------
(***************************************************************************)
(* One run for the programs and functions that work alone.  A behaviour is *)
(* about one of them: the allocator, mkfs, the keyboard driver, or one     *)
(* input of an algorithm, whose properties then are evaluated on it.       *)
(***************************************************************************)
EXTENDS Shell, Lib, Umalloc, Mkfs, Kbd

VARIABLE task

all == <<task, h, live, mkvars, kbdvars>>

Texts(chars, n) == UNION {[1 .. k -> chars] : k \in 0 .. n}

\* The inputs of each algorithm, as tuples.
CommandLines ==
  {<<"sh", s>> : s \in Texts({"w", " ", "|", ">", "<", "&", ";", "(", ")"}, 4)
                       \cup Texts({"w", "|", ">", "(", ")"}, 5)}
Moves == {<<"move", d, s, n>> : d \in 0 .. 3, s \in 0 .. 3, n \in 0 .. 3}
Paths == {<<"path", p, t>> : p \in Texts({"a", "b", "/"}, 5), t \in Texts({"a", "b"}, 3) \ {<<>>}}
Arguments == {<<"arg", a, n, sz>> : a \in 0 .. WORDMOD - 1, n \in 0 .. WORDMOD \div 2 - 1,
                               sz \in 0 .. WORDMOD \div 2}
Numbers == {<<"num", x, b>> : x \in -(WORDMOD \div 2) .. WORDMOD \div 2 - 1, b \in {10, 16}}
Greps == {<<"match", r, t>> : r \in Texts({"a", ".", "*", "^", "$"}, 4), t \in Texts({"a", "b"}, 3)}
Files == {<<"grep", f>> : f \in Texts({"a", "b", "n"}, 6)}

Init ==
  /\ UmallocInit /\ MkfsInit /\ KbdInit
  /\ \/ task \in {<<"malloc">>, <<"mkfs">>, <<"kbd">>}
     \/ task \in CommandLines \/ task \in Moves \/ task \in Paths \/ task \in Arguments
     \/ task \in Numbers \/ task \in Greps \/ task \in Files

Is(t) == task[1] = t
Next ==
  /\ UNCHANGED task
  /\ \/ Is("malloc") /\ UmallocNext /\ UNCHANGED <<mkvars, kbdvars>>
     \/ Is("mkfs") /\ MkfsNext /\ UNCHANGED <<h, live, kbdvars>>
     \/ Is("kbd") /\ KbdNext /\ UNCHANGED <<h, live, mkvars>>

Spec == Init /\ [][Next]_all

-----------------------------------------------------------------------------


\* grep's matcher agrees with the languages of its patterns, and grep finds the
\* lines of a file wherever its reads cut them.
GrepFinds ==
  /\ Is("match") => MatchesPattern(task[2], task[3])
  /\ Is("grep") => GrepPrints(<<"a">>, task[2])
=============================================================================
