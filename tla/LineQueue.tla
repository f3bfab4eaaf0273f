----------------------------- MODULE LineQueue -----------------------------
(***************************************************************************)
(* What the console promises: a line that is edited, and input that is     *)
(* ready and read in order.  Together they hold at most Room characters.   *)
(***************************************************************************)
EXTENDS Naturals, Sequences

CONSTANTS Char, EndOfLine, Room   \* EndOfLine: newline and end of file

VARIABLES line, ready

Init == line = <<>> /\ ready = <<>>

\* A line becomes ready when it is ended, or when there is no room for more.
Type(c) ==
  /\ Len(line) + Len(ready) < Room
  /\ IF c \in EndOfLine \/ Len(line) + Len(ready) + 1 = Room
     THEN ready' = ready \o Append(line, c) /\ line' = <<>>
     ELSE line' = Append(line, c) /\ UNCHANGED ready

Erase == line # <<>> /\ line' = SubSeq(line, 1, Len(line) - 1) /\ UNCHANGED ready

KillLine == line # <<>> /\ line' = <<>> /\ UNCHANGED ready

Take == ready # <<>> /\ ready' = Tail(ready) /\ UNCHANGED line

Next == (\E c \in Char : Type(c)) \/ Erase \/ KillLine \/ Take

Spec == Init /\ [][Next]_<<line, ready>>
=============================================================================
