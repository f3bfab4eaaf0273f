----------------------------- MODULE FileStore -----------------------------
(***************************************************************************)
(* What the contents of files promise: every file is an array of bytes; a  *)
(* write changes the bytes it is about, all of them, and no others in any  *)
(* file; a byte that was never written is 0.                               *)
(***************************************************************************)
EXTENDS Naturals

CONSTANTS File, Val, LIMIT   \* LIMIT: the largest size of a file

VARIABLES content, call      \* call[f]: the bytes the call on f writes, and what

Byte == 0 .. LIMIT - 1
None == [busy |-> FALSE, span |-> {}, v |-> 0]

Init == /\ content = [f \in File |-> [k \in Byte |-> 0]]
        /\ call = [f \in File |-> None]

Spans == {a .. b - 1 : a \in Byte, b \in 0 .. LIMIT}
Others(f) == File \ {f}

Begin(f) ==
  /\ ~call[f].busy
  /\ call'[f] \in [busy : {TRUE}, span : Spans, v : Val \cup {0}]
  /\ \A g \in Others(f) : call'[g] = call[g]
  /\ UNCHANGED content

Write(f) ==
  LET old == content[f]
      new == content'[f]
  IN  /\ call[f].span # {} /\ UNCHANGED call
      /\ \A k \in Byte : new[k] = old[k] \/ (k \in call[f].span /\ new[k] = call[f].v)
      /\ \A g \in Others(f) : content'[g] = content[g]

End(f) ==
  /\ call[f].busy /\ \A k \in call[f].span : content[f][k] = call[f].v
  /\ call' = [call EXCEPT ![f] = None]
  /\ UNCHANGED content

\* The file is removed and its number used for a new one.
Remove(f) ==
  /\ ~call[f].busy
  /\ call' = [call EXCEPT ![f] = [None EXCEPT !.busy = TRUE]]
  /\ content' = [content EXCEPT ![f] = [k \in Byte |-> 0]]

Next == \E f \in File : Begin(f) \/ Write(f) \/ End(f) \/ Remove(f)

Spec == Init /\ [][Next]_<<content, call>>
=============================================================================
