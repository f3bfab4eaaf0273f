----------------------------- MODULE BlockStore -----------------------------
(***************************************************************************)
(* What the buffer cache promises to the rest of the file system: one      *)
(* copy of every block, in the hands of at most one process at a time,     *)
(* changed only by the process that has it.                                *)
(***************************************************************************)
CONSTANTS Proc, Block, Val

VARIABLES
  content,  \* contents of every block
  holder    \* the processes that have the block: none or one

Init == content \in [Block -> Val] /\ holder = [b \in Block |-> {}]

Take(p, b) ==
  holder[b] = {} /\ holder' = [holder EXCEPT ![b] = {p}] /\ UNCHANGED content

Change(p, b, v) ==
  holder[b] = {p} /\ content' = [content EXCEPT ![b] = v] /\ UNCHANGED holder

Give(p, b) ==
  holder[b] = {p} /\ holder' = [holder EXCEPT ![b] = {}] /\ UNCHANGED content

Next ==
  \E p \in Proc, b \in Block : Take(p, b) \/ Give(p, b) \/ \E v \in Val : Change(p, b, v)

Spec == Init /\ [][Next]_<<content, holder>>
=============================================================================
