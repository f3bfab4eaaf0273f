------------------------------ MODULE TxnDisk ------------------------------
(***************************************************************************)
(* What log.c promises to the file system: a disk on which the updates of  *)
(* a group of file-system calls become durable in one step, and only when  *)
(* no call of the group is half done.  A crash puts memory back to the     *)
(* last durable image, whatever the log was doing at that moment.          *)
(*                                                                         *)
(* Log.tla implements this specification (LogProofs.tla).                  *)
(***************************************************************************)
CONSTANTS Proc,   \* processes that make file-system calls
          Home,   \* the blocks outside the log
          Val     \* what a block can contain

VARIABLES durable,  \* what survives a crash: [Home -> Val]
          mem,      \* what the file system reads and writes: [Home -> Val]
          active    \* the processes between begin_op() and end_op()

vars == <<durable, mem, active>>

Init ==
  /\ durable \in [Home -> Val]
  /\ mem = durable
  /\ active = {}

Begin(p) ==
  /\ p \notin active
  /\ active' = active \cup {p}
  /\ UNCHANGED <<durable, mem>>

Write(p, b, v) ==
  /\ p \in active
  /\ mem' = [mem EXCEPT ![b] = v]
  /\ UNCHANGED <<durable, active>>

End(p) ==
  /\ p \in active
  /\ active' = active \ {p}
  /\ UNCHANGED <<durable, mem>>

\* The only step that changes what survives a crash.
Commit ==
  /\ active = {}
  /\ durable' = mem
  /\ UNCHANGED <<mem, active>>

Crash ==
  /\ mem' = durable
  /\ active' = {}
  /\ UNCHANGED durable

Next ==
  \/ \E p \in Proc : Begin(p) \/ End(p)
  \/ \E p \in Proc, b \in Home, v \in Val : Write(p, b, v)
  \/ Commit
  \/ Crash

Spec == Init /\ [][Next]_vars
=============================================================================
