------------------------------ MODULE PipeFifo ------------------------------
(***************************************************************************)
(* What a pipe promises: a bounded queue of bytes between the processes    *)
(* that hold its ends.  A read returns the oldest bytes, in order and each *)
(* once, or end of file after the last writer is gone; only a process that *)
(* is killed, or a writer that nobody reads from, gives up.                *)
(***************************************************************************)
EXTENDS Naturals, Sequences

CONSTANTS Reader, Writer, Byte, PIPESIZE

VARIABLES
  q,          \* the bytes in the pipe
  todo,       \* the bytes each writer still has to write
  reading,    \* the readers inside a read
  got,        \* what the read of each reader has got so far
  killed,     \* the processes that were killed
  ropen,      \* is the read end open?
  wopen       \* is the write end open?

vars == <<q, todo, reading, got, killed, ropen, wopen>>

Init ==
  /\ q = <<>>
  /\ todo = [w \in Writer |-> <<>>]
  /\ reading = {}
  /\ got = [r \in Reader |-> <<>>]
  /\ killed = {}
  /\ ropen = TRUE
  /\ wopen = TRUE

StartWrite(w) ==
  /\ wopen /\ w \notin killed
  /\ todo[w] = <<>>
  /\ todo'[w] \in Seq(Byte)
  /\ todo' = [todo EXCEPT ![w] = todo'[w]]
  /\ UNCHANGED <<q, reading, got, killed, ropen, wopen>>

Put(w) ==
  /\ todo[w] # <<>>
  /\ Len(q) < PIPESIZE
  /\ q' = Append(q, Head(todo[w]))
  /\ todo' = [todo EXCEPT ![w] = Tail(@)]
  /\ UNCHANGED <<reading, got, killed, ropen, wopen>>

GiveUp(w) ==
  /\ ~ropen \/ w \in killed
  /\ todo' = [todo EXCEPT ![w] = <<>>]
  /\ UNCHANGED <<q, reading, got, killed, ropen, wopen>>

StartRead(r) ==
  /\ ropen /\ r \notin killed
  /\ r \notin reading
  /\ reading' = reading \cup {r}
  /\ UNCHANGED <<q, todo, got, killed, ropen, wopen>>

Take(r) ==
  /\ r \in reading
  /\ q # <<>>
  /\ got' = [got EXCEPT ![r] = Append(@, Head(q))]
  /\ q' = Tail(q)
  /\ UNCHANGED <<todo, reading, killed, ropen, wopen>>

\* A read returns bytes, end of file, or -1 because the reader was killed.
EndRead(r) ==
  /\ r \in reading
  /\ got[r] # <<>> \/ (q = <<>> /\ ~wopen) \/ r \in killed
  /\ reading' = reading \ {r}
  /\ got' = [got EXCEPT ![r] = <<>>]
  /\ UNCHANGED <<q, todo, killed, ropen, wopen>>

Kill(p) ==
  /\ killed' = killed \cup {p}
  /\ UNCHANGED <<q, todo, reading, got, ropen, wopen>>

CloseRead ==
  /\ reading = {}
  /\ ropen' = FALSE
  /\ UNCHANGED <<q, todo, reading, got, killed, wopen>>

CloseWrite ==
  /\ \A w \in Writer : todo[w] = <<>>
  /\ wopen' = FALSE
  /\ UNCHANGED <<q, todo, reading, got, killed, ropen>>

Next ==
  \/ \E w \in Writer : StartWrite(w) \/ Put(w) \/ GiveUp(w)
  \/ \E r \in Reader : StartRead(r) \/ Take(r) \/ EndRead(r)
  \/ \E p \in Reader \cup Writer : Kill(p)
  \/ CloseRead
  \/ CloseWrite

Spec == Init /\ [][Next]_vars
=============================================================================
