-------------------------------- MODULE Pipe --------------------------------
(***************************************************************************)
(* Pipes (pipe.c): the ring buffer, its two free-running counters, and the *)
(* processes that read, write, sleep, are killed and close.                *)
(*                                                                         *)
(* p->lock is held from acquire() to release() or into sleep(), so that a  *)
(* stretch between the two is one action, except that kill() does not take *)
(* the lock and can come between the test of killed and the sleep().       *)
(* Every process has one end open; the end is closed (pipeclose) when the  *)
(* last process that has it open closes its file (fileclose).              *)
(***************************************************************************)
EXTENDS Naturals, Sequences, FiniteSets

CONSTANTS
  Reader, Writer,  \* the processes that have an end open
  NoProc,          \* holder of a free lock
  Byte,
  PIPESIZE,
  UINTMOD,         \* nread and nwrite wrap around here (2^32 in the code)
  MaxN,            \* the longest read or write
  Victims          \* the processes that may be killed

Proc == Reader \cup Writer

ASSUME PipeAssumption ==
  /\ IsFiniteSet(Proc)
  /\ Reader \cap Writer = {}
  /\ NoProc \notin Proc
  /\ PIPESIZE \in Nat \ {0}
  /\ UINTMOD \in Nat \ {0}
  /\ \E k \in 2 .. UINTMOD : UINTMOD = k * PIPESIZE
  /\ MaxN \in Nat
  /\ Victims \subseteq Proc

VARIABLES
  data, nread, nwrite, readopen, writeopen,  \* struct pipe
  lock,       \* who holds p->lock
  freed,      \* has the pipe been given to kfree()?
  pc,         \* where each process is
  todo,       \* the bytes of a write that are not in the pipe yet
  got,        \* what a read has got so far
  want,       \* how many bytes a read still asks for
  killed      \* the processes that were killed

pipe == <<data, nread, nwrite, readopen, writeopen>>
vars == <<pipe, lock, freed, pc, todo, got, want, killed>>

\* pipealloc()
Init ==
  /\ data \in [0 .. (PIPESIZE - 1) -> Byte]
  /\ nread = 0 /\ nwrite = 0
  /\ readopen = TRUE /\ writeopen = TRUE
  /\ lock = NoProc
  /\ freed = FALSE
  /\ pc = [p \in Proc |-> "user"]
  /\ todo = [w \in Writer |-> <<>>]
  /\ got = [r \in Reader |-> <<>>]
  /\ want = [r \in Reader |-> 0]
  /\ killed = {}

\* Mutant: one byte too many.
Full_OffByOne == nwrite = (nread + PIPESIZE + 1) % UINTMOD

Full == nwrite = (nread + PIPESIZE) % UINTMOD

Empty == nread = nwrite

\* Mutant: nobody is woken.
Wakeup_None(l, p, m) == [pc EXCEPT ![p] = m]

\* wakeup(): the processes asleep at l want the lock again; p goes on to m.
Wakeup(l, p, m) ==
  [x \in Proc |-> IF x = p THEN m
                  ELSE IF pc[x] = l THEN IF x \in Reader THEN "read" ELSE "write"
                  ELSE pc[x]]

\* trap(): a killed process does not return to user space.
SysRet(p) == IF p \in killed THEN "exit" ELSE "user"

\* acquire(&p->lock), on entry or at the end of sleep().
Acquire(p, from, to) ==
  /\ pc[p] = from
  /\ lock = NoProc
  /\ lock' = p
  /\ pc' = [pc EXCEPT ![p] = to]
  /\ UNCHANGED <<pipe, freed, todo, got, want, killed>>

-----------------------------------------------------------------------------
(* pipewrite() *)

StartWrite(w) ==
  /\ pc[w] = "user" /\ w \notin killed
  /\ \E k \in 1 .. MaxN, s \in [1 .. MaxN -> Byte] :
       todo' = [todo EXCEPT ![w] = SubSeq(s, 1, k)]
  /\ pc' = [pc EXCEPT ![w] = "write"]
  /\ UNCHANGED <<pipe, lock, freed, got, want, killed>>

PutByte(w) ==
  /\ pc[w] = "pipewrite"
  /\ todo[w] # <<>> /\ ~Full
  /\ data' = [data EXCEPT ![nwrite % PIPESIZE] = Head(todo[w])]
  /\ nwrite' = (nwrite + 1) % UINTMOD
  /\ todo' = [todo EXCEPT ![w] = Tail(@)]
  /\ UNCHANGED <<nread, readopen, writeopen, lock, freed, pc, got, want, killed>>

WriteDone(w) ==
  /\ pc[w] = "pipewrite"
  /\ todo[w] = <<>>
  /\ pc' = Wakeup("read_asleep", w, SysRet(w))
  /\ lock' = NoProc
  /\ UNCHANGED <<pipe, freed, todo, got, want, killed>>

GiveUp(w) == ~readopen \/ w \in killed

\* return -1, with some of the bytes in the pipe
WriteFail(w) ==
  /\ pc[w] = "pipewrite"
  /\ todo[w] # <<>> /\ Full
  /\ GiveUp(w)
  /\ todo' = [todo EXCEPT ![w] = <<>>]
  /\ pc' = [pc EXCEPT ![w] = SysRet(w)]
  /\ lock' = NoProc
  /\ UNCHANGED <<pipe, freed, got, want, killed>>

WriteBlock(w) ==
  /\ pc[w] = "pipewrite"
  /\ todo[w] # <<>> /\ Full
  /\ ~GiveUp(w)
  /\ pc' = [pc EXCEPT ![w] = "write_sleep"]
  /\ UNCHANGED <<pipe, lock, freed, todo, got, want, killed>>

\* wakeup(&p->nread), sleep(&p->nwrite, &p->lock)
WriteSleep(w) ==
  /\ pc[w] = "write_sleep"
  /\ pc' = Wakeup("read_asleep", w, "write_asleep")
  /\ lock' = NoProc
  /\ UNCHANGED <<pipe, freed, todo, got, want, killed>>

-----------------------------------------------------------------------------
(* piperead() *)

StartRead(r) ==
  /\ pc[r] = "user" /\ r \notin killed
  /\ \E k \in 1 .. MaxN : want' = [want EXCEPT ![r] = k]
  /\ pc' = [pc EXCEPT ![r] = "read"]
  /\ UNCHANGED <<pipe, lock, freed, todo, got, killed>>

ReadFail(r) ==
  /\ pc[r] = "piperead"
  /\ Empty /\ writeopen /\ r \in killed
  /\ want' = [want EXCEPT ![r] = 0]
  /\ pc' = [pc EXCEPT ![r] = "exit"]
  /\ lock' = NoProc
  /\ UNCHANGED <<pipe, freed, todo, got, killed>>

ReadBlock(r) ==
  /\ pc[r] = "piperead"
  /\ Empty /\ writeopen /\ r \notin killed
  /\ pc' = [pc EXCEPT ![r] = "read_sleep"]
  /\ UNCHANGED <<pipe, lock, freed, todo, got, want, killed>>

\* sleep(&p->nread, &p->lock)
ReadSleep(r) ==
  /\ pc[r] = "read_sleep"
  /\ pc' = [pc EXCEPT ![r] = "read_asleep"]
  /\ lock' = NoProc
  /\ UNCHANGED <<pipe, freed, todo, got, want, killed>>

ReadCopy(r) ==
  /\ pc[r] = "piperead"
  /\ ~(Empty /\ writeopen)
  /\ pc' = [pc EXCEPT ![r] = "copy"]
  /\ UNCHANGED <<pipe, lock, freed, todo, got, want, killed>>

TakeByte(r) ==
  /\ pc[r] = "copy"
  /\ want[r] > 0 /\ ~Empty
  /\ got' = [got EXCEPT ![r] = Append(@, data[nread % PIPESIZE])]
  /\ nread' = (nread + 1) % UINTMOD
  /\ want' = [want EXCEPT ![r] = @ - 1]
  /\ UNCHANGED <<data, nwrite, readopen, writeopen, lock, freed, pc, todo, killed>>

ReadDone(r) ==
  /\ pc[r] = "copy"
  /\ want[r] = 0 \/ Empty
  /\ want' = [want EXCEPT ![r] = 0]
  /\ got' = [got EXCEPT ![r] = <<>>]
  /\ pc' = Wakeup("write_asleep", r, SysRet(r))
  /\ lock' = NoProc
  /\ UNCHANGED <<pipe, freed, todo, killed>>

-----------------------------------------------------------------------------
(* pipeclose() and kill() *)

\* Mutant: the first close frees the pipe.
MustFree_First(ro, wo) == ~ro \/ ~wo

MustFree(ro, wo) == ~ro /\ ~wo

\* A process closes its end; for the last one, fileclose() calls pipeclose().
Close(p) ==
  LET side == IF p \in Reader THEN Reader ELSE Writer
      last == \A x \in side \ {p} : pc[x] = "closed"
  IN  /\ pc[p] \in {"user", "exit"}
      /\ last => lock = NoProc
      /\ readopen' = (readopen /\ ~(last /\ p \in Reader))
      /\ writeopen' = (writeopen /\ ~(last /\ p \in Writer))
      /\ pc' = IF ~last THEN [pc EXCEPT ![p] = "closed"]
               ELSE IF p \in Reader THEN Wakeup("write_asleep", p, "closed")
               ELSE Wakeup("read_asleep", p, "closed")
      /\ freed' = MustFree(readopen', writeopen')
      /\ UNCHANGED <<data, nread, nwrite, lock, todo, got, want, killed>>

\* kill() marks the process, and wakes it if it sleeps.
Kill(p) ==
  /\ p \in Victims \ killed
  /\ pc[p] # "closed"
  /\ killed' = killed \cup {p}
  /\ pc' = [pc EXCEPT ![p] = CASE @ = "read_asleep" -> "read"
                                [] @ = "write_asleep" -> "write"
                                [] OTHER -> @]
  /\ UNCHANGED <<pipe, lock, freed, todo, got, want>>

-----------------------------------------------------------------------------
\* What a process does inside its system call, or because it was killed.
KernelStep(p) ==
  \/ /\ p \in Writer
     /\ \/ Acquire(p, "write", "pipewrite")
        \/ PutByte(p) \/ WriteDone(p) \/ WriteFail(p) \/ WriteBlock(p) \/ WriteSleep(p)
  \/ /\ p \in Reader
     /\ \/ Acquire(p, "read", "piperead")
        \/ ReadFail(p) \/ ReadBlock(p) \/ ReadSleep(p)
        \/ ReadCopy(p) \/ TakeByte(p) \/ ReadDone(p)
  \/ p \in killed /\ Close(p)

Next ==
  \/ \E p \in Proc : KernelStep(p) \/ Close(p) \/ Kill(p)
  \/ \E w \in Writer : StartWrite(w)
  \/ \E r \in Reader : StartRead(r)

Spec == Init /\ [][Next]_vars

\* A process in the kernel goes on and gets the lock when it is free again and
\* again; what it does in user space is its own affair.
FairSpec == Spec /\ \A p \in Proc : SF_vars(KernelStep(p))

-----------------------------------------------------------------------------
(* Properties *)

Where == {"user", "exit", "closed", "write", "pipewrite", "write_sleep", "write_asleep",
          "read", "piperead", "read_sleep", "read_asleep", "copy"}

\* Every variable has its type.
TypeOK ==
  /\ data \in [0 .. (PIPESIZE - 1) -> Byte]
  /\ nread \in 0 .. (UINTMOD - 1)
  /\ nwrite \in 0 .. (UINTMOD - 1)
  /\ readopen \in BOOLEAN /\ writeopen \in BOOLEAN
  /\ lock \in Proc \cup {NoProc}
  /\ freed \in BOOLEAN
  /\ pc \in [Proc -> Where]
  /\ todo \in [Writer -> Seq(Byte)]
  /\ got \in [Reader -> Seq(Byte)]
  /\ want \in [Reader -> 0 .. MaxN]
  /\ killed \subseteq Proc

\* kfree() comes once both ends are closed, when nobody uses the pipe or waits
\* to: no process is inside a call on a pipe that has been freed.
NoUseAfterFree == TypeOK /\ (freed => \A p \in Proc : pc[p] = "closed")


\* The bytes in the ring, oldest first.
Count == (nwrite + UINTMOD - nread) % UINTMOD
Contents == [i \in 1 .. Count |-> data[(nread + i - 1) % PIPESIZE]]

InRead == {r \in Reader : pc[r] \in {"read", "piperead", "read_sleep", "read_asleep", "copy"}}
InWrite == {w \in Writer : pc[w] \in {"write", "pipewrite", "write_sleep", "write_asleep"}}

Fifo == INSTANCE PipeFifo WITH
  q <- Contents, ropen <- readopen, wopen <- writeopen, reading <- InRead

\* The ring with its wrapping counters implements a bounded queue: bytes come
\* out once, in order and unchanged, and end of file only after the last byte.
IsFifo == Fifo!Spec

\* A read ends when the write end is closed, and a write when the read end is.
CloseEndsCalls ==
  /\ \A r \in Reader : r \in InRead /\ ~writeopen ~> r \notin InRead
  /\ \A w \in Writer : w \in InWrite /\ ~readopen ~> w \notin InWrite

=============================================================================
