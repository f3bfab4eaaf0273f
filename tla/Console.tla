------------------------------ MODULE Console ------------------------------
(***************************************************************************)
(* Console input and output (console.c) under spinlocks (spinlock.c): the  *)
(* ring of input characters with line editing, the keyboard interrupt that *)
(* fills it and the processes that read it.                                *)
(*                                                                         *)
(* Every CPU runs one process; while that sleeps, the scheduler runs there *)
(* with interrupts on.  The interrupt comes to one CPU, on top of whatever *)
(* runs with interrupts on.  ptable.lock is taken by sleep(), wakeup() and *)
(* the scheduler as in proc.c; module Proc has the rest of them.           *)
(***************************************************************************)
EXTENDS Spinlock, Sequences, FiniteSets, TLC

CONSTANTS
  IrqCpu,       \* the CPU that gets the interrupts of the keyboard
  INPUT_BUF,
  UINTMOD,      \* 2^32: the counters r, w, e wrap around
  Char, NL, EOF, \* characters: ordinary ones, '\n', C('D')
  Lengths       \* arguments n of read()

Ended == {NL, EOF}

ASSUME ConsoleAssumption ==
  /\ Lock = {"cons", "ptable"} /\ IrqCpu \in Cpu /\ NoCpu \notin Cpu
  /\ INPUT_BUF > 0 /\ UINTMOD % INPUT_BUF = 0 /\ UINTMOD > INPUT_BUF
  /\ Ended \cap Char = {} /\ Lengths \subseteq 1 .. UINTMOD - 1

VARIABLES
  buf, r, w, e,   \* input
  th,             \* the process of a CPU: pc, n and target of consoleread()
  killed,         \* proc->killed
  intr            \* the interrupt handler: where it is

input == <<buf, r, w, e>>
locks == <<holder, cpu>>
vars == <<input, locks, th, killed, intr>>

Idle == [pc |-> "user", n |-> 0, target |-> 0]

Init ==
  /\ LockInit
  /\ buf = [k \in 0 .. INPUT_BUF - 1 |-> NL] /\ r = 0 /\ w = 0 /\ e = 0
  /\ th = [c \in Cpu |-> Idle] /\ killed = [c \in Cpu |-> FALSE]
  /\ intr = "none"

\* The process of CPU c executes: no handler is on top of it.
At(c, l) == th[c].pc = l /\ (c = IrqCpu => intr = "none")
Go(c, x) == th' = [th EXCEPT ![c] = x @@ @]
Plus(x, k) == (x + k + UINTMOD) % UINTMOD

-----------------------------------------------------------------------------
(* consoleread() *)

Read(c) ==
  /\ At(c, "user")
  /\ \E n \in Lengths : Go(c, [pc |-> "acquire", n |-> n, target |-> n])
  /\ Acquiring(c)
  /\ UNCHANGED <<input, holder, killed, intr>>

ReadLocked(c) ==
  /\ At(c, "acquire") /\ Acquired(c, "cons")
  /\ Go(c, [pc |-> "loop"])
  /\ UNCHANGED <<input, cpu, killed, intr>>

\* The end of a call.  A killed process goes no further than to exit().
Return(c) ==
  /\ Released(c, "cons")
  /\ th' = [th EXCEPT ![c] = Idle]
  /\ killed' = [killed EXCEPT ![c] = FALSE]

\* C('D') after other characters stays for the next read().
PutBack(c) == th[c].n < th[c].target

\* One turn of the loop with input.
ReadChar(c) ==
  LET ch == buf[r % INPUT_BUF] IN
  /\ At(c, "loop") /\ r # w
  /\ r' = IF ch = EOF /\ PutBack(c) THEN r ELSE Plus(r, 1)
  /\ IF ch \in Ended \/ th[c].n = 1 THEN Return(c)
     ELSE Go(c, [n |-> th[c].n - 1]) /\ UNCHANGED <<locks, killed>>
  /\ UNCHANGED <<buf, w, e, intr>>

ReadKilled(c) ==
  /\ At(c, "loop") /\ r = w /\ killed[c]
  /\ Return(c)
  /\ UNCHANGED <<input, intr>>

\* sleep(&input.r, &cons.lock)
ReadSleep(c) ==
  /\ At(c, "loop") /\ r = w /\ ~killed[c]
  /\ Acquiring(c)
  /\ Go(c, [pc |-> "sleep"])
  /\ UNCHANGED <<input, holder, killed, intr>>

SleepLocked(c) ==
  /\ At(c, "sleep") /\ Acquired(c, "ptable")
  /\ Go(c, [pc |-> "sleep_held"])
  /\ UNCHANGED <<input, cpu, killed, intr>>

\* release(lk), then swtch() to the scheduler, which releases ptable.lock.
SleepSwitch(c) ==
  /\ At(c, "sleep_held")
  /\ holder' = [holder EXCEPT !["cons"] = NoCpu, !["ptable"] = NoCpu]
  /\ cpu' = [cpu EXCEPT ![c] = popcli(popcli(@))]
  /\ Go(c, [pc |-> "asleep"])
  /\ UNCHANGED <<input, killed, intr>>

\* The scheduler takes ptable.lock and runs the process, which releases it.
Dispatch(c) ==
  /\ At(c, "runnable")
  /\ Acquiring(c)
  /\ Go(c, [pc |-> "dispatch"])
  /\ UNCHANGED <<input, holder, killed, intr>>

Resume(c) ==
  /\ At(c, "dispatch") /\ Acquired(c, "ptable")
  /\ Go(c, [pc |-> "resume"])
  /\ UNCHANGED <<input, cpu, killed, intr>>

Resumed(c) ==
  /\ At(c, "resume") /\ Released(c, "ptable")
  /\ Go(c, [pc |-> "relock"])
  /\ UNCHANGED <<input, killed, intr>>

\* acquire(lk) at the end of sleep().
Relock(c) ==
  /\ At(c, "relock")
  /\ Acquiring(c)
  /\ Go(c, [pc |-> "acquire"])
  /\ UNCHANGED <<input, holder, killed, intr>>

-----------------------------------------------------------------------------
(* consolewrite(), and kill() *)

Write(c) ==
  /\ At(c, "user")
  /\ Acquiring(c)
  /\ Go(c, [pc |-> "write"])
  /\ UNCHANGED <<input, holder, killed, intr>>

WriteLocked(c) ==
  /\ At(c, "write") /\ Acquired(c, "cons")
  /\ Go(c, [pc |-> "putc"])
  /\ UNCHANGED <<input, cpu, killed, intr>>

WriteDone(c) ==
  /\ At(c, "putc") /\ Return(c)
  /\ UNCHANGED <<input, intr>>

\* kill() by a process elsewhere; it holds ptable.lock only.
Kill(c) ==
  /\ holder["ptable"] = NoCpu /\ th[c].pc # "user" /\ ~killed[c]
  /\ killed' = [killed EXCEPT ![c] = TRUE]
  /\ Go(c, [pc |-> IF th[c].pc = "asleep" THEN "runnable" ELSE th[c].pc])
  /\ UNCHANGED <<input, locks, intr>>

-----------------------------------------------------------------------------
(* kbdintr() or uartintr(): consoleintr() *)

\* The interrupt gate turns interrupts off; acquire() follows.
Intr ==
  /\ intr = "none" /\ cpu[IrqCpu].fl
  /\ cpu' = [cpu EXCEPT ![IrqCpu] = pushcli([@ EXCEPT !.fl = FALSE])]
  /\ intr' = "acquire"
  /\ UNCHANGED <<input, holder, th, killed>>

IntrLocked ==
  /\ intr = "acquire" /\ Acquired(IrqCpu, "cons")
  /\ intr' = "getc"
  /\ UNCHANGED <<input, cpu, th, killed>>

\* C('H')
Backspace ==
  /\ intr = "getc" /\ e # w
  /\ e' = Plus(e, -1)
  /\ UNCHANGED <<buf, r, w, locks, th, killed, intr>>

\* C('U')
KillLine ==
  LET Kept == {k \in 0 .. INPUT_BUF : k <= (e - w + UINTMOD) % UINTMOD
                 /\ \A j \in 0 .. k - 1 : buf[Plus(e, -1 - j) % INPUT_BUF] # NL}
  IN  /\ intr = "getc" /\ e # w
      /\ \E k \in Kept : (\A j \in Kept : j <= k) /\ e' = Plus(e, -k)
      /\ UNCHANGED <<buf, r, w, locks, th, killed, intr>>

\* Mutant: one character too many.
Fits_One == (e - r + UINTMOD) % UINTMOD <= INPUT_BUF

Fits == (e - r + UINTMOD) % UINTMOD < INPUT_BUF

\* Mutant: a line that fills the buffer is not handed over.
Full_None(x) == FALSE

Full(x) == x = Plus(r, INPUT_BUF)

Type(ch) ==
  /\ intr = "getc" /\ Fits
  /\ buf' = [buf EXCEPT ![e % INPUT_BUF] = ch]
  /\ e' = Plus(e, 1)
  /\ IF ch \in Ended \/ Full(e') THEN w' = e' /\ Acquiring(IrqCpu) /\ intr' = "wakeup"
     ELSE UNCHANGED <<w, cpu, intr>>
  /\ UNCHANGED <<r, holder, th, killed>>

\* wakeup(&input.r)
WakeupLocked ==
  /\ intr = "wakeup" /\ Acquired(IrqCpu, "ptable")
  /\ intr' = "woken"
  /\ UNCHANGED <<input, cpu, th, killed>>

\* Mutant: only the process of this CPU is woken.
Woken_Here(c) == c = IrqCpu /\ th[c].pc = "asleep"

Woken(c) == th[c].pc = "asleep"

Wakeup ==
  /\ intr = "woken" /\ Released(IrqCpu, "ptable")
  /\ th' = [c \in Cpu |-> IF Woken(c) THEN [th[c] EXCEPT !.pc = "runnable"] ELSE th[c]]
  /\ intr' = "getc"
  /\ UNCHANGED <<input, killed>>

\* No more characters: release(), and return from the interrupt.
IntrDone ==
  /\ intr = "getc"
  /\ holder' = [holder EXCEPT !["cons"] = NoCpu]
  /\ cpu' = [cpu EXCEPT ![IrqCpu] = [popcli(@) EXCEPT !.fl = TRUE]]
  /\ intr' = "none"
  /\ UNCHANGED <<input, th, killed>>

Handler == Intr \/ IntrLocked \/ Backspace \/ KillLine \/ (\E ch \in Char \cup Ended : Type(ch))
           \/ WakeupLocked \/ Wakeup \/ IntrDone

Process(c) ==
  \/ Read(c) \/ ReadLocked(c) \/ ReadChar(c) \/ ReadKilled(c) \/ ReadSleep(c)
  \/ SleepLocked(c) \/ SleepSwitch(c) \/ Dispatch(c) \/ Resume(c) \/ Resumed(c)
  \/ Relock(c) \/ Write(c) \/ WriteLocked(c) \/ WriteDone(c) \/ Kill(c)

Next == Handler \/ \E c \in Cpu : Process(c)

Spec == Init /\ [][Next]_vars

-----------------------------------------------------------------------------
(* Properties *)

\* The variables have their types.
TypeOK ==
  /\ buf \in [0 .. INPUT_BUF - 1 -> Char \cup Ended]
  /\ {r, w, e} \subseteq 0 .. UINTMOD - 1
  /\ holder \in [Lock -> Cpu \cup {NoCpu}]
  /\ cpu \in [Cpu -> [ncli : 0 .. 3, intena : BOOLEAN, fl : BOOLEAN]]
  /\ \A c \in Cpu : th[c].n <= th[c].target

\* The code of CPU c is about to take a lock, in a loop.
Spins(c) ==
  IF c = IrqCpu /\ intr # "none" THEN intr \in {"acquire", "wakeup"}
  ELSE th[c].pc \in {"acquire", "sleep", "dispatch", "write"}

\* The lock that the loop is about.
SpinsFor(c) ==
  IF c = IrqCpu /\ intr # "none" THEN (IF intr = "acquire" THEN "cons" ELSE "ptable")
  ELSE IF th[c].pc \in {"acquire", "write"} THEN "cons" ELSE "ptable"

Held(c) == {k \in Lock : holder[k] = c}

\* ncli counts the locks that a CPU holds or waits for, and interrupts are off
\* meanwhile and on otherwise: pushcli() and popcli() are matched, whatever
\* they are nested in (the panics of popcli() are not reached).
CliMatched ==
  /\ TypeOK
  /\ \A c \in Cpu :
       /\ cpu[c].ncli = Cardinality(Held(c)) + (IF Spins(c) THEN 1 ELSE 0)
       /\ cpu[c].fl <=> cpu[c].ncli = 0

\* Nobody waits for ever for a spinlock: a CPU never spins on a lock that it
\* holds, also not in an interrupt (acquire() would panic), and no two CPUs
\* spin on each other's lock.
SpinEnds ==
  \A S \in SUBSET Cpu \ {{}} : \E c \in S : ~Spins(c) \/ holder[SpinsFor(c)] \notin S

\* A process sleeps in consoleread() only while no input is ready, or its
\* wakeup is on the way.
SleepsOnEmpty ==
  (\E c \in Cpu : th[c].pc = "asleep") => r = w \/ intr \in {"wakeup", "woken"}

Dist(x, y) == (y - x + UINTMOD) % UINTMOD
Stretch(x, y) == [k \in 1 .. Dist(x, y) |-> buf[Plus(x, k - 1) % INPUT_BUF]]

\* The ring with its three counters behaves as a line and a queue: nothing is
\* overwritten before it is read, editing does not reach input that is ready,
\* and the counters wrap around unnoticed.
Queue == INSTANCE LineQueue WITH
  Char <- Char \cup Ended, EndOfLine <- Ended, Room <- INPUT_BUF,
  line <- Stretch(w, e), ready <- Stretch(r, w)

IsLineQueue == Queue!Spec
=============================================================================
