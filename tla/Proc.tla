-------------------------------- MODULE Proc --------------------------------
(***************************************************************************)
(* Processes and their scheduling (proc.c), with the parts of trap.c and   *)
(* sysproc.c that decide when a process yields, sleeps, wakes and dies.    *)
(*                                                                         *)
(* Every CPU runs scheduler() or the kernel thread of one process.         *)
(* ptable.lock is explicit, because it is taken in one thread and released *)
(* in another across swtch(); so is tickslock, which sleep() trades for    *)
(* ptable.lock.  A stretch of code that holds a lock and neither gives it  *)
(* away nor takes another is one action; code that runs without a lock is  *)
(* cut at every access to a field that other CPUs read.                    *)
(*                                                                         *)
(* A process chooses its system calls freely; the memory allocator may     *)
(* fail at any call of fork().  The files and the working directory that   *)
(* fork() and exit() copy and close are not part of this module.           *)
(***************************************************************************)
EXTENDS Integers, FiniteSets

CONSTANTS
  Cpu,          \* the processors
  Cpu0,         \* the one whose timer advances ticks
  NoCpu,        \* holder of a free lock
  NPROC,        \* param.h: size of the process table
  MaxPid,       \* bound on the pids handed out
  KillPids,     \* pids that user programs pass to kill()
  TICKMOD,      \* ticks wraps around here (2^32 in the code)
  SleepArgs     \* arguments of sleep(n)

ASSUME ProcAssumption ==
  /\ Cpu0 \in Cpu
  /\ NoCpu \notin Cpu
  /\ NPROC \in Nat \ {0}
  /\ TICKMOD \in Nat \ {0}
  /\ SleepArgs \subseteq 1 .. (TICKMOD - 1)

Slot == 1 .. NPROC
NoProc == 0
initproc == 1
TicksChan == NPROC + 1   \* &ticks; the channel of a wait() is the parent's slot

VARIABLES
  state, pid, parent, killed, chan,  \* struct proc
  kstack,     \* does the slot own a kernel stack?
  nextpid,
  ticks,
  ptlock,     \* the CPU that holds ptable.lock
  tklock,     \* the CPU that holds tickslock
  proc,       \* the process each CPU runs, or NoProc
  mode,       \* what each CPU does: scheduler() at "top", "halted" or in its
              \* "scan"; a process ("run"), or its way out of it ("sched")
  sp,         \* where the scan of a CPU is
  found,      \* foundproc
  intr,       \* where a CPU is in trap() for a timer interrupt
  pc,         \* where the kernel thread of a process is
  back,       \* what a process does first when it is switched to
  np,         \* fork(): the new process
  ticks0, n   \* sys_sleep()

table == <<state, pid, parent, killed, chan, kstack, nextpid>>
cpus == <<proc, mode, sp, found, intr>>
threads == <<pc, back, np, ticks0, n>>
vars == <<table, ticks, ptlock, tklock, cpus, threads>>

Init ==
  /\ state = [s \in Slot |-> IF s = initproc THEN "RUNNABLE" ELSE "UNUSED"]
  /\ pid = [s \in Slot |-> IF s = initproc THEN 1 ELSE 0]
  /\ parent = [s \in Slot |-> NoProc]
  /\ killed = [s \in Slot |-> FALSE]
  /\ chan = [s \in Slot |-> 0]
  /\ kstack = [s \in Slot |-> s = initproc]
  /\ nextpid = 2
  /\ ticks = 0
  /\ ptlock = NoCpu
  /\ tklock = NoCpu
  /\ proc = [c \in Cpu |-> NoProc]
  /\ mode = [c \in Cpu |-> "top"]
  /\ sp = [c \in Cpu |-> 1]
  /\ found = [c \in Cpu |-> TRUE]
  /\ intr = [c \in Cpu |-> "no"]
  /\ pc = [s \in Slot |-> "user"]
  /\ back = [s \in Slot |-> IF s = initproc THEN "forkret" ELSE "no"]
  /\ np = [s \in Slot |-> NoProc]
  /\ ticks0 = [s \in Slot |-> 0]
  /\ n = [s \in Slot |-> 0]

-----------------------------------------------------------------------------
(* scheduler() and sched() *)

\* sti(), hlt() when the last scan found nothing, acquire(&ptable.lock).
SchedHalt(c) ==
  /\ mode[c] = "top" /\ intr[c] = "no"
  /\ ~found[c]
  /\ mode' = [mode EXCEPT ![c] = "halted"]
  /\ UNCHANGED <<table, ticks, ptlock, tklock, proc, sp, found, intr, threads>>

SchedStart(c) ==
  /\ mode[c] = "top" /\ intr[c] = "no"
  /\ found[c]
  /\ ptlock = NoCpu
  /\ ptlock' = c
  /\ mode' = [mode EXCEPT ![c] = "scan"]
  /\ sp' = [sp EXCEPT ![c] = 1]
  /\ found' = [found EXCEPT ![c] = FALSE]
  /\ UNCHANGED <<table, ticks, tklock, proc, intr, threads>>

\* The runnable processes that the scan of c still has to pass.
Ahead(c) == {s \in Slot : s >= sp[c] /\ state[s] = "RUNNABLE"}

\* Mutant: p->state = RUNNING is forgotten.
Dispatch_NoState(s) == state

Dispatch(s) == [state EXCEPT ![s] = "RUNNING"]

\* Mutant: the scan starts again after every process.
ScanNext_Restart(s) == 1

ScanNext(s) == s + 1

\* Switch to the next runnable process; it starts with ptable.lock held.
SchedSwitch(c) ==
  /\ mode[c] = "scan"
  /\ \E s \in Ahead(c) :
       /\ \A r \in Ahead(c) : s <= r
       /\ state' = Dispatch(s)
       /\ proc' = [proc EXCEPT ![c] = s]
       /\ sp' = [sp EXCEPT ![c] = ScanNext(s)]
  /\ found' = [found EXCEPT ![c] = TRUE]
  /\ mode' = [mode EXCEPT ![c] = "run"]
  /\ UNCHANGED <<pid, parent, killed, chan, kstack, nextpid, ticks, ptlock, tklock,
                 intr, threads>>

SchedEnd(c) ==
  /\ mode[c] = "scan"
  /\ Ahead(c) = {}
  /\ ptlock' = NoCpu
  /\ mode' = [mode EXCEPT ![c] = "top"]
  /\ UNCHANGED <<table, ticks, tklock, proc, sp, found, intr, threads>>

\* sched(): swtch() back to the scan, which goes on with the lock held.
Sched(c) ==
  /\ mode[c] = "sched"
  /\ mode' = [mode EXCEPT ![c] = "scan"]
  /\ proc' = [proc EXCEPT ![c] = NoProc]
  /\ UNCHANGED <<table, ticks, ptlock, tklock, sp, found, intr, threads>>

-----------------------------------------------------------------------------
(* Threads: the kernel side of the process that a CPU runs *)

\* CPU c executes process s at l, and is past the release() that ends a switch.
At(c, s, l) ==
  /\ mode[c] = "run" /\ intr[c] = "no"
  /\ proc[c] = s
  /\ back[s] = "no"
  /\ pc[s] = l

\* Mutant: forkret() forgets the release().
SwitchedTo_NoRelease(s) == IF back[s] = "forkret" THEN ptlock ELSE NoCpu

SwitchedTo(s) == NoCpu

\* The release(&ptable.lock) of yield() or forkret() after a switch; after a
\* yield(), trap() looks at killed once more.
Resume(c) ==
  /\ mode[c] = "run" /\ intr[c] = "no"
  /\ LET s == proc[c] IN
     /\ back[s] # "no"
     /\ ptlock' = SwitchedTo(s)
     /\ back' = [back EXCEPT ![s] = "no"]
     /\ pc' = IF back[s] = "yield" /\ pc[s] = "user" /\ killed[s]
              THEN [pc EXCEPT ![s] = "exit"] ELSE pc
  /\ UNCHANGED <<table, ticks, tklock, cpus, np, ticks0, n>>

\* trap(), on the way back from a system call.
SysRet(s) == IF killed[s] THEN "exit" ELSE "user"

\* trap(), on the way in: a killed process exits at its next system call.
KilledAtEntry(c, s) ==
  /\ At(c, s, "user")
  /\ killed[s]
  /\ pc' = [pc EXCEPT ![s] = "exit"]
  /\ UNCHANGED <<table, ticks, ptlock, tklock, cpus, back, np, ticks0, n>>

\* The states after wakeup1(ch), called in states st.
Wakeup1(st, ch) ==
  [s \in Slot |-> IF st[s] = "SLEEPING" /\ chan[s] = ch THEN "RUNNABLE" ELSE st[s]]

Unused == {s \in Slot : state[s] = "UNUSED"}

NewPid == nextpid

LaterPid == nextpid + 1

\* allocproc() up to its release().
Fork(c, s) ==
  /\ At(c, s, "user") /\ ~killed[s]
  /\ nextpid <= MaxPid
  /\ ptlock = NoCpu
  /\ \E u \in Unused :
       /\ \A v \in Unused : u <= v
       /\ state' = [state EXCEPT ![u] = "EMBRYO"]
       /\ pid' = [pid EXCEPT ![u] = NewPid]
       /\ nextpid' = LaterPid
       /\ np' = [np EXCEPT ![s] = u]
       /\ pc' = [pc EXCEPT ![s] = "allocproc"]
  /\ UNCHANGED <<parent, killed, chan, kstack, ticks, ptlock, tklock, cpus, back, ticks0, n>>

\* kalloc() or copyuvm() fails: the new slot is given back without the lock.
ForkFail(c, s) ==
  /\ At(c, s, "allocproc") \/ At(c, s, "fork")
  /\ state' = [state EXCEPT ![np[s]] = "UNUSED"]
  /\ kstack' = [kstack EXCEPT ![np[s]] = FALSE]
  /\ np' = [np EXCEPT ![s] = NoProc]
  /\ pc' = [pc EXCEPT ![s] = SysRet(s)]
  /\ UNCHANGED <<pid, parent, killed, chan, nextpid, ticks, ptlock, tklock, cpus, back,
                 ticks0, n>>

\* allocproc() gets its stack.
ForkStack(c, s) ==
  /\ At(c, s, "allocproc")
  /\ kstack' = [kstack EXCEPT ![np[s]] = TRUE]
  /\ pc' = [pc EXCEPT ![s] = "fork"]
  /\ UNCHANGED <<state, pid, parent, killed, chan, nextpid, ticks, ptlock, tklock, cpus,
                 back, np, ticks0, n>>

\* The copying part of fork().
ForkCopy(c, s) ==
  /\ At(c, s, "fork")
  /\ parent' = [parent EXCEPT ![np[s]] = s]
  /\ pc' = [pc EXCEPT ![s] = "forked"]
  /\ UNCHANGED <<state, pid, killed, chan, kstack, nextpid, ticks, ptlock, tklock, cpus,
                 back, np, ticks0, n>>

\* The last critical section of fork(); the child will start in forkret().
ForkRun(c, s) ==
  /\ At(c, s, "forked")
  /\ ptlock = NoCpu
  /\ state' = [state EXCEPT ![np[s]] = "RUNNABLE"]
  /\ back' = [back EXCEPT ![np[s]] = "forkret"]
  /\ pc' = [pc EXCEPT ![s] = SysRet(s), ![np[s]] = "user"]
  /\ np' = [np EXCEPT ![s] = NoProc]
  /\ UNCHANGED <<pid, parent, killed, chan, kstack, nextpid, ticks, ptlock, tklock, cpus,
                 ticks0, n>>

\* The system call exit(); init never makes it.
CallExit(c, s) ==
  /\ At(c, s, "user") /\ ~killed[s]
  /\ s # initproc
  /\ pc' = [pc EXCEPT ![s] = "exit"]
  /\ UNCHANGED <<table, ticks, ptlock, tklock, cpus, back, np, ticks0, n>>

\* The children that an exiting process passes to init.
Orphans(s) == {q \in Slot : parent[q] = s}

\* Mutant: the parent is not woken.
ExitWakes_NoParent(s) == state

\* The parent is woken, and init too if it inherits a zombie.
ExitWakes(s) ==
  LET woken == Wakeup1(state, parent[s])
  IN  IF \E q \in Orphans(s) : state[q] = "ZOMBIE" THEN Wakeup1(woken, initproc) ELSE woken

\* Mutant: the children stay where they are.
Reparent_None(s) == parent

Reparent(s) == [q \in Slot |-> IF q \in Orphans(s) THEN initproc ELSE parent[q]]

\* Mutant: ptable.lock is released before sched().
ExitLock_Dropped(c) == NoCpu

ExitLock(c) == c

\* exit() from its acquire() to its sched().
Exit(c, s) ==
  /\ At(c, s, "exit")
  /\ ptlock = NoCpu
  /\ ptlock' = ExitLock(c)
  /\ state' = [ExitWakes(s) EXCEPT ![s] = "ZOMBIE"]
  /\ parent' = Reparent(s)
  /\ mode' = [mode EXCEPT ![c] = "sched"]
  /\ pc' = [pc EXCEPT ![s] = "zombie"]
  /\ UNCHANGED <<pid, killed, chan, kstack, nextpid, ticks, tklock, proc, sp, found, intr,
                 back, np, ticks0, n>>

Children(s) == {q \in Slot : parent[q] = s}
Zombies(s) == {q \in Children(s) : state[q] = "ZOMBIE"}

\* wait() has the lock: from the system call, or back from its sleep().
InWait(c, s) ==
  \/ At(c, s, "user") /\ ~killed[s] /\ ptlock = NoCpu
  \/ At(c, s, "wait") /\ ptlock = c

\* Mutant: kfree(p->kstack) is forgotten.
FreeStack_None(q) == kstack

FreeStack(q) == [kstack EXCEPT ![q] = FALSE]

\* Free the first zombie child.
WaitReap(c, s) ==
  /\ InWait(c, s)
  /\ \E q \in Zombies(s) :
       /\ \A r \in Zombies(s) : q <= r
       /\ kstack' = FreeStack(q)
       /\ state' = [state EXCEPT ![q] = "UNUSED"]
       /\ pid' = [pid EXCEPT ![q] = 0]
       /\ parent' = [parent EXCEPT ![q] = NoProc]
       /\ killed' = [killed EXCEPT ![q] = FALSE]
       /\ pc' = [pc EXCEPT ![s] = SysRet(s), ![q] = "user"]
  /\ chan' = [chan EXCEPT ![s] = 0]
  /\ ptlock' = NoCpu
  /\ UNCHANGED <<nextpid, ticks, tklock, cpus, back, np, ticks0, n>>

\* No children, or the caller was killed.
WaitFail(c, s) ==
  /\ InWait(c, s)
  /\ Zombies(s) = {}
  /\ Children(s) = {} \/ killed[s]
  /\ chan' = [chan EXCEPT ![s] = 0]
  /\ ptlock' = NoCpu
  /\ pc' = [pc EXCEPT ![s] = SysRet(s)]
  /\ UNCHANGED <<state, pid, parent, killed, kstack, nextpid, ticks, tklock, cpus, back, np,
                 ticks0, n>>

\* sleep(proc, &ptable.lock)
WaitSleep(c, s) ==
  /\ InWait(c, s)
  /\ Zombies(s) = {}
  /\ Children(s) # {} /\ ~killed[s]
  /\ chan' = [chan EXCEPT ![s] = s]
  /\ state' = [state EXCEPT ![s] = "SLEEPING"]
  /\ ptlock' = c
  /\ mode' = [mode EXCEPT ![c] = "sched"]
  /\ pc' = [pc EXCEPT ![s] = "wait"]
  /\ UNCHANGED <<pid, parent, killed, kstack, nextpid, ticks, tklock, proc, sp, found, intr,
                 back, np, ticks0, n>>

\* The slot that kill(k) finds: the first with that pid.
KillTarget(k) == {s \in Slot : pid[s] = k /\ \A r \in Slot : pid[r] = k => s <= r}


KillWakes(k) ==
  [q \in Slot |-> IF q \in KillTarget(k) /\ state[q] = "SLEEPING" THEN "RUNNABLE" ELSE state[q]]

\* kill(k): the whole critical section.
Kill(c, s, k) ==
  /\ At(c, s, "user") /\ ~killed[s]
  /\ ptlock = NoCpu
  /\ killed' = [q \in Slot |-> killed[q] \/ q \in KillTarget(k)]
  /\ state' = KillWakes(k)
  /\ pc' = [pc EXCEPT ![s] = IF s \in KillTarget(k) THEN "exit" ELSE "user"]
  /\ UNCHANGED <<pid, parent, chan, kstack, nextpid, ticks, ptlock, tklock, cpus, back, np,
                 ticks0, n>>

\* trap(): a fault in user space; init is assumed not to fault.
Fault(c, s) ==
  /\ At(c, s, "user")
  /\ s # initproc
  /\ killed' = [killed EXCEPT ![s] = TRUE]
  /\ pc' = [pc EXCEPT ![s] = "exit"]
  /\ UNCHANGED <<state, pid, parent, chan, kstack, nextpid, ticks, ptlock, tklock, cpus,
                 back, np, ticks0, n>>

-----------------------------------------------------------------------------
(* sys_sleep(), and the part of sleep() that trades tickslock for ptable.lock *)

\* init never makes this call.
SysSleep(c, s, k) ==
  /\ At(c, s, "user") /\ ~killed[s]
  /\ s # initproc
  /\ tklock = NoCpu
  /\ tklock' = c
  /\ ticks0' = [ticks0 EXCEPT ![s] = ticks]
  /\ n' = [n EXCEPT ![s] = k]
  /\ pc' = [pc EXCEPT ![s] = "sys_sleep"]
  /\ UNCHANGED <<table, ticks, ptlock, cpus, back, np>>

\* The unsigned subtraction of the loop condition.
Slept(s) == (ticks - ticks0[s]) % TICKMOD

StopSleeping(s) == Slept(s) >= n[s] \/ killed[s]

SysSleepDone(c, s) ==
  /\ At(c, s, "sys_sleep")
  /\ StopSleeping(s)
  /\ tklock' = NoCpu
  /\ ticks0' = [ticks0 EXCEPT ![s] = 0]
  /\ n' = [n EXCEPT ![s] = 0]
  /\ pc' = [pc EXCEPT ![s] = SysRet(s)]
  /\ UNCHANGED <<table, ticks, ptlock, cpus, back, np>>

\* Mutant: tickslock is released before sleep() takes ptable.lock.
LkBeforeSleep_Free == NoCpu

LkBeforeSleep == tklock

\* The loop decides to sleep; a kill() may still come before sleep() does.
SysSleepCheck(c, s) ==
  /\ At(c, s, "sys_sleep")
  /\ ~StopSleeping(s)
  /\ pc' = [pc EXCEPT ![s] = "sleep"]
  /\ tklock' = LkBeforeSleep
  /\ UNCHANGED <<table, ticks, ptlock, cpus, back, np, ticks0, n>>

LkInSleep == NoCpu

\* sleep(&ticks, &tickslock) up to its sched().
Sleep(c, s) ==
  /\ At(c, s, "sleep")
  /\ ptlock = NoCpu
  /\ ptlock' = c
  /\ tklock' = LkInSleep
  /\ chan' = [chan EXCEPT ![s] = TicksChan]
  /\ state' = [state EXCEPT ![s] = "SLEEPING"]
  /\ mode' = [mode EXCEPT ![c] = "sched"]
  /\ pc' = [pc EXCEPT ![s] = "awake"]
  /\ UNCHANGED <<pid, parent, killed, kstack, nextpid, ticks, proc, sp, found, intr, back, np,
                 ticks0, n>>

\* sleep() after its sched(): release(&ptable.lock).
Awake(c, s) ==
  /\ At(c, s, "awake")
  /\ chan' = [chan EXCEPT ![s] = 0]
  /\ ptlock' = NoCpu
  /\ pc' = [pc EXCEPT ![s] = "relock"]
  /\ UNCHANGED <<state, pid, parent, killed, kstack, nextpid, ticks, tklock, cpus, back, np,
                 ticks0, n>>

\* acquire(lk)
Relock(c, s) ==
  /\ At(c, s, "relock")
  /\ tklock = NoCpu
  /\ tklock' = c
  /\ pc' = [pc EXCEPT ![s] = "sys_sleep"]
  /\ UNCHANGED <<table, ticks, ptlock, cpus, back, np, ticks0, n>>

-----------------------------------------------------------------------------
(* trap() for a timer interrupt *)

\* Interrupts are off while the CPU holds a lock and inside trap().
TimerIntr(c) ==
  /\ intr[c] = "no"
  /\ mode[c] \in {"top", "halted", "run"}
  /\ ptlock # c /\ tklock # c
  /\ intr' = [intr EXCEPT ![c] = IF c = Cpu0 THEN "tick" ELSE "tail"]
  /\ UNCHANGED <<table, ticks, ptlock, tklock, proc, mode, sp, found, threads>>

Tick(c) ==
  /\ intr[c] = "tick"
  /\ tklock = NoCpu
  /\ tklock' = c
  /\ ticks' = (ticks + 1) % TICKMOD
  /\ intr' = [intr EXCEPT ![c] = "wakeup"]
  /\ UNCHANGED <<table, ptlock, proc, mode, sp, found, threads>>

TickWoken == Wakeup1(state, TicksChan)

\* wakeup(&ticks), release(&tickslock)
TickWakeup(c) ==
  /\ intr[c] = "wakeup"
  /\ ptlock = NoCpu
  /\ state' = TickWoken
  /\ tklock' = NoCpu
  /\ intr' = [intr EXCEPT ![c] = "tail"]
  /\ UNCHANGED <<pid, parent, killed, chan, kstack, nextpid, ticks, ptlock, proc, mode, sp,
                 found, threads>>

\* Back to scheduler(); an hlt() ends.
IntrIdle(c) ==
  /\ intr[c] = "tail"
  /\ proc[c] = NoProc
  /\ intr' = [intr EXCEPT ![c] = "no"]
  /\ mode' = [mode EXCEPT ![c] = "top"]
  /\ found' = [found EXCEPT ![c] = found[c] \/ mode[c] = "halted"]
  /\ UNCHANGED <<table, ticks, ptlock, tklock, proc, sp, threads>>

\* A killed process in user space exits.
IntrKilled(c, s) ==
  /\ intr[c] = "tail"
  /\ proc[c] = s
  /\ pc[s] = "user" /\ killed[s]
  /\ intr' = [intr EXCEPT ![c] = "no"]
  /\ pc' = [pc EXCEPT ![s] = "exit"]
  /\ UNCHANGED <<table, ticks, ptlock, tklock, proc, mode, sp, found, back, np, ticks0, n>>

\* yield() up to its sched().
Yield(c, s) ==
  /\ intr[c] = "tail"
  /\ proc[c] = s
  /\ ~(pc[s] = "user" /\ killed[s])
  /\ ptlock = NoCpu
  /\ ptlock' = c
  /\ state' = [state EXCEPT ![s] = "RUNNABLE"]
  /\ back' = [back EXCEPT ![s] = "yield"]
  /\ mode' = [mode EXCEPT ![c] = "sched"]
  /\ intr' = [intr EXCEPT ![c] = "no"]
  /\ UNCHANGED <<pid, parent, killed, chan, kstack, nextpid, ticks, tklock, proc, sp, found,
                 pc, np, ticks0, n>>

-----------------------------------------------------------------------------
\* scheduler(), and the end of a switch to a process.
SchedStep(c) ==
  SchedHalt(c) \/ SchedStart(c) \/ SchedSwitch(c) \/ SchedEnd(c) \/ Sched(c) \/ Resume(c)

\* trap(), once the timer has interrupted the CPU.
IntrStep(c) ==
  Tick(c) \/ TickWakeup(c) \/ IntrIdle(c) \/ \E s \in Slot : IntrKilled(c, s) \/ Yield(c, s)

Wait(c, s) == WaitReap(c, s) \/ WaitFail(c, s) \/ WaitSleep(c, s)

\* The kernel at work for a process.
KernelStep(c, s) ==
  \/ ForkFail(c, s) \/ ForkStack(c, s) \/ ForkCopy(c, s) \/ ForkRun(c, s)
  \/ Exit(c, s)
  \/ pc[s] = "wait" /\ Wait(c, s)
  \/ SysSleepDone(c, s) \/ SysSleepCheck(c, s) \/ Sleep(c, s) \/ Awake(c, s) \/ Relock(c, s)

CallWait(c, s) == pc[s] = "user" /\ Wait(c, s)

\* What a user program does: system calls, and faults.
UserStep(c, s) ==
  \/ KilledAtEntry(c, s)
  \/ Fork(c, s) \/ CallExit(c, s) \/ CallWait(c, s) \/ Fault(c, s)
  \/ \E k \in KillPids : Kill(c, s, k)
  \/ \E k \in SleepArgs : SysSleep(c, s, k)

Next ==
  \E c \in Cpu :
    \/ SchedStep(c) \/ TimerIntr(c) \/ IntrStep(c)
    \/ \E s \in Slot : KernelStep(c, s) \/ UserStep(c, s)

Spec == Init /\ [][Next]_vars

\* Every CPU keeps executing, and none loses the race for a spinlock, or to the
\* next timer interrupt, for ever; the timers keep ticking; init calls wait()
\* again and again (init.c).  User programs owe nothing.
Fairness ==
  /\ \A c \in Cpu : SF_vars(SchedStep(c)) /\ SF_vars(TimerIntr(c)) /\ SF_vars(IntrStep(c))
  /\ \A s \in Slot : SF_vars(\E c \in Cpu : KernelStep(c, s))
  /\ SF_vars(\E c \in Cpu : CallWait(c, initproc))

FairSpec == Spec /\ Fairness

-----------------------------------------------------------------------------
(* Properties *)

\* Every variable has its type.
TypeOK ==
  /\ state \in [Slot -> {"UNUSED", "EMBRYO", "SLEEPING", "RUNNABLE", "RUNNING", "ZOMBIE"}]
  /\ pid \in [Slot -> 0 .. MaxPid]
  /\ parent \in [Slot -> Slot \cup {NoProc}]
  /\ killed \in [Slot -> BOOLEAN]
  /\ chan \in [Slot -> 0 .. TicksChan]
  /\ kstack \in [Slot -> BOOLEAN]
  /\ nextpid \in 2 .. (MaxPid + 1)
  /\ ticks \in 0 .. (TICKMOD - 1)
  /\ ptlock \in Cpu \cup {NoCpu}
  /\ tklock \in Cpu \cup {NoCpu}
  /\ proc \in [Cpu -> Slot \cup {NoProc}]
  /\ mode \in [Cpu -> {"top", "halted", "scan", "run", "sched"}]
  /\ sp \in [Cpu -> 1 .. (NPROC + 1)]
  /\ found \in [Cpu -> BOOLEAN]
  /\ intr \in [Cpu -> {"no", "tick", "wakeup", "tail"}]
  /\ pc \in [Slot -> {"user", "allocproc", "fork", "forked", "exit", "zombie", "wait",
                      "sys_sleep", "sleep", "awake", "relock"}]
  /\ back \in [Slot -> {"no", "yield", "forkret"}]
  /\ np \in [Slot -> Slot \cup {NoProc}]
  /\ ticks0 \in [Slot -> 0 .. (TICKMOD - 1)]
  /\ n \in [Slot -> SleepArgs \cup {0}]

\* In well-typed states, a kernel stack is in use by one CPU at a time and never freed meanwhile:
\* wait() on one CPU cannot reap a zombie before the other CPU has left it in
\* sched().  It is freed with its slot, and every process has one.
StackLive ==
  /\ TypeOK
  /\ \A c, d \in Cpu : proc[c] # NoProc /\ proc[c] = proc[d] => c = d
  /\ \A s \in Slot : state[s] = "RUNNING" <=> \E c \in Cpu : mode[c] = "run" /\ proc[c] = s
  /\ \A c \in Cpu : proc[c] # NoProc => kstack[proc[c]]
  /\ \A s \in Slot :
       /\ state[s] = "UNUSED" => ~kstack[s]
       /\ state[s] \notin {"UNUSED", "EMBRYO"} => kstack[s]

\* ptable.lock travels with the switch: the scan has it, a process has it
\* exactly from its switch to the release() in yield(), forkret() or sleep(),
\* and user code never runs with it.
LockHandoff ==
  \A c \in Cpu :
    /\ mode[c] = "scan" => ptlock = c
    /\ mode[c] \in {"top", "halted"} => ptlock # c
    /\ mode[c] = "run" =>
         (ptlock = c <=> back[proc[c]] # "no" \/ pc[proc[c]] \in {"wait", "awake"})

\* Nobody is left without a parent that can wait() for it: exit() passes the
\* children of the dead to init.
ParentAlive ==
  \A s \in Slot \ {initproc} :
    state[s] \in {"SLEEPING", "RUNNABLE", "RUNNING", "ZOMBIE"} =>
      /\ parent[s] \in Slot
      /\ state[parent[s]] \in {"SLEEPING", "RUNNABLE", "RUNNING"}

\* No lost wakeup in wait(): a process asleep there has no zombie child,
\* its own or inherited.
NoMissedExit ==
  \A s \in Slot : state[s] = "SLEEPING" /\ chan[s] = s => Zombies(s) = {}

\* No lost wakeup in sleep(): between two ticks nobody is asleep whose time
\* has come.
NoMissedTick ==
  \A s \in Slot : state[s] = "SLEEPING" /\ chan[s] = TicksChan /\ tklock = NoCpu
                   => Slept(s) < n[s]

\* The scan of scheduler() starves nobody.
RunnableRuns == \A s \in Slot : state[s] = "RUNNABLE" ~> state[s] # "RUNNABLE"


\* init reaps every zombie that exit() passed to it, and every child of its own.
InitReaps ==
  \A s \in Slot \ {initproc} : state[s] = "ZOMBIE" /\ parent[s] = initproc ~> state[s] = "UNUSED"
=============================================================================
