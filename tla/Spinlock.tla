------------------------------ MODULE Spinlock ------------------------------
(***************************************************************************)
(* Spinlocks and the interrupt flag of every CPU (spinlock.c).  A lock is  *)
(* held by a CPU; pushcli() and popcli() nest, and the outermost pushcli() *)
(* remembers whether interrupts were on.  The module that uses it says     *)
(* where its code calls acquire() and release().                           *)
(***************************************************************************)
EXTENDS Integers

CONSTANTS Cpu, NoCpu, Lock

VARIABLES
  holder,   \* struct spinlock: locked and cpu
  cpu       \* struct cpu: ncli, intena, and FL_IF of its eflags

LockInit ==
  /\ holder = [k \in Lock |-> NoCpu]
  /\ cpu = [c \in Cpu |-> [ncli |-> 0, intena |-> FALSE, fl |-> TRUE]]

\* Mutant: every pushcli() remembers the flag.
Intena_Every(x) == x.fl

Intena(x) == IF x.ncli = 0 THEN x.fl ELSE x.intena

\* Mutant: interrupts stay as they are.
pushcli_NoCli(x) == [ncli |-> x.ncli + 1, intena |-> Intena(x), fl |-> x.fl]

pushcli(x) == [ncli |-> x.ncli + 1, intena |-> Intena(x), fl |-> FALSE]

popcli(x) ==
  [x EXCEPT !.ncli = @ - 1, !.fl = @ \/ (x.ncli = 1 /\ x.intena)]

\* acquire() up to the loop.
Acquiring(c) == cpu' = [cpu EXCEPT ![c] = pushcli(@)]

\* The xchg that ends the loop.
Acquired(c, k) == holder[k] = NoCpu /\ holder' = [holder EXCEPT ![k] = c]

Released(c, k) == holder' = [holder EXCEPT ![k] = NoCpu] /\ cpu' = [cpu EXCEPT ![c] = popcli(@)]
=============================================================================
