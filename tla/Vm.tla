--------------------------------- MODULE Vm ---------------------------------
(***************************************************************************)
(* Memory of processes: the page allocator (kalloc.c), address spaces      *)
(* (vm.c), and the calls that build, grow and drop them: fork(), exec(),   *)
(* sbrk(), exit() with wait().  Every kalloc() may fail, because processes *)
(* compete for NPAGES pages.                                               *)
(*                                                                         *)
(* An action is one turn of a loop of vm.c.  The page for the table and    *)
(* the page it is to map are taken in one action; kalloc() gives the least *)
(* free page instead of the one freed last.  The page tables for the       *)
(* kernel's part of a space are one page, ktab.  Sizes and addresses count *)
(* PGSIZE to the page, modulo WORD.                                        *)
(***************************************************************************)
EXTENDS Integers, FiniteSets, FiniteSetsExt, TLC

CONSTANTS
  Proc, First,
  NPAGES,
  PGSIZE, NPTENTRIES,
  KERNBASE,     \* the end of user memory
  WORD,         \* 2^32
  Images,       \* sizes of programs, for exec()
  SbrkArgs

Page == 1 .. NPAGES
Vpn == 0 .. (KERNBASE \div PGSIZE) - 1
Tab == 0 .. (KERNBASE \div (PGSIZE * NPTENTRIES)) - 1

ASSUME VmAssumption ==
  /\ First \in Proc /\ PGSIZE > 0 /\ NPTENTRIES > 0 /\ NPAGES >= 5
  /\ KERNBASE % (PGSIZE * NPTENTRIES) = 0 /\ WORD = 2 * KERNBASE
  /\ \A n \in SbrkArgs : n \in -KERNBASE .. KERNBASE - 1

VARIABLES
  free,     \* kmem.freelist
  sp,       \* address spaces of a process: proc->pgdir, and one under
            \* construction or destruction
  sz,       \* proc->sz
  kstack,   \* proc->kstack
  th        \* of a process: the loop it is in and what comes after it

vars == <<free, sp, sz, kstack, th>>

NoSpace == [dir |-> 0, ktab |-> 0, tab |-> [t \in Tab |-> 0],
            pte |-> [i \in Vpn |-> 0]]
Idle == [pc |-> "user", then |-> "user", tgt |-> "cur", end |-> "user", a |-> 0, lim |-> 0, old |-> 0,
         child |-> First]
Unused == [Idle EXCEPT !.pc = "unused"]

\* userinit(): one page of initcode.
Init ==
  /\ free = 6 .. NPAGES
  /\ sp = [p \in Proc |-> [cur |-> IF p # First THEN NoSpace
                                   ELSE [dir |-> 1, ktab |-> 2,
                                         tab |-> [NoSpace.tab EXCEPT ![0] = 3],
                                         pte |-> [NoSpace.pte EXCEPT ![0] = 4]],
                           new |-> NoSpace]]
  /\ sz = [p \in Proc |-> IF p = First THEN PGSIZE ELSE 0]
  /\ kstack = [p \in Proc |-> IF p = First THEN 5 ELSE 0]
  /\ th = [p \in Proc |-> IF p = First THEN Idle ELSE Unused]

At(p, l) == th[p].pc = l
Go(p, r) == th' = [th EXCEPT ![p] = r @@ @]
Panic(p) == Go(p, [pc |-> "panic"])
PGROUNDUP(x) == ((x + PGSIZE - 1) \div PGSIZE) * PGSIZE
Space(p) == sp[p][th[p].tgt]
SetSpace(p, s) == sp' = [sp EXCEPT ![p][th[p].tgt] = s]

Mem == Min(free)

-----------------------------------------------------------------------------
(* setupkvm(): th.then is where it returns to *)

SetupDir(p) ==
  /\ At(p, "setupkvm") /\ Space(p).dir = 0
  /\ IF free = {} THEN Go(p, [pc |-> "failed"]) /\ UNCHANGED <<free, sp>>
     ELSE /\ free' = free \ {Mem}
          /\ SetSpace(p, [NoSpace EXCEPT !.dir = Mem])
          /\ UNCHANGED th
  /\ UNCHANGED <<sz, kstack>>

\* mappages() of the kernel; when it fails, what it had is not freed.
SetupTab(p) ==
  /\ At(p, "setupkvm") /\ Space(p).dir # 0
  /\ IF free = {} THEN /\ SetSpace(p, NoSpace)
                       /\ Go(p, [pc |-> "failed"])
                       /\ UNCHANGED free
     ELSE /\ free' = free \ {Mem}
          /\ SetSpace(p, [Space(p) EXCEPT !.ktab = Mem])
          /\ Go(p, [pc |-> th[p].then])
  /\ UNCHANGED <<sz, kstack>>

-----------------------------------------------------------------------------
(* Mapping a fresh page at address a: walkpgdir() and mappages() *)

NoTable(s, i) == s.tab[i \div NPTENTRIES] = 0

\* mappages() fails: there is a page for mem and none for its table.
MapFails(s, i) == NoTable(s, i) /\ free = {Mem}

Mapped(s, i) ==
  IF NoTable(s, i)
  THEN [s EXCEPT !.pte[i] = Mem, !.tab[i \div NPTENTRIES] = Min(free \ {Mem})]
  ELSE [s EXCEPT !.pte[i] = Mem]

Taken(s, i) == IF NoTable(s, i) THEN {Mem, Min(free \ {Mem})} ELSE {Mem}


\* deallocuvm(newsz, oldsz)
UndoFrom(p) == PGROUNDUP(th[p].old)

\* allocuvm(), from its loop on.  The result of mappages() is not looked at.
AllocPage(p) ==
  LET s == Space(p)
      i == th[p].a \div PGSIZE
  IN  /\ At(p, "allocuvm") /\ th[p].a < th[p].lim
      /\ IF free = {}
         THEN /\ Go(p, [pc |-> "deallocuvm", a |-> UndoFrom(p), then |-> "failed"])
              /\ UNCHANGED <<free, sp>>
         ELSE IF s.pte[i] # 0 THEN Panic(p) /\ UNCHANGED <<free, sp>>
         ELSE IF MapFails(s, i)
         THEN free' = {} /\ Go(p, [a |-> th[p].a + PGSIZE]) /\ UNCHANGED sp
         ELSE /\ free' = free \ Taken(s, i)
              /\ SetSpace(p, Mapped(s, i))
              /\ Go(p, [a |-> th[p].a + PGSIZE])
      /\ UNCHANGED <<sz, kstack>>

TooBig(new) == new >= KERNBASE

\* The start of allocuvm(old, new) for a call that continues at l.
StartAlloc(p, old, new, l, tgt) ==
  IF TooBig(new) THEN Go(p, [pc |-> "failed", tgt |-> tgt])
  ELSE Go(p, [pc |-> "allocuvm", then |-> l, tgt |-> tgt, a |-> PGROUNDUP(old),
              lim |-> new, old |-> old])

\* Mutant: the page stays mapped.
Unmapped_Kept(s, i) == s

Unmapped(s, i) == [s EXCEPT !.pte[i] = 0]

\* deallocuvm(); without a table it goes on NPTENTRIES pages further.
DeallocPage(p) ==
  LET s == Space(p)
      i == th[p].a \div PGSIZE
      pg == s.pte[i]
  IN  /\ At(p, "deallocuvm") /\ th[p].a < th[p].lim
      /\ IF NoTable(s, i)
         THEN Go(p, [a |-> th[p].a + NPTENTRIES * PGSIZE]) /\ UNCHANGED <<free, sp>>
         ELSE /\ Go(p, [a |-> th[p].a + PGSIZE])
              /\ free' = free \cup ({pg} \ {0})
              /\ SetSpace(p, IF pg = 0 THEN s ELSE Unmapped(s, i))
      /\ UNCHANGED <<sz, kstack>>

LoopDone(p) ==
  /\ th[p].pc \in {"allocuvm", "deallocuvm"} /\ th[p].a >= th[p].lim
  /\ Go(p, [pc |-> th[p].then])
  /\ UNCHANGED <<free, sp, sz, kstack>>

\* freevm() of the space tgt: deallocuvm(KERNBASE, 0), then the tables.
StartFreevm(p, tgt, l) ==
  Go(p, [pc |-> "deallocuvm", then |-> "freevm", end |-> l, tgt |-> tgt, a |-> 0,
         lim |-> KERNBASE])

\* Mutant: only the directory is freed.
Tables_None(s) == {s.dir}

Tables(s) == ({s.dir, s.ktab} \cup {s.tab[t] : t \in Tab}) \ {0}

FreeTables(p) ==
  /\ At(p, "freevm")
  /\ th' = [th EXCEPT ![p] = [Idle EXCEPT !.pc = th[p].end, !.child = th[p].child]]
  /\ free' = free \cup Tables(Space(p))
  /\ SetSpace(p, NoSpace)
  /\ UNCHANGED <<sz, kstack>>

-----------------------------------------------------------------------------
(* fork() and exit() *)

\* allocproc()
Fork(p, q) ==
  /\ At(p, "user") /\ At(q, "unused") /\ free # {}
  /\ kstack' = [kstack EXCEPT ![q] = Mem]
  /\ free' = free \ {Mem}
  /\ th' = [th EXCEPT ![p] = [pc |-> "setupkvm", then |-> "copyuvm", tgt |-> "new",
                              a |-> 0, child |-> q] @@ @,
                      ![q] = [Idle EXCEPT !.pc = "embryo"]]
  /\ UNCHANGED <<sp, sz>>

\* One turn of the loop of copyuvm().  When mappages() fails, mem is not freed.
CopyPage(p) ==
  LET i == th[p].a \div PGSIZE
      s == sp[p].new
  IN  /\ At(p, "copyuvm") /\ th[p].a < sz[p]
      /\ IF sp[p].cur.pte[i] = 0 THEN Panic(p) /\ UNCHANGED <<free, sp>>
         ELSE IF free = {} THEN StartFreevm(p, "new", "fork_bad") /\ UNCHANGED <<free, sp>>
         ELSE IF MapFails(s, i)
         THEN free' = {} /\ StartFreevm(p, "new", "fork_bad") /\ UNCHANGED sp
         ELSE /\ free' = free \ Taken(s, i)
              /\ SetSpace(p, Mapped(s, i))
              /\ Go(p, [a |-> th[p].a + PGSIZE])
      /\ UNCHANGED <<sz, kstack>>

ForkDone(p) ==
  LET q == th[p].child IN
  /\ At(p, "copyuvm") /\ th[p].a >= sz[p]
  /\ sp' = [sp EXCEPT ![q].cur = sp[p].new, ![p].new = NoSpace]
  /\ sz' = [sz EXCEPT ![q] = sz[p]]
  /\ th' = [th EXCEPT ![p] = Idle, ![q] = Idle]
  /\ UNCHANGED <<free, kstack>>

BadStack(q) == {kstack[q]}

ForkBad(p) ==
  LET q == th[p].child IN
  /\ At(p, "fork_bad")
  /\ free' = free \cup BadStack(q)
  /\ kstack' = [kstack EXCEPT ![q] = 0]
  /\ th' = [th EXCEPT ![p] = Idle, ![q] = Unused]
  /\ UNCHANGED <<sp, sz>>

\* exit() leaves the memory to wait(), which a parent calls.
Exit(p) ==
  /\ At(p, "user") /\ p # First
  /\ Go(p, [pc |-> "zombie"])
  /\ UNCHANGED <<free, sp, sz, kstack>>

Reap(p) ==
  /\ At(p, "zombie")
  /\ free' = free \cup {kstack[p]}
  /\ kstack' = [kstack EXCEPT ![p] = 0]
  /\ StartFreevm(p, "cur", "unused")
  /\ sz' = [sz EXCEPT ![p] = 0]
  /\ UNCHANGED sp

-----------------------------------------------------------------------------
(* growproc() *)

\* Mutant: the page that holds the new end is freed too.
FirstGone_Down(new) == (new \div PGSIZE) * PGSIZE

FirstGone(new) == PGROUNDUP(new)

Sbrk(p) ==
  /\ At(p, "user")
  /\ \E n \in SbrkArgs :
       LET new == (sz[p] + n + WORD) % WORD IN
       \/ n > 0 /\ StartAlloc(p, sz[p], new, "grow", "cur")
       \/ /\ n < 0 /\ new < sz[p]
          /\ Go(p, [pc |-> "deallocuvm", then |-> "shrink", tgt |-> "cur",
                    a |-> FirstGone(new), lim |-> sz[p], old |-> new])
  /\ UNCHANGED <<free, sp, sz, kstack>>

Grow(p) ==
  /\ At(p, "grow")
  /\ sz' = [sz EXCEPT ![p] = th[p].lim]
  /\ th' = [th EXCEPT ![p] = Idle]
  /\ UNCHANGED <<free, sp, kstack>>

\* A new size of 0 counts as a failure, and the size stays.
Shrink(p) ==
  /\ At(p, "shrink")
  /\ sz' = IF th[p].old = 0 THEN sz ELSE [sz EXCEPT ![p] = th[p].old]
  /\ th' = [th EXCEPT ![p] = Idle]
  /\ UNCHANGED <<free, sp, kstack>>

-----------------------------------------------------------------------------
(* exec() *)

Exec(p) ==
  /\ At(p, "user")
  /\ Go(p, [pc |-> "setupkvm", then |-> "exec_load", tgt |-> "new"])
  /\ UNCHANGED <<free, sp, sz, kstack>>

\* The program header: allocuvm(0, vaddr + memsz), if exec() does not give up.
ExecLoad(p) ==
  /\ At(p, "exec_load")
  /\ \E n \in Images : StartAlloc(p, 0, n, "exec_stack", "new")
  /\ UNCHANGED <<free, sp, sz, kstack>>

\* loaduvm() of the first n bytes meets a page without a table.
NoTableBelow(s, n) == \E i \in Vpn : i * PGSIZE < n /\ NoTable(s, i)

\* loaduvm() of the part that is in the file (filesz), then two pages more.  A
\* page that is missing while its table is there goes unnoticed.
ExecStack(p) ==
  LET top == PGROUNDUP(th[p].lim) IN
  /\ At(p, "exec_stack")
  /\ \E filesz \in {0, th[p].lim} :
       IF NoTableBelow(sp[p].new, filesz) THEN Panic(p)
       ELSE StartAlloc(p, top, top + 2 * PGSIZE, "exec_args", "new")
  /\ UNCHANGED <<free, sp, sz, kstack>>

\* clearpteu() panics without a table; uva2ka() then reads the entry at
\* address 0, and copyout() fails or writes somewhere.  A page whose table is
\* there is there too: the stack is mapped last.
NoStack(p) ==
  LET s == sp[p].new
      stack == (th[p].lim \div PGSIZE) - 1
  IN  \/ NoTable(s, stack - 1) /\ Panic(p)
      \/ /\ ~NoTable(s, stack - 1) /\ NoTable(s, stack)
         /\ Panic(p) \/ Go(p, [pc |-> "failed"])

\* clearpteu(), copyout(), and the commit to the new image.
ExecCommit(p) ==
  /\ At(p, "exec_args")
  /\ \/ NoStack(p) /\ UNCHANGED <<sp, sz>>
     \/ /\ ~NoTable(sp[p].new, (th[p].lim \div PGSIZE) - 2)
        /\ sp[p].new.pte[(th[p].lim \div PGSIZE) - 1] # 0
        /\ sp' = [sp EXCEPT ![p] = [cur |-> sp[p].new, new |-> sp[p].cur]]
        /\ sz' = [sz EXCEPT ![p] = th[p].lim]
        /\ StartFreevm(p, "new", "user")
  /\ UNCHANGED <<free, kstack>>

\* A bad file, too many arguments, or arguments that do not fit.
ExecBad(p) ==
  /\ th[p].pc \in {"exec_load", "exec_stack", "exec_args"}
  /\ Go(p, [pc |-> "failed"])
  /\ UNCHANGED <<free, sp, sz, kstack>>

\* allocuvm() or setupkvm() failed in fork() (before copyuvm()'s loop), in
\* exec(), or in growproc().
Failed(p) ==
  /\ At(p, "failed")
  /\ \/ /\ th[p].child # First
        /\ Go(p, [pc |-> "fork_bad"])
     \/ /\ th[p].child = First /\ sp[p].new.dir # 0
        /\ StartFreevm(p, "new", "user")
     \/ /\ th[p].child = First /\ sp[p].new.dir = 0
        /\ th' = [th EXCEPT ![p] = Idle]
  /\ UNCHANGED <<free, sp, sz, kstack>>

Halted == \E p \in Proc : th[p].pc = "panic"

Step(p) ==
  \/ SetupDir(p) \/ SetupTab(p) \/ AllocPage(p) \/ DeallocPage(p) \/ LoopDone(p)
  \/ FreeTables(p) \/ (\E q \in Proc : Fork(p, q)) \/ CopyPage(p) \/ ForkDone(p)
  \/ ForkBad(p) \/ Exit(p) \/ Reap(p) \/ Sbrk(p) \/ Grow(p) \/ Shrink(p)
  \/ Exec(p) \/ ExecLoad(p) \/ ExecStack(p) \/ ExecCommit(p) \/ ExecBad(p) \/ Failed(p)

Next == IF Halted THEN UNCHANGED vars ELSE \E p \in Proc : Step(p)

Spec == Init /\ [][Next]_vars

-----------------------------------------------------------------------------
(* Properties *)

\* The variables have their types.
TypeOK ==
  LET SpaceType == [dir : Page \cup {0}, ktab : Page \cup {0},
                    tab : [Tab -> Page \cup {0}], pte : [Vpn -> Page \cup {0}]]
  IN  /\ free \subseteq Page
      /\ sp \in [Proc -> [cur : SpaceType, new : SpaceType]]
      /\ sz \in [Proc -> 0 .. KERNBASE - 1]
      /\ kstack \in [Proc -> Page \cup {0}]

\* Every place that can hold a page: in the spaces of processes, their stacks.
Places ==
  {<<x, "dir", 0>> : x \in {"cur", "new"}} \cup {<<x, "ktab", 0>> : x \in {"cur", "new"}}
  \cup ({"cur", "new"} \X {"tab"} \X Tab) \cup ({"cur", "new"} \X {"pte"} \X Vpn)
  \cup {<<"cur", "kstack", 0>>}

PageAt(p, l) ==
  CASE l[2] = "kstack" -> kstack[p]
    [] l[2] \in {"dir", "ktab"} -> sp[p][l[1]][l[2]]
    [] OTHER -> sp[p][l[1]][l[2]][l[3]]

Uses == {u \in Proc \X Places : PageAt(u[1], u[2]) # 0}
InUse == {PageAt(u[1], u[2]) : u \in Uses}

\* A page has one use: it is free, a kernel stack, a directory, a table or a
\* page of one process, through every failure of kalloc().
OnePlace == TypeOK /\ Cardinality(InUse) = Cardinality(Uses) /\ InUse \cap free = {}

Lost == Page \ (InUse \cup free)

\* Pages are lost (by setupkvm(), allocuvm() and copyuvm() when mappages() fails)
\* only in a step that finds no free page; every other path gives back all it took.
LossNeedsShortage == [][Lost' # Lost => free' = {}]_vars

\* Page 0 is gone from a process whose sbrk() reached size 0: growproc() takes
\* that for a failure and keeps the size.
Emptied(p) == sz[p] > 0 /\ sp[p].cur.pte[0] = 0

=============================================================================
