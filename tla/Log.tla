-------------------------------- MODULE Log --------------------------------
(***************************************************************************)
(* The redo log of the file system (log.c), with crashes and recovery.     *)
(*                                                                         *)
(* A process brackets a file-system call with begin_op() and end_op() and  *)
(* passes each block it changes to log_write().  The last end_op() of a    *)
(* group commits: it copies the changed blocks to the log, writes the log  *)
(* header (the commit point), installs the blocks at home and erases the   *)
(* header.  A crash loses memory at any point; the first process to run    *)
(* after a boot executes initlog() before any other call (proc.c,          *)
(* forkret).                                                               *)
(*                                                                         *)
(* Block contents are members of Val.  A critical section under log.lock   *)
(* is one action; what the code does outside the lock is a step of its     *)
(* own: the two tests at the top of log_write() and every disk write of    *)
(* commit().  BSIZE is one disk sector, so a block write is atomic, and    *)
(* bwrite() returns when it is done, so writes reach the disk in program   *)
(* order.                                                                  *)
(***************************************************************************)
EXTENDS Naturals, Sequences, FiniteSets

CONSTANTS
  Proc,         \* processes that make file-system calls
  Boot,         \* the first process after a boot, while it runs initlog()
  Val,          \* block contents
  Zero,         \* the contents of a zeroed block
  NoBlock,      \* "holds no buffer"
  MAXOPBLOCKS,  \* param.h: log space begin_op() sets aside for one call
  LOGSIZE,      \* param.h: log space of one transaction
  NLOG,         \* sb.nlog: blocks of the on-disk log, its header included
  OPBLOCKS,     \* the most distinct blocks one call passes to log_write()
  FSSIZE        \* size of the file system in blocks

\* mkfs puts the log after the boot block and the super block.
logstart == 2

ASSUME LogAssumption ==
  /\ IsFiniteSet(Proc)
  /\ Boot \notin Proc
  /\ Zero \in Val
  /\ MAXOPBLOCKS \in Nat
  /\ LOGSIZE \in Nat
  /\ NLOG \in Nat
  /\ NLOG >= 1
  /\ OPBLOCKS \in Nat
  /\ FSSIZE \in Nat
  /\ NoBlock \notin Nat

Agent == Proc \cup {Boot}

\* The header is block logstart; the blocks behind it that this file system
\* uses are the log's data blocks and the home blocks.
LogBlock == (logstart + 1) .. (logstart + NLOG - 1)
Home == (logstart + NLOG) .. (FSSIZE - 1)
Block == LogBlock \cup Home

VARIABLES
  disk,         \* contents of every block but the log header
  head,         \* the log header on disk: the block numbers of a transaction
  cache,        \* contents of every block as bread() returns it
  lh,           \* log.lh: the blocks logged so far
  outstanding,  \* log.outstanding
  committing,   \* log.committing
  pc,           \* where each agent is
  held,         \* the buffer a process holds between its change and log_write
  wrote,        \* the blocks the current call of a process has logged
  tail          \* loop variable of write_log() and install_trans()

vars == <<disk, head, cache, lh, outstanding, committing, pc, held, wrote, tail>>

Logged == {lh[i] : i \in DOMAIN lh}

\* The state of memory after a boot, before initlog().
BootPC == [a \in Agent |-> IF a = Boot THEN "read_head" ELSE "user"]

\* mkfs writes an empty log and any file system behind it.
Init ==
  /\ disk \in [Block -> Val]
  /\ \A b \in LogBlock : disk[b] = Zero
  /\ head = <<>>
  /\ cache = disk
  /\ lh = <<>>
  /\ outstanding = 0
  /\ committing = FALSE
  /\ pc = BootPC
  /\ held = [p \in Proc |-> NoBlock]
  /\ wrote = [p \in Proc |-> {}]
  /\ tail = [a \in Agent |-> 0]

Up == pc[Boot] = "up"
Panic == [pc EXCEPT ![Boot] = "panic"]

-----------------------------------------------------------------------------
(* begin_op(), log_write() and end_op() *)

\* Mutant: calls are admitted during a commit.
MustWait_InCommit == Len(lh) + (outstanding + 1) * MAXOPBLOCKS > LOGSIZE

\* A commit is running, or this call might exhaust the log.
MustWait == committing \/ Len(lh) + (outstanding + 1) * MAXOPBLOCKS > LOGSIZE

BeginOpSleep(p) ==
  /\ Up
  /\ pc[p] \in {"user", "begin_op"}
  /\ MustWait
  /\ pc' = [pc EXCEPT ![p] = "sleep"]
  /\ UNCHANGED <<disk, head, cache, lh, outstanding, committing, held, wrote, tail>>

BeginOp(p) ==
  /\ Up
  /\ pc[p] \in {"user", "begin_op"}
  /\ ~MustWait
  /\ outstanding' = outstanding + 1
  /\ pc' = [pc EXCEPT ![p] = "op"]
  /\ UNCHANGED <<disk, head, cache, lh, committing, held, wrote, tail>>

\* The tests of log_write(), made before it takes log.lock.
TooBig == Len(lh) >= LOGSIZE \/ Len(lh) >= NLOG - 1

\* The caller has the buffer of block b, has changed it to v and enters
\* log_write().  No other process has the buffer (B_BUSY).
LogWrite(p, b, v) ==
  /\ Up
  /\ pc[p] = "op"
  /\ \A q \in Proc : held[q] # b
  /\ Cardinality(wrote[p] \cup {b}) <= OPBLOCKS
  /\ IF TooBig \/ outstanding < 1
     THEN pc' = Panic /\ UNCHANGED <<cache, held>>
     ELSE /\ pc' = [pc EXCEPT ![p] = "log_write"]
          /\ cache' = [cache EXCEPT ![b] = v]
          /\ held' = [held EXCEPT ![p] = b]
  /\ UNCHANGED <<disk, head, lh, outstanding, committing, wrote, tail>>

\* A block that is in the log already is not appended again.
Absorb(b) == IF b \in Logged THEN lh ELSE Append(lh, b)

\* The part of log_write() under log.lock, and the caller's brelse().
LogAppend(p) ==
  /\ Up
  /\ pc[p] = "log_write"
  /\ lh' = Absorb(held[p])
  /\ wrote' = [wrote EXCEPT ![p] = @ \cup {held[p]}]
  /\ held' = [held EXCEPT ![p] = NoBlock]
  /\ pc' = [pc EXCEPT ![p] = "op"]
  /\ UNCHANGED <<disk, head, cache, outstanding, committing, tail>>

\* Mutant: wakeup(&log) is forgotten.
Wakeup_None(p, l) == [pc EXCEPT ![p] = l]

\* wakeup(&log), after which p is at l.
Wakeup(p, l) ==
  [a \in Agent |-> IF a = p THEN l
                   ELSE IF pc[a] = "sleep" THEN "begin_op" ELSE pc[a]]

\* end_op() up to its first release(): the last call commits.
EndOp(p) ==
  /\ Up
  /\ pc[p] = "op"
  /\ outstanding' = outstanding - 1
  /\ wrote' = [wrote EXCEPT ![p] = {}]
  /\ IF committing
     THEN pc' = Panic /\ UNCHANGED committing
     ELSE IF outstanding = 1
     THEN /\ committing' = TRUE
          /\ pc' = [pc EXCEPT ![p] = IF lh = <<>> THEN "end_op" ELSE "write_log"]
     ELSE pc' = Wakeup(p, "user") /\ UNCHANGED committing
  /\ UNCHANGED <<disk, head, cache, lh, held, tail>>

-----------------------------------------------------------------------------
(* commit(): the steps of the process that ended the last call *)

\* One turn of the loop of write_log().
WriteLog(p) ==
  LET to == logstart + tail[p] + 1
      from == lh[tail[p] + 1]
  IN  /\ Up
      /\ pc[p] = "write_log"
      /\ tail[p] < Len(lh)
      /\ cache' = [cache EXCEPT ![to] = cache[from]]
      /\ disk' = [disk EXCEPT ![to] = cache[from]]
      /\ tail' = [tail EXCEPT ![p] = @ + 1]
      /\ UNCHANGED <<head, lh, outstanding, committing, pc, held, wrote>>

\* Mutant: the header is written before the log blocks.
LogWritten_Early(p) == TRUE

LogWritten(p) == tail[p] = Len(lh)

\* Mutant: commit() installs without a header on disk.
WriteHead_Skipped(p) ==
  /\ Up
  /\ pc[p] = "write_log"
  /\ LogWritten(p)
  /\ pc' = [pc EXCEPT ![p] = "install_trans"]
  /\ tail' = [tail EXCEPT ![p] = 0]
  /\ UNCHANGED <<disk, head, cache, lh, outstanding, committing, held, wrote>>

\* write_head(): the point at which the transaction commits.
WriteHead(p) ==
  /\ Up
  /\ pc[p] = "write_log"
  /\ LogWritten(p)
  /\ head' = lh
  /\ pc' = [pc EXCEPT ![p] = "install_trans"]
  /\ tail' = [tail EXCEPT ![p] = 0]
  /\ UNCHANGED <<disk, cache, lh, outstanding, committing, held, wrote>>

\* One turn of the loop of install_trans(), in commit() or in initlog().
InstallTrans(a) ==
  LET from == logstart + tail[a] + 1
      to == lh[tail[a] + 1]
  IN  /\ a = Boot \/ Up
      /\ pc[a] = "install_trans"
      /\ tail[a] < Len(lh)
      /\ cache' = [cache EXCEPT ![to] = cache[from]]
      /\ disk' = [disk EXCEPT ![to] = cache[from]]
      /\ tail' = [tail EXCEPT ![a] = @ + 1]
      /\ UNCHANGED <<head, lh, outstanding, committing, pc, held, wrote>>

Installed(a) == tail[a] = Len(lh)

\* log.lh.n = 0 and the second write_head().
EraseLog(a) ==
  /\ a = Boot \/ Up
  /\ pc[a] = "install_trans"
  /\ Installed(a)
  /\ lh' = <<>>
  /\ head' = <<>>
  /\ pc' = [pc EXCEPT ![a] = IF a = Boot THEN "up" ELSE "end_op"]
  /\ tail' = [tail EXCEPT ![a] = 0]
  /\ UNCHANGED <<disk, cache, outstanding, committing, held, wrote>>

\* The second critical section of end_op().
EndCommit(p) ==
  /\ Up
  /\ pc[p] = "end_op"
  /\ committing' = FALSE
  /\ pc' = Wakeup(p, "user")
  /\ UNCHANGED <<disk, head, cache, lh, outstanding, held, wrote, tail>>

-----------------------------------------------------------------------------
(* Crash and recovery *)

Crash ==
  /\ cache' = disk
  /\ lh' = <<>>
  /\ outstanding' = 0
  /\ committing' = FALSE
  /\ pc' = BootPC
  /\ held' = [p \in Proc |-> NoBlock]
  /\ wrote' = [p \in Proc |-> {}]
  /\ tail' = [a \in Agent |-> 0]
  /\ UNCHANGED <<disk, head>>

\* recover_from_log(): read_head(); InstallTrans(Boot) and EraseLog(Boot) are
\* the rest of it.
ReadHead ==
  /\ pc[Boot] = "read_head"
  /\ lh' = head
  /\ pc' = [pc EXCEPT ![Boot] = "install_trans"]
  /\ UNCHANGED <<disk, head, cache, outstanding, committing, held, wrote, tail>>

-----------------------------------------------------------------------------
Next ==
  \/ \E p \in Proc :
       \/ BeginOpSleep(p) \/ BeginOp(p) \/ LogAppend(p) \/ EndOp(p)
       \/ WriteLog(p) \/ WriteHead(p) \/ EndCommit(p)
  \/ \E p \in Proc, b \in Home, v \in Val : LogWrite(p, b, v)
  \/ \E a \in Agent : InstallTrans(a) \/ EraseLog(a)
  \/ ReadHead
  \/ Crash

Spec == Init /\ [][Next]_vars

\* A process woken in begin_op() tries again.
RetryBegin(p) == pc[p] = "begin_op" /\ (BeginOpSleep(p) \/ BeginOp(p))

\* A process inside begin_op(), log_write() or commit() keeps running, the
\* boot process finishes initlog(), and a file-system call is a finite piece
\* of code, so it reaches its end_op().
Fairness ==
  /\ \A p \in Proc :
       /\ WF_vars(RetryBegin(p))
       /\ WF_vars(LogAppend(p))
       /\ WF_vars(WriteLog(p) \/ WriteHead(p) \/ EndCommit(p))
       /\ SF_vars(EndOp(p))
  /\ \A a \in Agent : WF_vars(InstallTrans(a) \/ EraseLog(a))
  /\ WF_vars(ReadHead)

FairSpec == Spec /\ Fairness

-----------------------------------------------------------------------------
(* Properties *)

\* Every variable has its type.
TypeOK ==
  /\ disk \in [Block -> Val]
  /\ head \in Seq(Home)
  /\ cache \in [Block -> Val]
  /\ lh \in Seq(Home)
  /\ outstanding \in Nat
  /\ committing \in BOOLEAN
  /\ pc \in [Agent -> {"user", "begin_op", "sleep", "op", "log_write", "write_log",
                       "install_trans", "end_op", "read_head", "up", "panic"}]
  /\ held \in [Proc -> Home \cup {NoBlock}]
  /\ wrote \in [Proc -> SUBSET Home]
  /\ tail \in [Agent -> Nat]

\* No test of log_write() or end_op() panics: begin_op() admits a call only
\* when the blocks it may write still fit.
NoPanic == pc[Boot] # "panic"

\* The blocks of a transaction have room in lh.block[] and in the on-disk log,
\* although log_write() tests for room before it takes log.lock: write_log()
\* never reaches the blocks behind the log.
LogFits == Len(lh) <= LOGSIZE /\ Len(lh) <= NLOG - 1

InCall == {p \in Proc : pc[p] \in {"op", "log_write"}}
InCommit == {p \in Proc : pc[p] \in {"write_log", "install_trans", "end_op"}}

\* commit() runs in one process at a time and while no call is between
\* begin_op() and end_op(), so it never copies a half-finished call's blocks.
CommitAlone ==
  /\ committing <=> InCommit # {}
  /\ \A p, q \in InCommit : p = q
  /\ committing => InCall = {}

\* A process asleep in begin_op() is never forgotten: a call that will wake
\* it in end_op(), or a commit that will, is still to come.
SleeperHasWaker ==
  (\E p \in Proc : pc[p] = "sleep") => outstanding > 0 \/ committing

\* A home block that a step changes on disk is listed in the header on disk,
\* and gets the contents of its log block.
Ahead ==
  \A b \in Home : disk'[b] # disk[b] =>
    \E i \in DOMAIN head : head[i] = b /\ disk'[b] = disk[logstart + i]

\* Write-ahead: install_trans() is the only code that changes home blocks on
\* disk, after write_head() has made the transaction durable.
WriteAhead == [][Ahead]_vars

\* What initlog() makes of a disk d with log header h: a block listed in the
\* header is replaced by its log block.
Replay(d, h) ==
  [b \in Home |-> IF \E i \in DOMAIN h : h[i] = b
                  THEN d[logstart + (CHOOSE i \in DOMAIN h : h[i] = b)]
                  ELSE d[b]]

Recovered == Replay(disk, head)

\* The contents the file system works on.
Working ==
  IF pc[Boot] \in {"up", "panic"} THEN [b \in Home |-> cache[b]] ELSE Recovered

TD == INSTANCE TxnDisk WITH durable <- Recovered, mem <- Working, active <- InCall

\* Crash atomicity: commit(), a crash at any point of it and recovery, also
\* an interrupted one, implement a disk whose durable image changes in one
\* step, to an image in which every call is either complete or absent.
CrashAtomic == TD!Spec

\* A process asleep in begin_op() wakes up.
SleepersWake == \A p \in Proc : pc[p] = "sleep" ~> pc[p] # "sleep"
=============================================================================
