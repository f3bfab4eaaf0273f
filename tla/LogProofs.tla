----------------------------- MODULE LogProofs -----------------------------
(***************************************************************************)
(* Proofs about Log for every number of processes, every size of the log   *)
(* and of the file system and every value of a block.                      *)
(*                                                                         *)
(* The theorems hold when the reservation of begin_op() is sound (Roomy):  *)
(* a call logs fewer blocks than the MAXOPBLOCKS set aside for it, and the *)
(* log on disk has LOGSIZE blocks, its header included, as mkfs makes it.  *)
(* With OPBLOCKS = MAXOPBLOCKS the log overflows: see the runs log_full    *)
(* and log_race.                                                           *)
(***************************************************************************)
EXTENDS LogData

-----------------------------------------------------------------------------
(* The invariant, and what follows from it *)

LEMMA Inductive ==
  ASSUME Roomy
  PROVE  Spec => []IInv
<1>1. Init => IInv
  BY TypeInit, ControlInit, SpaceInit, DataInit DEF IInv
<1>2. IInv /\ [Next]_vars => IInv'
  BY TypeStep, ControlStep, SpaceStep, DataStep DEF IInv
<1>3. QED
  BY <1>1, <1>2, PTL DEF Spec

\* Every variable of the log keeps its type: no index into lh.block[] or into
\* the on-disk log goes astray in write_log() or install_trans().
THEOREM TypeCorrect ==
  ASSUME Roomy
  PROVE  Spec => []TypeOK
BY Inductive, PTL DEF IInv

\* log_write() never overflows the log, although it tests for room without
\* holding log.lock: the reservation of begin_op() alone keeps it in bounds.
THEOREM LogNeverOverflows ==
  ASSUME Roomy
  PROVE  Spec => []LogFits
<1>1. IInv => LogFits
  <2> SUFFICES ASSUME IInv PROVE LogFits
    OBVIOUS
  <2>1. Len(lh) \in Nat /\ (lh = <<>> => Len(lh) = 0)
    BY DEF IInv, TypeOK
  <2>2. QED
    BY <2>1, LogAssumption DEF IInv, Space, Roomy, LogFits
<1>2. QED
  BY <1>1, Inductive, PTL

\* commit() runs alone: one process, and no call in progress.
THEOREM CommitRunsAlone ==
  ASSUME Roomy
  PROVE  Spec => []CommitAlone
BY Inductive, PTL DEF IInv, Control

-----------------------------------------------------------------------------
(* Log implements TxnDisk *)

\* Two disks with the same log blocks for h and the same other home blocks
\* recover to the same image.
LEMMA ReplaySame ==
  ASSUME NEW d, NEW e, NEW h,
         \A i \in DOMAIN h : d[logstart + i] = e[logstart + i],
         \A b \in Home : (\A i \in DOMAIN h : h[i] # b) => d[b] = e[b]
  PROVE  Replay(d, h) = Replay(e, h)
BY DEF Replay

\* The image a disk recovers to.
LEMMA ReplayIs ==
  ASSUME NEW d, NEW h, NEW f, Distinct(h),
         \A i \in DOMAIN h : f[h[i]] = d[logstart + i],
         \A b \in Home : (\A i \in DOMAIN h : h[i] # b) => f[b] = d[b]
  PROVE  Replay(d, h) = [b \in Home |-> f[b]]
<1> SUFFICES ASSUME NEW b \in Home, NEW i \in DOMAIN h, h[i] = b
             PROVE  f[b] = d[logstart + (CHOOSE j \in DOMAIN h : h[j] = b)]
  BY DEF Replay
<1>1. (CHOOSE j \in DOMAIN h : h[j] = b) = i
  BY DEF Distinct
<1>2. QED
  BY <1>1

LEMMA RefineInit == Init => TD!Init
<1> SUFFICES ASSUME Init PROVE TD!Init
  OBVIOUS
<1>1. pc[Boot] = "read_head" /\ \A p \in Proc : pc[p] = "user"
  BY LogAssumption DEF Init, BootPC, Agent
<1>2. Working = Recovered /\ InCall = {}
  BY <1>1 DEF Working, InCall
<1>3. Recovered = [b \in Home |-> disk[b]]
  BY DEF Init, Recovered, Replay
<1>4. Recovered \in [Home -> Val]
  BY <1>3, Layout DEF Init
<1>5. QED
  BY <1>2, <1>4 DEF TD!Init

LEMMA RefineWriteHead ==
  ASSUME IInv, NEW p \in Proc, WriteHead(p)
  PROVE  TD!Commit
<1>0. TypeOK /\ Control /\ Data /\ Up /\ Boot \notin Proc /\ p \in Agent
  BY LogAssumption DEF IInv, WriteHead, Agent
<1>1. InCall = {} /\ \A q \in Proc : held[q] = NoBlock
  BY <1>0, CommitterAlone DEF WriteHead
<1>2. InCall' = InCall
  BY <1>0 DEF WriteHead, InCall, TypeOK
<1>3. \A i \in DOMAIN lh : cache[lh[i]] = disk[logstart + i]
  BY <1>0 DEF WriteHead, LogWritten, Data, TypeOK
<1>4. \A b \in Home : (\A i \in DOMAIN lh : lh[i] # b) => cache[b] = disk[b]
  BY <1>0, <1>1, Layout DEF Data, Logged, Running, Up
<1>5. Replay(disk, lh) = [b \in Home |-> cache[b]]
  BY <1>0, <1>3, <1>4, ReplayIs DEF Data
<1>6. Working = [b \in Home |-> cache[b]] /\ Working' = Working
  BY <1>0 DEF WriteHead, Working, Up, TypeOK
<1>7. Recovered' = Working
  BY <1>5, <1>6 DEF WriteHead, Recovered
<1>8. QED
  BY <1>1, <1>2, <1>6, <1>7 DEF TD!Commit

LEMMA RefineWriteLog ==
  ASSUME IInv, Roomy, NEW p \in Proc, WriteLog(p)
  PROVE  UNCHANGED TD!vars
<1> DEFINE to == logstart + (tail[p] + 1)
<1>0. TypeOK /\ Control /\ Space /\ Data /\ Up /\ p \in Agent
  BY DEF IInv, WriteLog, Agent
<1>1. tail[p] + 1 \in 1 .. Len(lh) /\ logstart + tail[p] + 1 = to
  BY <1>0 DEF WriteLog, TypeOK, logstart
<1>2. to \in LogBlock
  BY <1>0, <1>1, Slots
<1>3. \A b \in Home : disk'[b] = disk[b] /\ cache'[b] = cache[b]
  BY <1>0, <1>1, <1>2, Layout DEF WriteLog, TypeOK
<1>4. head = <<>>
  BY <1>0, CommitterAlone DEF WriteLog, Data, Running, Up, Agent
<1>5. Recovered' = Recovered
  <2>1. Replay(disk', <<>>) = Replay(disk, <<>>)
    BY <1>3, ReplaySame
  <2>2. QED
    BY <1>4, <2>1 DEF WriteLog, Recovered
<1>6. Working' = Working
  BY <1>0, <1>3 DEF WriteLog, Working, Up
<1>7. InCall' = InCall
  BY DEF WriteLog, InCall
<1>8. QED
  BY <1>5, <1>6, <1>7 DEF TD!vars

LEMMA RefineInstall ==
  ASSUME IInv, Roomy, NEW a \in Agent, InstallTrans(a)
  PROVE  UNCHANGED TD!vars
<1> DEFINE from == logstart + (tail[a] + 1)
           to == lh[tail[a] + 1]
<1>0. TypeOK /\ Control /\ Space /\ Data /\ Boot \notin Proc
  BY LogAssumption DEF IInv
<1>1. /\ tail[a] + 1 \in DOMAIN lh
      /\ logstart + tail[a] + 1 = from
      /\ from \in LogBlock
      /\ to \in Home
  <2>1. tail[a] + 1 \in 1 .. Len(lh) /\ logstart + tail[a] + 1 = from
    BY <1>0 DEF InstallTrans, TypeOK, logstart
  <2>2. QED
    BY <1>0, <2>1, Slots DEF TypeOK
<1>2. /\ disk' = [disk EXCEPT ![to] = cache[from]]
      /\ cache' = [cache EXCEPT ![to] = cache[from]]
      /\ head' = head /\ pc' = pc /\ lh' = lh
      /\ head = lh
  BY <1>0, <1>1 DEF InstallTrans, Data
<1>3. \A b \in Block : b # to => disk'[b] = disk[b] /\ cache'[b] = cache[b]
  BY <1>0, <1>2 DEF TypeOK
<1>4. \A i \in DOMAIN lh : disk'[logstart + i] = disk[logstart + i]
  BY <1>0, <1>1, <1>3, Slots, Layout
<1>5. Recovered' = Recovered
  <2>1. \A b \in Home : (\A i \in DOMAIN lh : lh[i] # b) => disk'[b] = disk[b]
    BY <1>1, <1>3, Layout
  <2>2. Replay(disk', lh) = Replay(disk, lh)
    BY <1>4, <2>1, ReplaySame
  <2>3. QED
    BY <1>2, <2>2 DEF Recovered
<1>6. Working' = Working
  <2>1. CASE a = Boot
    BY <1>2, <1>5, <2>1 DEF InstallTrans, Working
  <2>2. CASE a # Boot
    <3>1. a \in Proc /\ Up
      BY <2>2 DEF InstallTrans, Agent
    <3>2. cache[from] = disk[from] /\ disk[from] = cache[to]
      BY <1>0, <1>1, <3>1 DEF InstallTrans, Data
    <3>3. \A b \in Home : cache'[b] = cache[b]
      BY <1>0, <1>1, <1>2, <1>3, <3>2, Layout DEF TypeOK
    <3>4. QED
      BY <1>2, <3>1, <3>3 DEF Working, Up
  <2>3. QED
    BY <2>1, <2>2
<1>7. InCall' = InCall
  BY <1>2 DEF InCall
<1>8. QED
  BY <1>5, <1>6, <1>7 DEF TD!vars

LEMMA RefineErase ==
  ASSUME IInv, Roomy, NEW a \in Agent, EraseLog(a)
  PROVE  UNCHANGED TD!vars
<1>0. TypeOK /\ Control /\ Space /\ Data /\ Boot \notin Proc
  BY LogAssumption DEF IInv
<1>1. \A b \in Home : cache[b] = disk[b]
  BY DataErase
<1>2. \A i \in DOMAIN lh : disk[lh[i]] = disk[logstart + i]
  BY <1>0, Slots DEF EraseLog, Installed, Data
<1>3. Replay(disk, lh) = [b \in Home |-> disk[b]]
  BY <1>0, <1>2, ReplayIs DEF Data
<1>4. Replay(disk, <<>>) = [b \in Home |-> disk[b]]
  BY DEF Replay
<1>5. Recovered = [b \in Home |-> disk[b]] /\ Recovered' = Recovered
  BY <1>0, <1>3, <1>4 DEF EraseLog, Data, Recovered
<1>6. [b \in Home |-> cache[b]] = [b \in Home |-> disk[b]]
  BY <1>1
<1>7. pc'[Boot] = "up" /\ pc[Boot] \in {"up", "install_trans"}
  BY <1>0 DEF EraseLog, Up, TypeOK, Agent
<1>8. Working' = Working
  BY <1>5, <1>6, <1>7 DEF EraseLog, Working
<1>9. InCall' = InCall
  BY <1>0 DEF EraseLog, InCall, TypeOK
<1>10. QED
  BY <1>5, <1>8, <1>9 DEF TD!vars

LEMMA RefineStep ==
  ASSUME IInv, Roomy, [Next]_vars
  PROVE  [TD!Next]_(TD!vars)
<1> USE DEF Agent
<1>0. TypeOK /\ Control /\ Data /\ Boot \notin Proc
  BY LogAssumption DEF IInv
<1>1. ASSUME NEW p \in Proc, BeginOpSleep(p) PROVE UNCHANGED TD!vars
  <2>1. InCall' = InCall
    BY <1>0, <1>1 DEF BeginOpSleep, InCall, TypeOK
  <2>2. Recovered' = Recovered /\ Working' = Working
    BY <1>0, <1>1 DEF BeginOpSleep, Recovered, Working, Up, TypeOK
  <2>3. QED
    BY <2>1, <2>2 DEF TD!vars
<1>2. ASSUME NEW p \in Proc, BeginOp(p) PROVE TD!Begin(p)
  <2>1. InCall' = InCall \cup {p} /\ p \notin InCall
    BY <1>0, <1>2 DEF BeginOp, InCall, TypeOK
  <2>2. Recovered' = Recovered /\ Working' = Working
    BY <1>0, <1>2 DEF BeginOp, Recovered, Working, Up, TypeOK
  <2>3. QED
    BY <2>1, <2>2 DEF TD!Begin
<1>3. ASSUME NEW p \in Proc, LogAppend(p) PROVE UNCHANGED TD!vars
  <2>1. InCall' = InCall
    BY <1>0, <1>3 DEF LogAppend, InCall, TypeOK
  <2>2. Recovered' = Recovered /\ Working' = Working
    BY <1>0, <1>3 DEF LogAppend, Recovered, Working, Up, TypeOK
  <2>3. QED
    BY <2>1, <2>2 DEF TD!vars
<1>4. ASSUME NEW p \in Proc, EndOp(p) PROVE TD!End(p)
  <2>1. p \in InCall /\ ~committing
    BY <1>0, <1>4 DEF EndOp, InCall, Control, CommitAlone
  <2>2. InCall' = InCall \ {p}
    BY <1>0, <1>4, <2>1 DEF EndOp, InCall, Wakeup, TypeOK
  <2>3. pc'[Boot] = pc[Boot]
    BY <1>0, <1>4, <2>1 DEF EndOp, Wakeup, Up, TypeOK
  <2>4. Recovered' = Recovered /\ Working' = Working
    BY <1>4, <2>3 DEF EndOp, Recovered, Working, Up
  <2>5. QED
    BY <2>1, <2>2, <2>4 DEF TD!End
<1>5. ASSUME NEW p \in Proc, EndCommit(p) PROVE UNCHANGED TD!vars
  <2>1. InCall' = InCall
    BY <1>0, <1>5 DEF EndCommit, Wakeup, InCall, TypeOK
  <2>2. pc'[Boot] = pc[Boot]
    BY <1>0, <1>5 DEF EndCommit, Wakeup, Up, TypeOK
  <2>3. Recovered' = Recovered /\ Working' = Working
    BY <1>5, <2>2 DEF EndCommit, Recovered, Working, Up
  <2>4. QED
    BY <2>1, <2>3 DEF TD!vars
<1>6. ASSUME NEW p \in Proc, NEW b \in Home, NEW v \in Val, LogWrite(p, b, v)
      PROVE  TD!Write(p, b, v) \/ UNCHANGED TD!vars
  <2>1. InCall' = InCall /\ p \in InCall
    BY <1>0, <1>6 DEF LogWrite, InCall, Panic, TypeOK
  <2>2. Recovered' = Recovered
    BY <1>6 DEF LogWrite, Recovered
  <2>3. pc[Boot] = "up" /\ pc'[Boot] \in {"up", "panic"}
    BY <1>0, <1>6 DEF LogWrite, Panic, Up, TypeOK
  <2>4. Working = [c \in Home |-> cache[c]] /\ Working' = [c \in Home |-> cache'[c]]
    BY <2>3 DEF Working
  <2>5. CASE cache' = cache
    BY <2>1, <2>2, <2>4, <2>5 DEF TD!vars
  <2>6. CASE cache' = [cache EXCEPT ![b] = v]
    <3>1. Working' = [Working EXCEPT ![b] = v]
      BY <1>0, <2>4, <2>6, Layout DEF TypeOK
    <3>2. QED
      BY <2>1, <2>2, <3>1 DEF TD!Write
  <2>7. QED
    BY <1>6, <2>5, <2>6 DEF LogWrite
<1>7. CASE ReadHead
  <2>1. InCall' = InCall
    BY <1>0, <1>7 DEF ReadHead, InCall, TypeOK
  <2>2. Recovered' = Recovered /\ Working' = Working
    BY <1>0, <1>7 DEF ReadHead, Recovered, Working, TypeOK
  <2>3. QED
    BY <2>1, <2>2 DEF TD!vars
<1>8. CASE Crash
  <2>1. /\ pc'[Boot] = "read_head"
        /\ InCall' = {}
    BY <1>0, <1>8 DEF Crash, BootPC, InCall
  <2>2. Recovered' = Recovered /\ Working' = Recovered'
    BY <1>8, <2>1 DEF Crash, Recovered, Working
  <2>3. TD!Crash
    BY <2>1, <2>2 DEF TD!Crash
  <2>4. QED
    BY <2>3 DEF TD!Next
<1>9. CASE UNCHANGED vars
  BY <1>9 DEF vars, TD!vars, Recovered, Working, InCall
<1>10. QED
  BY <1>1, <1>2, <1>3, <1>4, <1>5, <1>6, <1>7, <1>8, <1>9,
     RefineWriteHead, RefineWriteLog, RefineInstall, RefineErase
  DEF Next, TD!Next

\* Crash atomicity for every instance: log.c, with crashes at any point and
\* recovery, implements a disk on which complete groups of calls become
\* durable in one step.
THEOREM LogIsCrashAtomic ==
  ASSUME Roomy
  PROVE  Spec => CrashAtomic
<1>1. Init => TD!Init
  BY RefineInit
<1>2. IInv /\ [Next]_vars => [TD!Next]_(TD!vars)
  BY RefineStep
<1>3. QED
  BY <1>1, <1>2, Inductive, PTL DEF Spec, CrashAtomic, TD!Spec

\* The write-ahead rule for every instance: install_trans() is the only code
\* that changes a home block on disk, and only after the header lists it.
THEOREM LogWritesAhead ==
  ASSUME Roomy
  PROVE  Spec => WriteAhead
<1>1. IInv /\ [Next]_vars => [Ahead]_vars
  <2> SUFFICES ASSUME IInv, Next PROVE Ahead
    OBVIOUS
  <2>0. TypeOK /\ Space /\ Data
    BY DEF IInv
  <2>1. CASE disk' = disk
    BY <2>1 DEF Ahead
  <2>2. ASSUME NEW p \in Proc, WriteLog(p) PROVE Ahead
    <3>1. /\ tail[p] + 1 \in 1 .. Len(lh)
          /\ logstart + tail[p] + 1 = logstart + (tail[p] + 1)
      BY <2>0, <2>2 DEF WriteLog, TypeOK, Agent, logstart
    <3>2. logstart + (tail[p] + 1) \in LogBlock
      BY <2>0, <3>1, Slots
    <3>3. \A b \in Home : disk'[b] = disk[b]
      BY <2>0, <2>2, <3>1, <3>2, Layout DEF WriteLog, TypeOK
    <3>4. QED
      BY <3>3 DEF Ahead
  <2>3. ASSUME NEW a \in Agent, InstallTrans(a) PROVE Ahead
    <3>1. tail[a] + 1 \in 1 .. Len(lh) /\ logstart + tail[a] + 1 = logstart + (tail[a] + 1)
      BY <2>0, <2>3 DEF InstallTrans, TypeOK, logstart
    <3>2. /\ logstart + (tail[a] + 1) \in LogBlock
          /\ tail[a] + 1 \in DOMAIN lh
          /\ lh[tail[a] + 1] \in Home
      BY <2>0, <3>1, Slots DEF TypeOK
    <3>3. head = lh /\ cache[logstart + (tail[a] + 1)] = disk[logstart + (tail[a] + 1)]
      BY <2>0, <2>3, <3>2 DEF InstallTrans, Data
    <3>4. disk' = [disk EXCEPT ![lh[tail[a] + 1]] = disk[logstart + (tail[a] + 1)]]
      BY <2>3, <3>1, <3>3 DEF InstallTrans
    <3>5. \A b \in Home : b # lh[tail[a] + 1] => disk'[b] = disk[b]
      BY <2>0, <3>4, Layout DEF TypeOK
    <3>6. disk'[lh[tail[a] + 1]] = disk[logstart + (tail[a] + 1)]
      BY <2>0, <3>2, <3>4, Layout DEF TypeOK
    <3>7. QED
      BY <3>2, <3>3, <3>5, <3>6 DEF Ahead
  <2>4. QED
    BY <2>1, <2>2, <2>3
    DEF Next, BeginOpSleep, BeginOp, LogAppend, EndOp, WriteHead, EndCommit, LogWrite,
        EraseLog, ReadHead, Crash
<1>2. QED
  BY <1>1, Inductive, PTL DEF Spec, WriteAhead

-----------------------------------------------------------------------------
(* Panics and sleepers *)

\* No panic of log_write() or end_op() fires when a call keeps two blocks
\* below its reservation: one because sb.nlog counts the header, one because
\* log_write() demands a free block even when it will absorb the write.
THEOREM LogNeverPanics ==
  ASSUME Roomy, OPBLOCKS + 2 <= MAXOPBLOCKS
  PROVE  Spec => []NoPanic
<1>1. Init => NoPanic
  BY LogAssumption DEF Init, BootPC, NoPanic, Agent
<1>2. IInv /\ NoPanic /\ [Next]_vars => NoPanic'
  <2> SUFFICES ASSUME IInv, NoPanic, [Next]_vars PROVE NoPanic'
    OBVIOUS
  <2> USE DEF Agent
  <2>0. TypeOK /\ Control /\ Space /\ Boot \notin Proc
    BY LogAssumption DEF IInv
  <2>1. ASSUME NEW p \in Proc, NEW b \in Home, NEW v \in Val, LogWrite(p, b, v)
        PROVE  NoPanic'
    <3> DEFINE t == <<p, MAXOPBLOCKS>>
               u == <<p, MAXOPBLOCKS - 1>>
    <3>1. p \in InCall
      BY <2>1 DEF LogWrite, InCall
    <3>2. /\ Cardinality(wrote[p]) \in Nat
          /\ Cardinality(wrote[p]) <= OPBLOCKS
      BY <2>0, FS_CardinalityType DEF Space
    <3>3. t \in Credits /\ u \in Credits /\ t # u
      BY <3>1, <3>2, LogAssumption DEF Credits
    <3>4. Cardinality({t, u}) = 2
      <4>1. IsFiniteSet({t}) /\ Cardinality({t}) = 1
        BY FS_Singleton
      <4>2. {t, u} = {t} \cup {u} /\ u \notin {t}
        BY <3>3
      <4>3. Cardinality({t} \cup {u}) = Cardinality({t}) + 1
        BY <4>1, <4>2, FS_AddElement
      <4>4. QED
        BY <4>1, <4>2, <4>3
    <3>5. Cardinality(Credits) >= 2
      <4>1. {t, u} \in SUBSET Credits
        BY <3>3
      <4>2. Cardinality({t, u}) <= Cardinality(Credits)
        BY <4>1, Finite, FS_Subset
      <4>3. QED
        BY <3>4, <4>2, Finite
    <3>6. ~TooBig
      BY <2>0, <3>5, Finite, LogAssumption DEF TooBig, Space, TypeOK, Roomy
    <3>7. ~(outstanding < 1)
      BY <2>0, <3>1, Finite, FS_EmptySet DEF Control
    <3>8. QED
      BY <2>0, <2>1, <3>6, <3>7 DEF LogWrite, NoPanic, TypeOK, Up
  <2>2. ASSUME NEW p \in Proc, EndOp(p) PROVE NoPanic'
    <3>1. ~committing
      BY <2>0, <2>2 DEF EndOp, Control, CommitAlone, InCall
    <3>2. QED
      BY <2>0, <2>2, <3>1 DEF EndOp, Wakeup, NoPanic, TypeOK, Up
  <2>3. ASSUME NEW p \in Proc,
               BeginOpSleep(p) \/ BeginOp(p) \/ LogAppend(p) \/ WriteLog(p) \/ WriteHead(p)
        PROVE  NoPanic'
    BY <2>0, <2>3 DEF BeginOpSleep, BeginOp, LogAppend, WriteLog, WriteHead, NoPanic, TypeOK
  <2>4. ASSUME NEW p \in Proc, EndCommit(p) PROVE NoPanic'
    BY <2>0, <2>4 DEF EndCommit, Wakeup, NoPanic, Up, TypeOK
  <2>5. ASSUME NEW a \in Agent, InstallTrans(a) \/ EraseLog(a) PROVE NoPanic'
    BY <2>0, <2>5 DEF InstallTrans, EraseLog, NoPanic, TypeOK
  <2>6. CASE ReadHead \/ Crash \/ UNCHANGED vars
    BY <2>0, <2>6 DEF ReadHead, Crash, BootPC, vars, NoPanic, TypeOK
  <2>7. QED
    BY <2>1, <2>2, <2>3, <2>4, <2>5, <2>6 DEF Next
<1>3. QED
  BY <1>1, <1>2, Inductive, PTL DEF Spec

\* A log that nobody uses and nobody commits is empty, so a call that finds it
\* so need not wait.
QuietLog == Running /\ ~committing /\ outstanding = 0 => lh = <<>>

\* No process sleeps in begin_op() with nobody left to wake it: the wakeup()
\* calls of end_op() miss nobody.
THEOREM LogForgetsNoSleeper ==
  ASSUME Roomy, MAXOPBLOCKS <= LOGSIZE
  PROVE  Spec => []SleeperHasWaker
<1> DEFINE Inv == QuietLog /\ SleeperHasWaker
<1>1. Init => Inv
  BY LogAssumption DEF Init, BootPC, QuietLog, SleeperHasWaker, Agent
<1>2. IInv /\ IInv' /\ Inv /\ [Next]_vars => Inv'
  <2> SUFFICES ASSUME IInv, IInv', Inv, [Next]_vars PROVE Inv'
    OBVIOUS
  <2> USE DEF Agent
  <2>0. TypeOK /\ Control /\ Data /\ Boot \notin Proc
    BY LogAssumption DEF IInv
  <2>1. ASSUME NEW p \in Proc, BeginOpSleep(p) PROVE Inv'
    <3>1. outstanding > 0 \/ committing
      <4> SUFFICES ASSUME outstanding = 0, ~committing PROVE FALSE
        BY <2>0 DEF TypeOK
      <4>1. Len(lh) = 0
        BY <2>1 DEF BeginOpSleep, QuietLog, Running, Up
      <4>2. QED
        BY <2>1, <4>1, LogAssumption DEF BeginOpSleep, MustWait
    <3>2. QED
      BY <2>0, <2>1, <3>1
      DEF BeginOpSleep, QuietLog, SleeperHasWaker, Running, TypeOK
  <2>2. ASSUME NEW p \in Proc, BeginOp(p) PROVE Inv'
    BY <2>0, <2>2 DEF BeginOp, QuietLog, SleeperHasWaker, TypeOK
  <2>3. ASSUME NEW p \in Proc, LogAppend(p) PROVE Inv'
    <3>1. p \in InCall
      BY <2>3 DEF LogAppend, InCall
    <3>2. outstanding > 0
      BY <2>0, <3>1, Finite, FS_EmptySet DEF Control
    <3>3. QED
      BY <2>0, <2>3, <3>2 DEF LogAppend, QuietLog, SleeperHasWaker, TypeOK
  <2>4. ASSUME NEW p \in Proc, EndOp(p) PROVE Inv'
    <3>1. p \in InCall /\ ~committing
      BY <2>0, <2>4 DEF EndOp, InCall, Control, CommitAlone
    <3>2. outstanding \in Nat /\ outstanding > 0
      BY <2>0, <3>1, Finite, FS_EmptySet DEF Control
    <3>3. CASE outstanding = 1
      BY <2>4, <3>1, <3>3 DEF EndOp, QuietLog, SleeperHasWaker
    <3>4. CASE outstanding # 1
      BY <2>4, <3>1, <3>2, <3>4 DEF EndOp, QuietLog, SleeperHasWaker
    <3>5. QED
      BY <3>3, <3>4
  <2>5. ASSUME NEW p \in Proc, EndCommit(p) PROVE Inv'
    <3>1. lh = <<>>
      BY <2>0, <2>5 DEF EndCommit, Data
    <3>2. \A q \in Proc : pc'[q] # "sleep"
      BY <2>5 DEF EndCommit, Wakeup
    <3>3. QED
      BY <2>5, <3>1, <3>2 DEF EndCommit, QuietLog, SleeperHasWaker
  <2>6. ASSUME NEW p \in Proc, NEW b \in Home, NEW v \in Val, LogWrite(p, b, v)
        PROVE  Inv'
    BY <2>0, <2>6 DEF LogWrite, Panic, QuietLog, SleeperHasWaker, Running, Up, TypeOK
  <2>7. ASSUME NEW p \in Proc, WriteLog(p) \/ WriteHead(p) PROVE Inv'
    BY <2>0, <2>7 DEF WriteLog, WriteHead, QuietLog, SleeperHasWaker, Running, TypeOK
  <2>8. ASSUME NEW a \in Agent, InstallTrans(a) \/ EraseLog(a) PROVE Inv'
    BY <2>0, <2>8 DEF InstallTrans, EraseLog, QuietLog, SleeperHasWaker, Running, TypeOK
  <2>9. CASE ReadHead
    BY <2>0, <2>9 DEF ReadHead, QuietLog, SleeperHasWaker, Running, TypeOK
  <2>10. CASE Crash
    BY <2>0, <2>10 DEF Crash, BootPC, QuietLog, SleeperHasWaker
  <2>11. CASE UNCHANGED vars
    BY <2>11 DEF vars, QuietLog, SleeperHasWaker, Running
  <2>12. QED
    BY <2>1, <2>2, <2>3, <2>4, <2>5, <2>6, <2>7, <2>8, <2>9, <2>10, <2>11 DEF Next
<1>3. QED
  BY <1>1, <1>2, Inductive, PTL DEF Spec
=============================================================================
