------------------------------- MODULE LogInv -------------------------------
(***************************************************************************)
(* The inductive invariant of Log, and the proofs that its parts about     *)
(* types, control and space are kept.  LogData does the same for the       *)
(* contents of the disk; LogProofs has the theorems.                       *)
(***************************************************************************)
EXTENDS Log, FiniteSetTheorems, TLAPS

\* The reservation of begin_op() is sound.
Roomy == OPBLOCKS < MAXOPBLOCKS /\ LOGSIZE <= NLOG

-----------------------------------------------------------------------------
(* The inductive invariant *)

Running == pc[Boot] \in {"up", "panic"}

ProcPC == {"user", "begin_op", "sleep", "op", "log_write", "write_log",
           "install_trans", "end_op"}

\* Where the agents can be together.
Control ==
  /\ pc[Boot] \in {"read_head", "install_trans", "up", "panic"}
  /\ \A p \in Proc : pc[p] \in ProcPC
  /\ ~Running => ~committing /\ outstanding = 0 /\ \A p \in Proc : pc[p] = "user"
  /\ outstanding = Cardinality(InCall)
  /\ CommitAlone
  /\ \A a \in Agent : pc[a] \notin {"write_log", "install_trans"} => tail[a] = 0
  /\ \A a \in Agent : tail[a] <= Len(lh)
  /\ \A p \in Proc : pc[p] = "log_write" <=> held[p] # NoBlock

\* The log blocks that the calls in progress may still append, one token each.
Credits == {t \in InCall \X (1 .. MAXOPBLOCKS) : t[2] > Cardinality(wrote[t[1]])}

\* The log and what is still promised fit; appending uses up a promise.
Space ==
  /\ Len(lh) + Cardinality(Credits) <= LOGSIZE
  /\ lh # <<>> => Len(lh) < LOGSIZE
  /\ head # <<>> => Len(head) < LOGSIZE
  /\ \A p \in Proc : IsFiniteSet(wrote[p]) /\ Cardinality(wrote[p]) <= OPBLOCKS
  /\ \A p \in Proc : held[p] # NoBlock => Cardinality(wrote[p] \cup {held[p]}) <= OPBLOCKS
  /\ \A p \in Proc : wrote[p] \subseteq Logged
  /\ \A p \in Proc \ InCall : wrote[p] = {}

Distinct(s) == \A i, j \in DOMAIN s : s[i] = s[j] => i = j

\* What the disk, the cache and the log have to do with one another.
Data ==
  /\ Distinct(lh)
  /\ Distinct(head)
  /\ \A b \in LogBlock : cache[b] = disk[b]
  /\ ~Running => cache = disk
  /\ Running => \A b \in Home : b \notin Logged /\ (\A p \in Proc : held[p] # b)
                                => cache[b] = disk[b]
  /\ Running /\ (\A p \in Proc : pc[p] # "install_trans") => head = <<>>
  /\ \A p \in Proc : pc[p] = "write_log" =>
       \A i \in 1 .. tail[p] : disk[logstart + i] = cache[lh[i]]
  /\ \A p \in Proc : pc[p] = "install_trans" =>
       \A i \in DOMAIN lh : disk[logstart + i] = cache[lh[i]]
  /\ \A a \in Agent : pc[a] = "install_trans" =>
       /\ head = lh
       /\ \A i \in 1 .. tail[a] : disk[lh[i]] = disk[logstart + i]
  /\ \A p \in Proc : pc[p] = "end_op" => lh = <<>>

IInv == TypeOK /\ Control /\ Space /\ Data

-----------------------------------------------------------------------------
(* Facts the steps share *)

\* The log blocks and the home blocks are different blocks.
LEMMA Layout ==
  /\ Home \subseteq Nat
  /\ LogBlock \subseteq Block
  /\ Home \subseteq Block
  /\ \A b \in LogBlock : b \notin Home
  /\ NoBlock \notin Home
BY LogAssumption DEF Home, LogBlock, Block, logstart

\* Under Roomy every entry of the log, in memory or on disk, has its block in
\* the on-disk log.
LEMMA Slots ==
  ASSUME TypeOK, Space, Roomy
  PROVE  /\ \A i \in 1 .. Len(lh) : logstart + i \in LogBlock
         /\ \A i \in 1 .. Len(head) : logstart + i \in LogBlock
         /\ Len(lh) \in Nat
         /\ DOMAIN lh = 1 .. Len(lh)
         /\ DOMAIN head = 1 .. Len(head)
<1>1. Len(lh) \in Nat /\ Len(head) \in Nat
  BY DEF TypeOK
<1>2. Len(lh) <= NLOG - 1 /\ Len(head) <= NLOG - 1
  BY <1>1, LogAssumption DEF TypeOK, Space, Roomy
<1>3. QED
  BY <1>1, <1>2, LogAssumption DEF TypeOK, LogBlock, logstart

\* The calls in progress and their promises are finitely many.
LEMMA Finite ==
  /\ IsFiniteSet(InCall)
  /\ Cardinality(InCall) \in Nat
  /\ IsFiniteSet(Credits)
  /\ Cardinality(Credits) \in Nat
  /\ Cardinality(Credits) <= Cardinality(InCall) * MAXOPBLOCKS
<1>1. IsFiniteSet(InCall) /\ Cardinality(InCall) \in Nat
  BY LogAssumption, FS_Subset, FS_CardinalityType DEF InCall
<1>2. IsFiniteSet(1 .. MAXOPBLOCKS) /\ Cardinality(1 .. MAXOPBLOCKS) = MAXOPBLOCKS
  BY LogAssumption, FS_Interval
<1>3. /\ IsFiniteSet(InCall \X (1 .. MAXOPBLOCKS))
      /\ Cardinality(InCall \X (1 .. MAXOPBLOCKS)) = Cardinality(InCall) * MAXOPBLOCKS
  BY <1>1, <1>2, FS_Product
<1>4. Credits \in SUBSET (InCall \X (1 .. MAXOPBLOCKS))
  BY DEF Credits
<1>5. QED
  BY <1>1, <1>3, <1>4, FS_Subset, FS_CardinalityType

-----------------------------------------------------------------------------
(* Types *)

LEMMA TypeInit == Init => TypeOK
<1> SUFFICES ASSUME Init PROVE TypeOK
  OBVIOUS
<1>1. committing \in BOOLEAN /\ outstanding \in Nat
  BY DEF Init
<1>2. pc \in [Agent -> {"user", "begin_op", "sleep", "op", "log_write", "write_log",
                       "install_trans", "end_op", "read_head", "up", "panic"}]
  BY DEF Init, BootPC
<1>3. held \in [Proc -> Home \cup {NoBlock}] /\ wrote \in [Proc -> SUBSET Home]
  BY DEF Init
<1>4. tail \in [Agent -> Nat]
  BY DEF Init
<1>5. QED
  BY <1>1, <1>2, <1>3, <1>4 DEF Init, TypeOK

LEMMA TypeStep ==
  ASSUME IInv, Roomy, [Next]_vars
  PROVE  TypeOK'
<1> USE DEF Agent
<1>0. TypeOK /\ Control /\ Space
  BY DEF IInv
<1>1. ASSUME NEW p \in Proc, BeginOpSleep(p) PROVE TypeOK'
  BY <1>0, <1>1 DEF BeginOpSleep, TypeOK
<1>2. ASSUME NEW p \in Proc, BeginOp(p) PROVE TypeOK'
  BY <1>0, <1>2 DEF BeginOp, TypeOK
<1>3. ASSUME NEW p \in Proc, LogAppend(p) PROVE TypeOK'
  <2>1. held[p] \in Home
    BY <1>0, <1>3 DEF LogAppend, TypeOK, Control
  <2>2. QED
    BY <1>0, <1>3, <2>1 DEF LogAppend, Absorb, TypeOK
<1>4. ASSUME NEW p \in Proc, EndOp(p) PROVE TypeOK'
  <2>1. p \in InCall
    BY <1>4 DEF EndOp, InCall
  <2>2. outstanding - 1 \in Nat
    BY <1>0, <2>1, Finite, FS_EmptySet DEF Control
  <2>3. pc' \in [Agent -> {"user", "begin_op", "sleep", "op", "log_write", "write_log",
                           "install_trans", "end_op", "read_head", "up", "panic"}]
    BY <1>0, <1>4 DEF EndOp, Wakeup, Panic, TypeOK
  <2>4. QED
    BY <1>0, <1>4, <2>2, <2>3 DEF EndOp, TypeOK
<1>5. ASSUME NEW p \in Proc, WriteLog(p) PROVE TypeOK'
  <2>1. tail[p] + 1 \in 1 .. Len(lh)
    BY <1>0, <1>5 DEF WriteLog, TypeOK
  <2>2. cache[lh[tail[p] + 1]] \in Val
    <3>1. lh[tail[p] + 1] \in Home
      BY <1>0, <2>1 DEF TypeOK
    <3>2. QED
      BY <1>0, <3>1, Layout DEF TypeOK
  <2>3. disk' \in [Block -> Val] /\ cache' \in [Block -> Val]
    BY <1>0, <1>5, <2>2 DEF WriteLog, TypeOK
  <2>4. tail' \in [Agent -> Nat]
    BY <1>0, <1>5 DEF WriteLog, TypeOK
  <2>5. QED
    BY <1>0, <1>5, <2>3, <2>4 DEF WriteLog, TypeOK
<1>6. ASSUME NEW p \in Proc, WriteHead(p) PROVE TypeOK'
  BY <1>0, <1>6 DEF WriteHead, TypeOK
<1>7. ASSUME NEW p \in Proc, EndCommit(p) PROVE TypeOK'
  BY <1>0, <1>7 DEF EndCommit, Wakeup, TypeOK
<1>8. ASSUME NEW p \in Proc, NEW b \in Home, NEW v \in Val, LogWrite(p, b, v) PROVE TypeOK'
  BY <1>0, <1>8 DEF LogWrite, Panic, TypeOK
<1>9. ASSUME NEW a \in Agent, InstallTrans(a) PROVE TypeOK'
  <2>1. tail[a] + 1 \in 1 .. Len(lh)
    BY <1>0, <1>9 DEF InstallTrans, TypeOK
  <2>2. cache[logstart + tail[a] + 1] \in Val
    <3>1. logstart + (tail[a] + 1) \in Block
      BY <1>0, <2>1, Slots, Layout
    <3>2. logstart + (tail[a] + 1) = logstart + tail[a] + 1
      BY <1>0 DEF TypeOK, logstart
    <3>3. QED
      BY <1>0, <3>1, <3>2 DEF TypeOK
  <2>3. disk' \in [Block -> Val] /\ cache' \in [Block -> Val]
    BY <1>0, <1>9, <2>2 DEF InstallTrans, TypeOK
  <2>4. tail' \in [Agent -> Nat]
    BY <1>0, <1>9 DEF InstallTrans, TypeOK
  <2>5. QED
    BY <1>0, <1>9, <2>3, <2>4 DEF InstallTrans, TypeOK
<1>10. ASSUME NEW a \in Agent, EraseLog(a) PROVE TypeOK'
  BY <1>0, <1>10 DEF EraseLog, TypeOK
<1>11. CASE ReadHead
  BY <1>0, <1>11 DEF ReadHead, TypeOK
<1>12. CASE Crash
  <2>1. pc' \in [Agent -> {"user", "begin_op", "sleep", "op", "log_write", "write_log",
                           "install_trans", "end_op", "read_head", "up", "panic"}]
    BY <1>12 DEF Crash, BootPC
  <2>2. held' \in [Proc -> Home \cup {NoBlock}] /\ wrote' \in [Proc -> SUBSET Home]
    BY <1>12 DEF Crash
  <2>3. committing' \in BOOLEAN /\ outstanding' \in Nat /\ tail' \in [Agent -> Nat]
    BY <1>12 DEF Crash
  <2>4. QED
    BY <1>0, <1>12, <2>1, <2>2, <2>3 DEF Crash, TypeOK
<1>13. CASE UNCHANGED vars
  BY <1>0, <1>13 DEF vars, TypeOK
<1>14. QED
  BY <1>1, <1>2, <1>3, <1>4, <1>5, <1>6, <1>7, <1>8, <1>9, <1>10, <1>11, <1>12, <1>13
  DEF Next

-----------------------------------------------------------------------------
(* Control *)

LEMMA ControlInit == Init => Control
<1> SUFFICES ASSUME Init PROVE Control
  OBVIOUS
<1>1. /\ pc[Boot] = "read_head"
      /\ \A p \in Proc : pc[p] = "user"
  BY LogAssumption DEF Init, BootPC, Agent
<1>2. InCall = {} /\ InCommit = {}
  BY <1>1 DEF InCall, InCommit
<1>3. Cardinality(InCall) = 0
  BY <1>2, FS_EmptySet
<1>4. QED
  BY <1>1, <1>2, <1>3 DEF Init, Control, CommitAlone, Running, ProcPC

LEMMA ControlStep ==
  ASSUME IInv, TypeOK', Roomy, [Next]_vars
  PROVE  Control'
<1> USE DEF Agent
<1>0. /\ TypeOK
      /\ Control
      /\ Len(lh) \in Nat
      /\ Boot \notin Proc
      /\ NoBlock \notin Home
  BY LogAssumption, Layout DEF IInv, TypeOK
<1>1. ASSUME NEW p \in Proc, BeginOpSleep(p) PROVE Control'
  <2>1. InCall' = InCall /\ InCommit' = InCommit
    BY <1>0, <1>1 DEF BeginOpSleep, InCall, InCommit, TypeOK
  <2>2. QED
    BY <1>0, <1>1, <2>1 DEF BeginOpSleep, Control, CommitAlone, Running, ProcPC, TypeOK, Up
<1>2. ASSUME NEW p \in Proc, BeginOp(p) PROVE Control'
  <2>1. InCall' = InCall \cup {p} /\ InCommit' = InCommit /\ p \notin InCall
    BY <1>0, <1>2 DEF BeginOp, InCall, InCommit, TypeOK
  <2>2. Cardinality(InCall') = outstanding + 1
    BY <1>0, <2>1, Finite, FS_AddElement DEF Control
  <2>3. QED
    BY <1>0, <1>2, <2>1, <2>2
    DEF BeginOp, MustWait, Control, CommitAlone, Running, ProcPC, TypeOK, Up
<1>3. ASSUME NEW p \in Proc, LogAppend(p) PROVE Control'
  <2>1. InCall' = InCall /\ InCommit' = InCommit
    BY <1>0, <1>3 DEF LogAppend, InCall, InCommit, TypeOK
  <2>2. Len(lh) <= Len(lh')
    BY <1>0, <1>3 DEF LogAppend, Absorb, TypeOK
  <2>3. \A a \in Agent : tail'[a] <= Len(lh')
    BY <1>0, <1>3, <2>2 DEF LogAppend, Control, TypeOK
  <2>4. QED
    BY <1>0, <1>3, <2>1, <2>3 DEF LogAppend, Control, CommitAlone, Running, ProcPC, TypeOK, Up
<1>4. ASSUME NEW p \in Proc, EndOp(p) PROVE Control'
  <2>1. p \in InCall /\ ~committing
    BY <1>0, <1>4 DEF EndOp, InCall, Control, CommitAlone
  <2>2. InCall' = InCall \ {p}
    BY <1>0, <1>4, <2>1 DEF EndOp, InCall, Wakeup, TypeOK
  <2>3. Cardinality(InCall') = outstanding - 1
    <3>1. IsFiniteSet(InCall)
      BY Finite
    <3>2. Cardinality(InCall \ {p}) = Cardinality(InCall) - 1
      BY ONLY <2>1, <3>1, FS_RemoveElement
    <3>3. outstanding = Cardinality(InCall)
      BY <1>0 DEF Control
    <3>4. QED
      BY ONLY <2>2, <3>2, <3>3
  <2>4. outstanding = 1 => InCall' = {}
    <3>1. IsFiniteSet(InCall)
      BY Finite
    <3>2. IsFiniteSet(InCall')
      BY <2>2, <3>1, FS_RemoveElement
    <3>3. HAVE outstanding = 1
    <3>4. Cardinality(InCall') = 0
      BY <2>3, <3>3
    <3>5. QED
      BY <3>2, <3>4, FS_EmptySet
  <2>5. InCommit' = IF outstanding = 1 THEN {p} ELSE {}
    <3>1. InCommit = {}
      BY <1>0, <2>1 DEF Control, CommitAlone
    <3>2. CASE outstanding = 1
      <4>1. pc' = [pc EXCEPT ![p] = IF lh = <<>> THEN "end_op" ELSE "write_log"]
        BY <1>4, <2>1, <3>2 DEF EndOp
      <4>2. QED
        BY <1>0, <3>1, <3>2, <4>1 DEF InCommit, TypeOK
    <3>3. CASE outstanding # 1
      <4>1. pc' = Wakeup(p, "user")
        BY <1>4, <2>1, <3>3 DEF EndOp
      <4>2. InCommit' = {}
        BY <1>0, <3>1, <4>1 DEF InCommit, Wakeup, TypeOK
      <4>3. QED
        BY <3>3, <4>2
    <3>4. QED
      BY <3>2, <3>3
  <2>6. CommitAlone'
    BY <1>0, <1>4, <2>1, <2>4, <2>5 DEF EndOp, CommitAlone
  <2>7. /\ pc'[Boot] = "up"
        /\ \A q \in Proc : pc'[q] \in ProcPC
        /\ \A q \in Proc : pc'[q] = "log_write" <=> pc[q] = "log_write"
        /\ \A q \in Proc : pc[q] \in {"write_log", "install_trans"} =>
                            pc'[q] \in {"write_log", "install_trans"}
    <3>1. /\ pc[p] = "op"
          /\ pc[Boot] = "up"
          /\ \A q \in Proc : pc[q] \in ProcPC
      BY <1>0, <1>4 DEF EndOp, Control, Up
    <3>2. CASE outstanding = 1
      <4>1. pc' = [pc EXCEPT ![p] = IF lh = <<>> THEN "end_op" ELSE "write_log"]
        BY <1>4, <2>1, <3>2 DEF EndOp
      <4>2. QED
        BY <1>0, <3>1, <4>1 DEF ProcPC, TypeOK
    <3>3. CASE outstanding # 1
      <4>1. pc' = Wakeup(p, "user")
        BY <1>4, <2>1, <3>3 DEF EndOp
      <4>2. QED
        BY <1>0, <3>1, <4>1 DEF Wakeup, ProcPC, TypeOK
    <3>4. QED
      BY <3>2, <3>3
  <2>8. QED
    BY <1>0, <1>4, <2>3, <2>6, <2>7 DEF EndOp, Control, Running, TypeOK, Up
<1>5. ASSUME NEW p \in Proc, WriteLog(p) PROVE Control'
  <2>1. InCall' = InCall /\ InCommit' = InCommit
    BY <1>5 DEF WriteLog, InCall, InCommit
  <2>2. /\ \A a \in Agent : pc[a] \notin {"write_log", "install_trans"} => tail'[a] = 0
        /\ \A a \in Agent : tail'[a] <= Len(lh)
    BY <1>0, <1>5 DEF WriteLog, Control, TypeOK
  <2>3. QED
    BY <1>0, <1>5, <2>1, <2>2 DEF WriteLog, Control, CommitAlone, Running
<1>6. ASSUME NEW p \in Proc, WriteHead(p) PROVE Control'
  <2>1. InCall' = InCall /\ InCommit' = InCommit
    BY <1>0, <1>6 DEF WriteHead, InCall, InCommit, TypeOK
  <2>2. QED
    BY <1>0, <1>6, <2>1 DEF WriteHead, Control, CommitAlone, Running, ProcPC, TypeOK, Up
<1>7. ASSUME NEW p \in Proc, EndCommit(p) PROVE Control'
  <2>1. InCommit = {p}
    BY <1>0, <1>7 DEF EndCommit, InCommit, Control, CommitAlone
  <2>2. InCall' = InCall /\ InCommit' = {}
    BY <1>0, <1>7, <2>1 DEF EndCommit, InCall, InCommit, Wakeup, TypeOK
  <2>3. /\ pc'[Boot] = "up"
        /\ \A q \in Proc : pc'[q] \in ProcPC
        /\ \A q \in Proc : pc'[q] = "log_write" <=> pc[q] = "log_write"
        /\ \A q \in Proc : pc[q] \in {"write_log", "install_trans"} =>
                            pc'[q] \in {"write_log", "install_trans"}
    BY <1>0, <1>7 DEF EndCommit, Wakeup, Control, ProcPC, TypeOK, Up
  <2>4. QED
    BY <1>0, <1>7, <2>2, <2>3 DEF EndCommit, Control, CommitAlone, Running
<1>8. ASSUME NEW p \in Proc, NEW b \in Home, NEW v \in Val, LogWrite(p, b, v) PROVE Control'
  <2>1. InCall' = InCall /\ InCommit' = InCommit
    BY <1>0, <1>8 DEF LogWrite, InCall, InCommit, Panic, TypeOK
  <2>2. QED
    <3>1. CASE TooBig \/ outstanding < 1
      <4>1. pc' = Panic /\ held' = held
        BY <1>8, <3>1 DEF LogWrite
      <4>2. QED
        BY <1>0, <1>8, <2>1, <4>1
        DEF LogWrite, Panic, Control, CommitAlone, Running, TypeOK, Up
    <3>2. CASE ~(TooBig \/ outstanding < 1)
      <4>1. pc' = [pc EXCEPT ![p] = "log_write"] /\ held' = [held EXCEPT ![p] = b]
        BY <1>8, <3>2 DEF LogWrite
      <4>2. QED
        BY <1>0, <1>8, <2>1, <4>1
        DEF LogWrite, Control, CommitAlone, Running, ProcPC, TypeOK, Up
    <3>3. QED
      BY <3>1, <3>2
<1>9. ASSUME NEW a \in Agent, InstallTrans(a) PROVE Control'
  <2>1. InCall' = InCall /\ InCommit' = InCommit
    BY <1>9 DEF InstallTrans, InCall, InCommit
  <2>2. /\ \A c \in Agent : pc[c] \notin {"write_log", "install_trans"} => tail'[c] = 0
        /\ \A c \in Agent : tail'[c] <= Len(lh)
    BY <1>0, <1>9 DEF InstallTrans, Control, TypeOK
  <2>3. QED
    BY <1>0, <1>9, <2>1, <2>2 DEF InstallTrans, Control, CommitAlone, Running
<1>10. ASSUME NEW a \in Agent, EraseLog(a) PROVE Control'
  <2>1. InCall' = InCall /\ InCommit' = InCommit
    BY <1>0, <1>10 DEF EraseLog, InCall, InCommit, TypeOK
  <2>2. \A c \in Agent : c # a => pc[c] \notin {"write_log", "install_trans"}
    BY <1>0, <1>10 DEF EraseLog, Control, CommitAlone, InCommit, Running, Up
  <2>3. \A c \in Agent : tail'[c] = 0 /\ Len(lh') = 0
    BY <1>0, <1>10, <2>2 DEF EraseLog, Control, TypeOK
  <2>4. QED
    BY <1>0, <1>10, <2>1, <2>3 DEF EraseLog, Control, CommitAlone, Running, ProcPC, TypeOK, Up
<1>11. CASE ReadHead
  <2>1. InCall' = InCall /\ InCommit' = InCommit
    BY <1>0, <1>11 DEF ReadHead, InCall, InCommit, TypeOK
  <2>2. \A c \in Agent : tail'[c] = 0
    BY <1>0, <1>11 DEF ReadHead, Control, Running
  <2>3. Len(lh') \in Nat
    BY DEF TypeOK
  <2>4. QED
    BY <1>0, <1>11, <2>1, <2>2, <2>3 DEF ReadHead, Control, CommitAlone, Running, ProcPC, TypeOK
<1>12. CASE Crash
  <2>1. /\ pc'[Boot] = "read_head"
        /\ \A p \in Proc : pc'[p] = "user"
    BY <1>0, <1>12 DEF Crash, BootPC
  <2>2. InCall' = {} /\ InCommit' = {}
    BY <2>1 DEF InCall, InCommit
  <2>3. Cardinality(InCall') = 0
    BY <2>2, FS_EmptySet
  <2>4. QED
    BY <1>0, <1>12, <2>1, <2>2, <2>3 DEF Crash, Control, CommitAlone, Running, ProcPC
<1>13. CASE UNCHANGED vars
  BY <1>0, <1>13 DEF vars, Control, CommitAlone, InCall, InCommit, Running
<1>14. QED
  BY <1>1, <1>2, <1>3, <1>4, <1>5, <1>6, <1>7, <1>8, <1>9, <1>10, <1>11, <1>12, <1>13
  DEF Next

-----------------------------------------------------------------------------
(* Space *)

LEMMA SpaceInit == Init => Space
<1> SUFFICES ASSUME Init PROVE Space
  OBVIOUS
<1>1. \A p \in Proc : pc[p] = "user" /\ wrote[p] = {} /\ held[p] = NoBlock
  BY LogAssumption DEF Init, BootPC, Agent
<1>2. InCall = {} /\ Credits = {}
  BY <1>1 DEF InCall, Credits
<1>3. Cardinality(Credits) = 0 /\ IsFiniteSet({}) /\ Cardinality({}) = 0
  BY <1>2, FS_EmptySet
<1>4. lh = <<>> /\ head = <<>> /\ Len(<<>>) = 0
  BY DEF Init
<1>5. Len(lh) + Cardinality(Credits) <= LOGSIZE
  BY <1>3, <1>4, LogAssumption
<1>6. \A p \in Proc : /\ IsFiniteSet(wrote[p])
                      /\ Cardinality(wrote[p]) <= OPBLOCKS
                      /\ wrote[p] \subseteq Logged
  BY <1>1, <1>3, LogAssumption
<1>7. QED
  BY <1>1, <1>4, <1>5, <1>6 DEF Space

\* A step that leaves the log, the buffers and the calls in progress alone.
LEMMA SpaceSame ==
  ASSUME Space, UNCHANGED <<lh, held, wrote>>, InCall' = InCall,
         head' = head \/ head' = lh \/ head' = <<>>
  PROVE  Space'
<1>1. Credits' = Credits /\ Logged' = Logged
  BY DEF Credits, Logged
<1>2. QED
  BY <1>1 DEF Space

\* A step after which no call is in progress and no buffer held.
LEMMA SpaceQuiet ==
  ASSUME TypeOK, Space,
         InCall' = {}, \A p \in Proc : wrote'[p] = {} /\ held'[p] = NoBlock,
         lh' = <<>> \/ lh' = head, head' = head \/ head' = <<>>
  PROVE  Space'
<1>1. Credits' = {}
  BY DEF Credits
<1>2. Cardinality(Credits') = 0 /\ IsFiniteSet({}) /\ Cardinality({}) = 0
  BY <1>1, FS_EmptySet
<1>3. Len(<<>>) = 0 /\ Len(head) \in Nat
  BY DEF TypeOK
<1>4. Len(lh') <= LOGSIZE /\ Len(lh') \in Nat
  BY <1>3, LogAssumption DEF Space
<1>5. Len(lh') + Cardinality(Credits') <= LOGSIZE
  BY <1>2, <1>4, LogAssumption
<1>6. /\ lh' # <<>> => Len(lh') < LOGSIZE
      /\ head' # <<>> => Len(head') < LOGSIZE
  BY DEF Space
<1>7. \A p \in Proc : /\ IsFiniteSet(wrote'[p])
                      /\ Cardinality(wrote'[p]) <= OPBLOCKS
                      /\ wrote'[p] \subseteq Logged'
  <2> TAKE p \in Proc
  <2>1. wrote'[p] = {}
    OBVIOUS
  <2>2. QED
    BY <1>2, <2>1, LogAssumption
<1>8. QED
  BY <1>5, <1>6, <1>7 DEF Space

LEMMA SpaceBegin ==
  ASSUME IInv, NEW p \in Proc, BeginOp(p)
  PROVE  Space'
<1>0. TypeOK /\ Control /\ Space
  BY DEF IInv
<1>1. InCall' = InCall \cup {p} /\ p \notin InCall
  BY <1>0 DEF BeginOp, InCall, TypeOK, Agent
<1>2. Cardinality(InCall') = outstanding + 1
  <2>1. IsFiniteSet(InCall)
    BY Finite
  <2>2. Cardinality(InCall \cup {p}) = Cardinality(InCall) + 1
    BY ONLY <1>1, <2>1, FS_AddElement
  <2>3. outstanding = Cardinality(InCall)
    BY <1>0 DEF Control
  <2>4. QED
    BY ONLY <1>1, <2>2, <2>3
<1>3. IsFiniteSet(1 .. MAXOPBLOCKS) /\ Cardinality(1 .. MAXOPBLOCKS) = MAXOPBLOCKS
  BY LogAssumption, FS_Interval
<1>4. IsFiniteSet(InCall')
  BY <1>1, Finite, FS_AddElement
<1>5. /\ IsFiniteSet(InCall' \X (1 .. MAXOPBLOCKS))
      /\ Cardinality(InCall' \X (1 .. MAXOPBLOCKS)) = (outstanding + 1) * MAXOPBLOCKS
  <2>1. /\ IsFiniteSet(InCall' \X (1 .. MAXOPBLOCKS))
        /\ Cardinality(InCall' \X (1 .. MAXOPBLOCKS))
             = Cardinality(InCall') * Cardinality(1 .. MAXOPBLOCKS)
    BY ONLY <1>3, <1>4, FS_Product
  <2>2. QED
    BY ONLY <1>2, <1>3, <2>1
<1>6. Credits' \in SUBSET (InCall' \X (1 .. MAXOPBLOCKS))
  BY DEF Credits
<1>7. Cardinality(Credits') <= (outstanding + 1) * MAXOPBLOCKS /\ Cardinality(Credits') \in Nat
  BY <1>5, <1>6, FS_Subset, FS_CardinalityType
<1>8. Len(lh) + (outstanding + 1) * MAXOPBLOCKS <= LOGSIZE
  <2>1. Len(lh) \in Nat /\ (outstanding + 1) * MAXOPBLOCKS \in Nat
    BY <1>0, LogAssumption DEF TypeOK
  <2>2. QED
    BY <2>1, LogAssumption DEF BeginOp, MustWait
<1>9. Len(lh') + Cardinality(Credits') <= LOGSIZE
  <2>1. Len(lh) \in Nat /\ (outstanding + 1) * MAXOPBLOCKS \in Nat
    BY <1>0, LogAssumption DEF TypeOK
  <2>2. QED
    BY <1>7, <1>8, <2>1, LogAssumption DEF BeginOp
<1>10. QED
  BY <1>0, <1>1, <1>9 DEF BeginOp, Space, Logged

LEMMA SpaceEnd ==
  ASSUME IInv, NEW p \in Proc, EndOp(p)
  PROVE  Space'
<1>0. TypeOK /\ Control /\ Space
  BY DEF IInv
<1>1. p \in InCall /\ ~committing
  BY <1>0 DEF EndOp, InCall, Control, CommitAlone
<1>2. InCall' = InCall \ {p}
  BY <1>0, <1>1 DEF EndOp, InCall, Wakeup, TypeOK, Agent
<1>3. \A q \in Proc : q # p => wrote'[q] = wrote[q]
  BY <1>0 DEF EndOp, TypeOK
<1>4. wrote'[p] = {} /\ IsFiniteSet({}) /\ Cardinality({}) = 0
  BY <1>0, FS_EmptySet DEF EndOp, TypeOK
<1>5. Credits' \in SUBSET Credits
  BY <1>2, <1>3 DEF Credits, InCall
<1>6. Cardinality(Credits') <= Cardinality(Credits) /\ Cardinality(Credits') \in Nat
  BY <1>5, Finite, FS_Subset, FS_CardinalityType
<1>7. Len(lh') + Cardinality(Credits') <= LOGSIZE
  BY <1>0, <1>6, Finite, LogAssumption DEF Space, EndOp, TypeOK
<1>8. held[p] = NoBlock
  BY <1>0 DEF EndOp, Control
<1>9. QED
  BY <1>0, <1>2, <1>3, <1>4, <1>7, <1>8, LogAssumption DEF EndOp, Space, Logged

\* What log_write() does to the set of logged blocks and to their order.
LEMMA AppendLogged ==
  ASSUME TypeOK, NEW b \in Home, lh' = Absorb(b)
  PROVE  /\ Logged' = Logged \cup {b}
         /\ Distinct(lh) => Distinct(lh')
<1>1. CASE b \in Logged
  BY <1>1 DEF Absorb, Logged, Distinct
<1>2. CASE b \notin Logged
  <2>1. /\ lh \in Seq(Home)
        /\ Len(lh) \in Nat
        /\ DOMAIN lh = 1 .. Len(lh)
    BY DEF TypeOK
  <2>2. /\ lh' = Append(lh, b)
        /\ DOMAIN lh' = 1 .. (Len(lh) + 1)
        /\ \A i \in 1 .. Len(lh) : lh'[i] = lh[i]
        /\ lh'[Len(lh) + 1] = b
    BY <1>2, <2>1 DEF Absorb
  <2>3. \A i \in DOMAIN lh' : i \in DOMAIN lh \/ i = Len(lh) + 1
    BY <2>1, <2>2
  <2>4. Logged' \subseteq Logged \cup {b}
    BY <2>1, <2>2, <2>3 DEF Logged
  <2>5. Logged \cup {b} \subseteq Logged'
    BY <2>1, <2>2 DEF Logged
  <2>6. Distinct(lh) => Distinct(lh')
    BY <1>2, <2>1, <2>2, <2>3 DEF Distinct, Logged
  <2>7. QED
    BY <2>4, <2>5, <2>6
<1>3. QED
  BY <1>1, <1>2

LEMMA SpaceAppend ==
  ASSUME IInv, Roomy, NEW p \in Proc, LogAppend(p)
  PROVE  Space'
<1> DEFINE b == held[p]
           w == wrote[p]
<1>0. TypeOK /\ Control /\ Space
  BY DEF IInv
<1>1. /\ b \in Home
      /\ b # NoBlock
      /\ wrote' = [wrote EXCEPT ![p] = w \cup {b}]
      /\ held' = [held EXCEPT ![p] = NoBlock]
      /\ lh' = Absorb(b)
      /\ head' = head
  BY <1>0, Layout DEF LogAppend, Control, TypeOK
<1>2. InCall' = InCall /\ p \in InCall
  BY <1>0 DEF LogAppend, InCall, TypeOK, Agent
<1>3. /\ IsFiniteSet(w)
      /\ Cardinality(w) \in Nat
      /\ IsFiniteSet(w \cup {b})
      /\ Cardinality(w \cup {b}) <= OPBLOCKS
      /\ Cardinality(w \cup {b}) = IF b \in w THEN Cardinality(w) ELSE Cardinality(w) + 1
  BY <1>0, <1>1, FS_AddElement, FS_CardinalityType DEF Space
<1>4. \A q \in Proc : wrote'[q] = IF q = p THEN w \cup {b} ELSE wrote[q]
  BY <1>0, <1>1 DEF TypeOK
<1>5. Credits' \in SUBSET Credits
  <2>1. SUFFICES ASSUME NEW t \in InCall \X (1 .. MAXOPBLOCKS),
                        t[2] > Cardinality(wrote'[t[1]])
                 PROVE  t[2] > Cardinality(wrote[t[1]])
    BY <1>2 DEF Credits
  <2>2. t[1] \in Proc /\ t[2] \in Nat
    BY LogAssumption DEF InCall
  <2>3. CASE t[1] = p
    <3>1. wrote'[t[1]] = w \cup {b} /\ wrote[t[1]] = w
      BY <1>4, <2>3
    <3>2. Cardinality(w) \in Nat /\ Cardinality(w \cup {b}) \in Nat
      BY <1>3
    <3>3. Cardinality(w) <= Cardinality(w \cup {b})
      BY <1>3
    <3>4. QED
      BY <2>1, <2>2, <3>1, <3>2, <3>3
  <2>4. CASE t[1] # p
    BY <1>4, <2>1, <2>2, <2>4
  <2>5. QED
    BY <2>3, <2>4
<1>6. /\ Cardinality(Credits') <= Cardinality(Credits)
      /\ Cardinality(Credits') \in Nat
      /\ IsFiniteSet(Credits')
  BY <1>5, Finite, FS_Subset, FS_CardinalityType
<1>7. Logged' = Logged \cup {b}
  BY <1>0, <1>1, AppendLogged
<1>8. /\ Len(lh') + Cardinality(Credits') <= LOGSIZE
      /\ lh' # <<>> => Len(lh') < LOGSIZE
  <2>1. CASE b \in Logged
    BY <1>0, <1>1, <1>6, <2>1, Finite, LogAssumption DEF Absorb, Space, TypeOK
  <2>2. CASE b \notin Logged
    <3> DEFINE t == <<p, Cardinality(w) + 1>>
    <3>1. Cardinality(w \cup {b}) = Cardinality(w) + 1
      BY <1>0, <1>3, <2>2 DEF Space
    <3>2. t \in Credits /\ t \notin Credits'
      BY <1>2, <1>3, <1>4, <3>1, LogAssumption DEF Credits, Roomy
    <3>3. <<p, Cardinality(w) + 2>> \in Credits'
      BY <1>2, <1>3, <1>4, <3>1, LogAssumption DEF Credits, Roomy
    <3>4. Credits' \in SUBSET (Credits \ {t})
      BY <1>5, <3>2
    <3>5. Cardinality(Credits \ {t}) = Cardinality(Credits) - 1 /\ IsFiniteSet(Credits \ {t})
      BY <3>2, Finite, FS_RemoveElement
    <3>6. Cardinality(Credits') <= Cardinality(Credits) - 1
      BY <3>4, <3>5, FS_Subset
    <3>7. Cardinality(Credits') >= 1
      BY <1>6, <3>3, FS_EmptySet
    <3>8. Len(lh') = Len(lh) + 1 /\ Len(lh) \in Nat
      BY <1>0, <1>1, <2>2 DEF Absorb, TypeOK
    <3>9. QED
      BY <1>0, <1>6, <3>6, <3>7, <3>8, Finite, LogAssumption DEF Space
  <2>3. QED
    BY <2>1, <2>2
<1>9. \A q \in Proc : held'[q] # NoBlock => q # p /\ held'[q] = held[q]
  BY <1>0, <1>1 DEF TypeOK
<1>10. QED
  BY <1>0, <1>1, <1>2, <1>3, <1>4, <1>7, <1>8, <1>9 DEF Space

LEMMA SpaceStep ==
  ASSUME IInv, TypeOK', Control', Roomy, [Next]_vars
  PROVE  Space'
<1> USE DEF Agent
<1>0. /\ TypeOK
      /\ Control
      /\ Space
      /\ Boot \notin Proc
      /\ NoBlock \notin Home
  BY LogAssumption, Layout DEF IInv
<1>1. ASSUME NEW p \in Proc, BeginOpSleep(p) PROVE Space'
  <2>1. InCall' = InCall
    BY <1>0, <1>1 DEF BeginOpSleep, InCall, TypeOK
  <2>2. QED
    BY <1>0, <1>1, <2>1, SpaceSame DEF BeginOpSleep
<1>2. ASSUME NEW p \in Proc, WriteLog(p) PROVE Space'
  BY <1>0, <1>2, SpaceSame DEF WriteLog, InCall
<1>3. ASSUME NEW p \in Proc, WriteHead(p) PROVE Space'
  <2>1. InCall' = InCall
    BY <1>0, <1>3 DEF WriteHead, InCall, TypeOK
  <2>2. QED
    BY <1>0, <1>3, <2>1, SpaceSame DEF WriteHead
<1>4. ASSUME NEW p \in Proc, EndCommit(p) PROVE Space'
  <2>1. InCall' = InCall
    BY <1>0, <1>4 DEF EndCommit, Wakeup, InCall, TypeOK
  <2>2. QED
    BY <1>0, <1>4, <2>1, SpaceSame DEF EndCommit
<1>5. ASSUME NEW p \in Proc, NEW b \in Home, NEW v \in Val, LogWrite(p, b, v) PROVE Space'
  <2>1. InCall' = InCall
    BY <1>0, <1>5 DEF LogWrite, InCall, Panic, TypeOK
  <2>2. Credits' = Credits /\ Logged' = Logged
    BY <1>5, <2>1 DEF LogWrite, Credits, Logged
  <2>3. \A q \in Proc : held'[q] # NoBlock =>
                        held'[q] = held[q] \/ (q = p /\ held'[q] = b)
    BY <1>0, <1>5 DEF LogWrite, TypeOK
  <2>4. QED
    BY <1>0, <1>5, <2>1, <2>2, <2>3 DEF LogWrite, Space
<1>6. ASSUME NEW a \in Agent, InstallTrans(a) PROVE Space'
  BY <1>0, <1>6, SpaceSame DEF InstallTrans, InCall
<1>7. ASSUME NEW a \in Agent, EraseLog(a) PROVE Space'
  <2>1. InCall = {}
    BY <1>0, <1>7 DEF EraseLog, Control, CommitAlone, InCommit, InCall, Running, Up
  <2>2. InCall' = {}
    BY <1>0, <1>7, <2>1 DEF EraseLog, InCall, TypeOK
  <2>3. \A p \in Proc : wrote'[p] = {} /\ held'[p] = NoBlock
    BY <1>0, <1>7, <2>1 DEF EraseLog, Space, Control, InCall
  <2>4. QED
    BY <1>0, <1>7, <2>2, <2>3, SpaceQuiet DEF EraseLog
<1>8. CASE ReadHead
  <2>1. InCall = {}
    BY <1>0, <1>8 DEF ReadHead, Control, InCall, Running
  <2>2. InCall' = {}
    BY <1>0, <1>8, <2>1 DEF ReadHead, InCall, TypeOK
  <2>3. \A p \in Proc : wrote'[p] = {} /\ held'[p] = NoBlock
    BY <1>0, <1>8, <2>1 DEF ReadHead, Space, Control, InCall
  <2>4. QED
    BY <1>0, <1>8, <2>2, <2>3, SpaceQuiet DEF ReadHead
<1>9. CASE Crash
  <2>1. InCall' = {}
    BY <1>0, <1>9 DEF Crash, BootPC, InCall
  <2>2. \A p \in Proc : wrote'[p] = {} /\ held'[p] = NoBlock
    BY <1>9 DEF Crash
  <2>3. QED
    BY <1>0, <1>9, <2>1, <2>2, SpaceQuiet DEF Crash
<1>10. CASE UNCHANGED vars
  BY <1>0, <1>10, SpaceSame DEF vars, InCall
<1>11. QED
  BY <1>1, <1>2, <1>3, <1>4, <1>5, <1>6, <1>7, <1>8, <1>9, <1>10,
     SpaceBegin, SpaceEnd, SpaceAppend
  DEF Next
=============================================================================
