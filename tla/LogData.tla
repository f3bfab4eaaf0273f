------------------------------ MODULE LogData -------------------------------
(***************************************************************************)
(* The disk, the cache and the log: every step of Log keeps Data, the part *)
(* of the inductive invariant that says which blocks agree.                *)
(***************************************************************************)
EXTENDS LogInv

LEMMA DataInit == Init => Data
<1> SUFFICES ASSUME Init PROVE Data
  OBVIOUS
<1>1. /\ pc[Boot] = "read_head"
      /\ \A p \in Proc : pc[p] = "user"
      /\ lh = <<>>
      /\ head = <<>>
      /\ cache = disk
  BY LogAssumption DEF Init, BootPC, Agent
<1>2. QED
  BY <1>1 DEF Data, Distinct, Running, Agent

\* While a call is in progress no agent commits or recovers.
LEMMA CallAlone ==
  ASSUME Control, Up, InCall # {}
  PROVE  \A a \in Agent : pc[a] \notin {"write_log", "install_trans", "end_op"}
BY LogAssumption DEF Control, CommitAlone, InCommit, Up, Agent

\* The agent that commits or recovers is the only one.
LEMMA CommitterAlone ==
  ASSUME Control, NEW a \in Agent, a = Boot \/ Up,
         pc[a] \in {"write_log", "install_trans", "end_op"}
  PROVE  /\ \A c \in Agent : c # a => pc[c] \notin {"write_log", "install_trans", "end_op"}
         /\ InCall = {}
         /\ \A p \in Proc : held[p] = NoBlock
<1>1. CASE a = Boot
  BY <1>1, LogAssumption DEF Control, Running, InCall, Agent
<1>2. CASE a # Boot
  <2>1. a \in InCommit /\ pc[Boot] = "up"
    BY <1>2 DEF InCommit, Agent, Up
  <2>2. InCall = {} /\ \A p \in InCommit : p = a
    BY <2>1 DEF Control, CommitAlone
  <2>3. QED
    BY <2>1, <2>2, LogAssumption DEF Control, InCommit, InCall, Agent
<1>3. QED
  BY <1>1, <1>2

LEMMA DataLogWrite ==
  ASSUME IInv, NEW p \in Proc, NEW b \in Home, NEW v \in Val, LogWrite(p, b, v)
  PROVE  Data'
<1>0. TypeOK /\ Control /\ Data /\ Up /\ Boot \notin Proc
  BY LogAssumption DEF IInv, LogWrite
<1>1. \A a \in Agent : pc[a] \notin {"write_log", "install_trans", "end_op"}
  BY <1>0, CallAlone DEF LogWrite, InCall
<1>2. \A a \in Agent : pc'[a] \notin {"write_log", "install_trans", "end_op"}
  BY <1>0, <1>1 DEF LogWrite, Panic, TypeOK, Agent
<1>3. Running /\ Running'
  BY <1>0 DEF LogWrite, Panic, Running, Up, TypeOK, Agent
<1>4. head = <<>> /\ head' = head /\ lh' = lh /\ disk' = disk /\ Logged' = Logged
  BY <1>0, <1>1, <1>3 DEF LogWrite, Data, Logged, Agent
<1>5. \A c \in LogBlock : cache'[c] = disk'[c]
  BY <1>0, <1>4, Layout DEF LogWrite, Data, TypeOK
<1>6. \A c \in Home : c \notin Logged' /\ (\A q \in Proc : held'[q] # c)
                     => cache'[c] = disk'[c]
  <2>1. CASE cache' = cache /\ held' = held
    BY <1>0, <1>3, <1>4, <2>1 DEF Data
  <2>2. CASE cache' = [cache EXCEPT ![b] = v] /\ held' = [held EXCEPT ![p] = b]
    <3>1. held'[p] = b /\ \A q \in Proc : q # p => held'[q] = held[q]
      BY <1>0, <2>2 DEF TypeOK
    <3>2. held[p] = NoBlock
      BY <1>0 DEF LogWrite, Control
    <3>3. \A c \in Home : c # b => cache'[c] = cache[c]
      BY <1>0, <2>2, Layout DEF TypeOK
    <3>4. QED
      BY <1>0, <1>3, <1>4, <3>1, <3>2, <3>3, Layout DEF Data
  <2>3. QED
    BY <2>1, <2>2 DEF LogWrite
<1>7. Distinct(lh') /\ Distinct(head')
  BY <1>0, <1>4 DEF Data
<1>8. QED
  BY <1>2, <1>3, <1>4, <1>5, <1>6, <1>7 DEF Data, Agent

LEMMA DataAppend ==
  ASSUME IInv, NEW p \in Proc, LogAppend(p)
  PROVE  Data'
<1>0. TypeOK /\ Control /\ Data /\ Up /\ Boot \notin Proc
  BY LogAssumption DEF IInv, LogAppend
<1>1. held[p] \in Home
  BY <1>0 DEF LogAppend, Control, TypeOK
<1>2. \A a \in Agent : pc[a] \notin {"write_log", "install_trans", "end_op"}
  BY <1>0, CallAlone DEF LogAppend, InCall
<1>3. \A a \in Agent : pc'[a] \notin {"write_log", "install_trans", "end_op"}
  BY <1>0, <1>2 DEF LogAppend, TypeOK, Agent
<1>4. Running /\ Running'
  BY <1>0 DEF LogAppend, Running, Up, TypeOK, Agent
<1>5. head = <<>> /\ head' = head /\ disk' = disk /\ cache' = cache
  BY <1>0, <1>2, <1>4 DEF LogAppend, Data, Agent
<1>6. Logged' = Logged \cup {held[p]} /\ Distinct(lh')
  BY <1>0, <1>1, AppendLogged DEF LogAppend, Data
<1>7. \A q \in Proc : q # p => held'[q] = held[q]
  BY <1>0 DEF LogAppend, TypeOK
<1>8. \A c \in Home : c \notin Logged' /\ (\A q \in Proc : held'[q] # c)
                     => cache'[c] = disk'[c]
  BY <1>0, <1>4, <1>5, <1>6, <1>7 DEF Data
<1>9. QED
  BY <1>0, <1>3, <1>4, <1>5, <1>6, <1>8 DEF Data, Agent

LEMMA DataWriteLog ==
  ASSUME IInv, Roomy, NEW p \in Proc, WriteLog(p)
  PROVE  Data'
<1> DEFINE to == logstart + (tail[p] + 1)
           from == lh[tail[p] + 1]
<1>0. TypeOK /\ Control /\ Space /\ Data /\ Up /\ Boot \notin Proc /\ p \in Agent
  BY LogAssumption DEF IInv, WriteLog, Agent
<1>1. tail[p] + 1 \in 1 .. Len(lh) /\ tail[p] \in Nat /\ Len(lh) \in Nat
  BY <1>0 DEF WriteLog, TypeOK
<1>2. to \in LogBlock /\ from \in Home
  BY <1>0, <1>1, Slots DEF TypeOK
<1>3. /\ cache' = [cache EXCEPT ![to] = cache[from]]
      /\ disk' = [disk EXCEPT ![to] = cache[from]]
  <2>1. logstart + tail[p] + 1 = to
    BY <1>1 DEF logstart
  <2>2. QED
    BY <2>1 DEF WriteLog
<1>4. /\ \A c \in Block : c # to => cache'[c] = cache[c] /\ disk'[c] = disk[c]
      /\ cache'[to] = cache[from]
      /\ disk'[to] = cache[from]
  BY <1>0, <1>2, <1>3, Layout DEF TypeOK
<1>5. \A c \in Home : cache'[c] = cache[c] /\ disk'[c] = disk[c]
  BY <1>2, <1>4, Layout
<1>6. /\ pc' = pc /\ lh' = lh /\ head' = head /\ held' = held
      /\ pc[p] = "write_log"
      /\ tail'[p] = tail[p] + 1
  BY <1>0 DEF WriteLog, TypeOK
<1>7. \A c \in Agent : c # p => pc[c] \notin {"write_log", "install_trans", "end_op"}
  BY <1>0, <1>6, CommitterAlone
<1>8. \A i \in 1 .. tail'[p] : disk'[logstart + i] = cache'[lh[i]]
  <2> TAKE i \in 1 .. tail'[p]
  <2>1. i \in 1 .. Len(lh) /\ lh[i] \in Home /\ logstart + i \in Block
    <3>1. i \in 1 .. Len(lh)
      BY <1>1, <1>6
    <3>2. lh[i] \in Home
      BY <1>0, <3>1 DEF TypeOK
    <3>3. logstart + i \in LogBlock
      BY <1>0, <3>1, Slots
    <3>4. QED
      BY <3>1, <3>2, <3>3, Layout
  <2>2. CASE i = tail[p] + 1
    BY <1>4, <1>5, <2>1, <2>2
  <2>3. CASE i # tail[p] + 1
    <3>1. i \in 1 .. tail[p] /\ logstart + i # to
      BY <1>1, <1>6, <2>3 DEF logstart
    <3>2. QED
      BY <1>0, <1>4, <1>5, <1>6, <2>1, <3>1 DEF Data
  <2>4. QED
    BY <2>2, <2>3
<1>9. \A b \in LogBlock : cache'[b] = disk'[b]
  BY <1>0, <1>4, Layout DEF Data
<1>10. Running /\ Running' /\ Logged' = Logged
  BY <1>0, <1>6 DEF Running, Up, Logged
<1>11. /\ \A b \in Home : b \notin Logged' /\ (\A q \in Proc : held'[q] # b)
                          => cache'[b] = disk'[b]
       /\ head' = <<>>
  BY <1>0, <1>5, <1>6, <1>7, <1>10 DEF Data, Agent
<1>12. QED
  BY <1>0, <1>6, <1>7, <1>8, <1>9, <1>10, <1>11 DEF Data, Agent

LEMMA DataWriteHead ==
  ASSUME IInv, NEW p \in Proc, WriteHead(p)
  PROVE  Data'
<1>0. TypeOK /\ Control /\ Data /\ Up /\ Boot \notin Proc /\ p \in Agent
  BY LogAssumption DEF IInv, WriteHead, Agent
<1>1. \A c \in Agent : c # p => pc[c] \notin {"write_log", "install_trans", "end_op"}
  BY <1>0, CommitterAlone DEF WriteHead
<1>2. /\ pc'[p] = "install_trans"
      /\ tail'[p] = 0
      /\ \A c \in Agent : c # p => pc'[c] = pc[c]
      /\ UNCHANGED <<lh, disk, cache, held>>
      /\ head' = lh
  BY <1>0 DEF WriteHead, TypeOK
<1>3. Running /\ Running' /\ Logged' = Logged
  BY <1>0, <1>2 DEF Running, Up, Logged, Agent
<1>4. \A i \in DOMAIN lh : disk[logstart + i] = cache[lh[i]]
  BY <1>0 DEF WriteHead, LogWritten, Data, TypeOK
<1>5. QED
  BY <1>0, <1>1, <1>2, <1>3, <1>4 DEF Data, Agent

LEMMA DataInstall ==
  ASSUME IInv, Roomy, NEW a \in Agent, InstallTrans(a)
  PROVE  Data'
<1> DEFINE from == logstart + (tail[a] + 1)
           to == lh[tail[a] + 1]
<1>0. TypeOK /\ Control /\ Space /\ Data /\ Boot \notin Proc
  BY LogAssumption DEF IInv
<1>1. tail[a] + 1 \in 1 .. Len(lh) /\ tail[a] \in Nat /\ Len(lh) \in Nat
  BY <1>0 DEF InstallTrans, TypeOK
<1>2. from \in LogBlock /\ to \in Home
  BY <1>0, <1>1, Slots DEF TypeOK
<1>3. /\ cache' = [cache EXCEPT ![to] = cache[from]]
      /\ disk' = [disk EXCEPT ![to] = cache[from]]
  <2>1. logstart + tail[a] + 1 = from
    BY <1>1 DEF logstart
  <2>2. QED
    BY <2>1 DEF InstallTrans
<1>4. /\ \A c \in Block : c # to => cache'[c] = cache[c] /\ disk'[c] = disk[c]
      /\ cache'[to] = cache[from]
      /\ disk'[to] = cache[from]
      /\ cache[from] = disk[from]
  BY <1>0, <1>2, <1>3, Layout DEF TypeOK, Data
<1>5. \A c \in LogBlock : cache'[c] = cache[c] /\ disk'[c] = disk[c]
  BY <1>2, <1>4, Layout
<1>6. /\ pc' = pc /\ lh' = lh /\ head' = head /\ held' = held
      /\ pc[a] = "install_trans"
      /\ tail'[a] = tail[a] + 1
      /\ a = Boot \/ Up
  BY <1>0 DEF InstallTrans, TypeOK
<1>7. \A c \in Agent : c # a => pc[c] \notin {"write_log", "install_trans", "end_op"}
  BY <1>0, <1>6, CommitterAlone
<1>8. \A i \in 1 .. Len(lh) :
        /\ logstart + i \in LogBlock
        /\ lh[i] \in Home
        /\ lh[i] \in Block
        /\ lh[i] = to => i = tail[a] + 1
  <2> TAKE i \in 1 .. Len(lh)
  <2>1. logstart + i \in LogBlock /\ lh[i] \in Home /\ lh[i] \in Block
    <3>1. lh[i] \in Home
      BY <1>0 DEF TypeOK
    <3>2. logstart + i \in LogBlock
      BY <1>0, Slots
    <3>3. QED
      BY <3>1, <3>2, Layout
  <2>2. i \in DOMAIN lh /\ tail[a] + 1 \in DOMAIN lh
    BY <1>0, <1>1, Slots
  <2>3. QED
    BY <1>0, <2>1, <2>2 DEF Data, Distinct
<1>9. \A i \in 1 .. tail'[a] : disk'[lh[i]] = disk'[logstart + i]
  <2> TAKE i \in 1 .. tail'[a]
  <2>1. i \in 1 .. Len(lh)
    BY <1>1, <1>6
  <2>2. CASE i = tail[a] + 1
    BY <1>2, <1>4, <1>5, <2>2
  <2>3. CASE i # tail[a] + 1
    <3>1. i \in 1 .. tail[a]
      BY <1>1, <1>6, <2>3
    <3>2. disk[lh[i]] = disk[logstart + i]
      BY <1>0, <1>6, <3>1 DEF Data
    <3>3. disk'[lh[i]] = disk[lh[i]] /\ disk'[logstart + i] = disk[logstart + i]
      <4>1. lh[i] \in Block /\ logstart + i \in LogBlock
        BY <1>1, <1>8, <2>1
      <4>2. lh[i] # to
        BY <1>1, <1>8, <2>1, <2>3
      <4>3. QED
        BY <1>4, <1>5, <4>1, <4>2
    <3>4. QED
      BY <3>2, <3>3
  <2>4. QED
    BY <2>2, <2>3
<1>10. a \in Proc => \A i \in 1 .. Len(lh) : disk'[logstart + i] = cache'[lh[i]]
  <2> SUFFICES ASSUME a \in Proc, NEW i \in 1 .. Len(lh)
               PROVE  disk'[logstart + i] = cache'[lh[i]]
    OBVIOUS
  <2>1. disk[logstart + i] = cache[lh[i]]
    BY <1>0, <1>6, Slots DEF Data
  <2>2. CASE i = tail[a] + 1
    BY <1>2, <1>4, <1>5, <2>2
  <2>3. CASE i # tail[a] + 1
    <3>1. lh[i] \in Block /\ logstart + i \in LogBlock
      BY <1>1, <1>8
    <3>2. lh[i] # to
      BY <1>1, <1>8, <2>3
    <3>3. cache'[lh[i]] = cache[lh[i]] /\ disk'[logstart + i] = disk[logstart + i]
      BY <1>4, <1>5, <3>1, <3>2
    <3>4. QED
      BY <2>1, <3>3
  <2>4. QED
    BY <2>2, <2>3
<1>11. \A b \in LogBlock : cache'[b] = disk'[b]
  BY <1>0, <1>5 DEF Data
<1>12. /\ Running' <=> Running
       /\ Logged' = Logged
       /\ to \in Logged
  BY <1>0, <1>1, <1>6, Slots DEF Running, Logged
<1>13. ~Running' => cache' = disk'
  BY <1>0, <1>3, <1>12 DEF Data
<1>14. Running' => \A b \in Home : b \notin Logged' /\ (\A q \in Proc : held'[q] # b)
                                  => cache'[b] = disk'[b]
  BY <1>0, <1>4, <1>6, <1>12, Layout DEF Data
<1>15. Running' /\ (\A p \in Proc : pc'[p] # "install_trans") => head' = <<>>
  BY <1>0, <1>6, <1>12 DEF Data
<1>16. head' = lh' /\ DOMAIN lh' = 1 .. Len(lh) /\ Distinct(lh') /\ Distinct(head')
  BY <1>0, <1>6, Slots DEF Data
<1>17. QED
  BY <1>6, <1>7, <1>9, <1>10, <1>11, <1>13, <1>14, <1>15, <1>16 DEF Data, Agent

LEMMA DataErase ==
  ASSUME IInv, Roomy, NEW a \in Agent, EraseLog(a)
  PROVE  /\ Data'
         /\ \A b \in Home : cache[b] = disk[b]
<1>0. TypeOK /\ Control /\ Space /\ Data /\ Boot \notin Proc
  BY LogAssumption DEF IInv
<1>1. /\ \A c \in Agent : c # a => pc[c] \notin {"write_log", "install_trans", "end_op"}
      /\ \A p \in Proc : held[p] = NoBlock
  BY <1>0, CommitterAlone DEF EraseLog
<1>2. \A b \in Home : cache[b] = disk[b]
  <2>1. CASE a = Boot
    BY <1>0, <2>1 DEF EraseLog, Data, Running
  <2>2. CASE a # Boot
    <3>1. a \in Proc /\ Running
      BY <2>2 DEF EraseLog, Running, Up, Agent
    <3>2. \A i \in DOMAIN lh : disk[lh[i]] = cache[lh[i]]
      BY <1>0, <3>1, Slots DEF EraseLog, Installed, Data
    <3>3. \A b \in Logged : cache[b] = disk[b]
      BY <3>2 DEF Logged
    <3>4. \A b \in Home : b \notin Logged => cache[b] = disk[b]
      <4>1. \A b \in Home : b \notin Logged /\ (\A p \in Proc : held[p] # b) => cache[b] = disk[b]
        BY <1>0, <3>1 DEF Data
      <4>2. \A b \in Home, p \in Proc : held[p] # b
        BY <1>1, Layout
      <4>3. QED
        BY ONLY <4>1, <4>2
    <3>5. QED
      BY ONLY <3>3, <3>4
  <2>3. QED
    BY <2>1, <2>2
<1>3. /\ \A c \in Agent : pc'[c] \notin {"write_log", "install_trans"}
      /\ Running'
      /\ lh' = <<>> /\ head' = <<>> /\ cache' = cache /\ disk' = disk
  BY <1>0, <1>1 DEF EraseLog, Running, Up, TypeOK, Agent
<1>4. QED
  BY <1>0, <1>2, <1>3 DEF Data, Distinct, Agent

\* Process p moves in begin_op() or end_op(); others may be woken up.
Moved(p) ==
  /\ pc'[Boot] = pc[Boot]
  /\ pc[p] \notin {"write_log", "install_trans"}
  /\ pc'[p] # "install_trans"
  /\ pc'[p] = "end_op" => lh = <<>>
  /\ \A q \in Proc \ {p} :
       pc'[q] = pc[q] \/ (pc[q] = "sleep" /\ pc'[q] = "begin_op")

LEMMA DataSame ==
  ASSUME Control, Data, NEW p \in Proc, Moved(p),
         UNCHANGED <<disk, head, cache, lh, held, tail>>
  PROVE  Data'
<1>1. Logged' = Logged /\ (Running' <=> Running)
  BY DEF Logged, Running, Moved
<1>2. tail[p] = 0
  BY DEF Control, Moved, Agent
<1>3. \A q \in Proc : pc'[q] = "install_trans" <=> pc[q] = "install_trans"
  BY DEF Moved
<1>4. \A q \in Proc \ {p} :
        /\ pc'[q] = "write_log" => pc[q] = "write_log"
        /\ pc'[q] = "end_op" => pc[q] = "end_op"
  BY DEF Moved
<1>5. Distinct(lh') /\ Distinct(head') /\ (\A b \in LogBlock : cache'[b] = disk'[b])
  BY DEF Data, Distinct
<1>6. /\ ~Running' => cache' = disk'
      /\ Running' => \A b \in Home : b \notin Logged' /\ (\A q \in Proc : held'[q] # b)
                                      => cache'[b] = disk'[b]
  BY <1>1 DEF Data
<1>7. Running' /\ (\A q \in Proc : pc'[q] # "install_trans") => head' = <<>>
  BY <1>1, <1>3 DEF Data
<1>8. \A q \in Proc : pc'[q] = "write_log" =>
        \A i \in 1 .. tail'[q] : disk'[logstart + i] = cache'[lh'[i]]
  BY <1>2, <1>4 DEF Data
<1>9. \A q \in Proc : pc'[q] = "install_trans" =>
        \A i \in DOMAIN lh' : disk'[logstart + i] = cache'[lh'[i]]
  BY <1>3 DEF Data
<1>10. \A a \in Agent : pc'[a] = "install_trans" =>
         /\ head' = lh'
         /\ \A i \in 1 .. tail'[a] : disk'[lh'[i]] = disk'[logstart + i]
  <2>1. \A a \in Agent : pc'[a] = "install_trans" => pc[a] = "install_trans"
    BY <1>3 DEF Moved, Agent
  <2>2. QED
    BY <2>1 DEF Data
<1>11. \A q \in Proc : pc'[q] = "end_op" => lh' = <<>>
  BY <1>4 DEF Data, Moved
<1>12. QED
  BY ONLY <1>5, <1>6, <1>7, <1>8, <1>9, <1>10, <1>11 DEF Data

LEMMA DataStep ==
  ASSUME IInv, Roomy, [Next]_vars
  PROVE  Data'
<1> USE DEF Agent
<1>0. TypeOK /\ Control /\ Data /\ Boot \notin Proc
  BY LogAssumption DEF IInv
<1>2. ASSUME NEW p \in Proc, BeginOpSleep(p) PROVE Data'
  BY <1>0, <1>2, DataSame DEF BeginOpSleep, Moved, TypeOK
<1>3. ASSUME NEW p \in Proc, BeginOp(p) PROVE Data'
  BY <1>0, <1>3, DataSame DEF BeginOp, Moved, TypeOK
<1>4. ASSUME NEW p \in Proc, EndOp(p) PROVE Data'
  <2>1. ~committing
    BY <1>0, <1>4 DEF EndOp, Control, CommitAlone, InCall
  <2>2. Moved(p)
    <3>1. CASE outstanding = 1
      <4>1. pc' = [pc EXCEPT ![p] = IF lh = <<>> THEN "end_op" ELSE "write_log"]
        BY <1>4, <2>1, <3>1 DEF EndOp
      <4>2. QED
        BY <1>0, <1>4, <4>1 DEF EndOp, Moved, TypeOK
    <3>2. CASE outstanding # 1
      <4>1. pc' = Wakeup(p, "user")
        BY <1>4, <2>1, <3>2 DEF EndOp
      <4>2. QED
        BY <1>0, <1>4, <4>1 DEF EndOp, Wakeup, Moved, Up, TypeOK
    <3>3. QED
      BY <3>1, <3>2
  <2>3. QED
    BY <1>0, <1>4, <2>2, DataSame DEF EndOp
<1>5. ASSUME NEW p \in Proc, EndCommit(p) PROVE Data'
  <2>1. Moved(p)
    BY <1>0, <1>5 DEF EndCommit, Wakeup, Moved, Control, Up, TypeOK
  <2>2. QED
    BY <1>0, <1>5, <2>1, DataSame DEF EndCommit
<1>6. CASE ReadHead
  <2>1. /\ pc'[Boot] = "install_trans" /\ tail'[Boot] = 0
        /\ \A p \in Proc : pc'[p] = "user"
        /\ ~Running /\ ~Running'
        /\ lh' = head /\ UNCHANGED <<disk, head, cache>>
    BY <1>0, <1>6 DEF ReadHead, Control, Running, TypeOK
  <2>2. Distinct(lh') /\ Distinct(head') /\ (\A b \in LogBlock : cache'[b] = disk'[b])
    BY <1>0, <2>1 DEF Data, Distinct
  <2>3. cache' = disk'
    BY <1>0, <2>1 DEF Data
  <2>4. \A a \in Agent : pc'[a] = "install_trans" =>
          /\ head' = lh'
          /\ \A i \in 1 .. tail'[a] : disk'[lh'[i]] = disk'[logstart + i]
    BY <1>0, <2>1
  <2>5. QED
    BY ONLY <2>1, <2>2, <2>3, <2>4 DEF Data
<1>7. CASE Crash
  <2>1. /\ pc'[Boot] = "read_head"
        /\ \A p \in Proc : pc'[p] = "user"
        /\ lh' = <<>> /\ head' = head /\ disk' = disk /\ cache' = disk
    BY <1>0, <1>7 DEF Crash, BootPC
  <2>2. QED
    BY <1>0, <2>1 DEF Data, Distinct, Running
<1>8. CASE UNCHANGED vars
  <2>1. /\ lh' = lh /\ head' = head /\ cache' = cache /\ disk' = disk
        /\ pc' = pc /\ held' = held /\ tail' = tail
    BY <1>8 DEF vars
  <2>2. Logged' = Logged /\ (Running' <=> Running)
    BY <2>1 DEF Logged, Running
  <2>3. Distinct(lh') /\ Distinct(head')
    BY <1>0, <2>1 DEF Data, Distinct
  <2>4. QED
    BY ONLY <1>0, <2>1, <2>2, <2>3 DEF Data
<1>9. QED
  BY <1>2, <1>3, <1>4, <1>5, <1>6, <1>7, <1>8,
     DataLogWrite, DataAppend, DataWriteLog, DataWriteHead, DataInstall, DataErase
  DEF Next
=============================================================================
