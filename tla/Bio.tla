-------------------------------- MODULE Bio --------------------------------
(***************************************************************************)
(* The buffer cache (bio.c) on top of the disk driver (ide.c).             *)
(*                                                                         *)
(* A process gets a buffer with bread(), changes it and passes it to       *)
(* bwrite(), or marks it B_DIRTY as log_write() does, and gives it back    *)
(* with brelse().  bcache.lock and idelock protect one critical section    *)
(* each per call; every one is an action.  bget() and iderw() sleep on the *)
(* buffer, so that wakeup() of one wakes the sleepers of the other too.    *)
(*                                                                         *)
(* The disk works on one command at a time and raises an interrupt when it *)
(* is done; it does not fail.                                              *)
(***************************************************************************)
EXTENDS Naturals, Sequences, SequencesExt, FiniteSets

CONSTANTS
  Proc, Block, Val,
  NoBlock,  \* a buffer that caches nothing (dev == -1)
  NoBuf,    \* sleeps on nothing
  NBUF,     \* param.h: number of buffers
  PINMAX,   \* most blocks the log keeps dirty in the cache
  HOLD      \* most buffers a process has at a time

ASSUME BioAssumption ==
  /\ NBUF \in Nat \ {0} /\ PINMAX \in Nat /\ HOLD \in Nat
  /\ Block \subseteq Nat /\ NoBlock \notin Block /\ NoBuf \notin 1 .. NBUF

Buf == 1 .. NBUF

VARIABLES
  lru,                   \* the list of all buffers, most recently used first
  blockno, flags, data,  \* struct buf
  idequeue,              \* buffers waiting for the disk, the active one first
  device,                \* the disk: "idle", "busy", or "intr" when it is done
  cmd,                   \* the command it works on
  disk,                  \* contents of the disk
  pc, want, chan, held   \* of a process: the block it asks bget() for, the
                         \* buffer it passes to iderw() or sleeps on, the
                         \* buffers it has, latest first

bufs == <<lru, blockno, flags, data>>
ide == <<idequeue, device, cmd, disk>>
vars == <<bufs, ide, pc, want, chan, held>>

NoCmd == [op |-> "none"]

\* binit(): every buffer is put in front of the one before.
Init ==
  /\ lru = [i \in Buf |-> NBUF + 1 - i]
  /\ blockno = [b \in Buf |-> NoBlock]
  /\ flags = [b \in Buf |-> {}]
  /\ disk \in [Block -> Val]
  /\ \E v \in Val : data = [b \in Buf |-> v]
  /\ idequeue = <<>>
  /\ device = "idle"
  /\ cmd = NoCmd
  /\ pc = [p \in Proc |-> "run"]
  /\ want = [p \in Proc |-> NoBlock]
  /\ chan = [p \in Proc |-> NoBuf]
  /\ held = [p \in Proc |-> <<>>]

\* Mutant: nobody is woken.
Wakeup_None(b) == pc

\* wakeup(b): sleepers of bget() start over, those of iderw() look again.
Wakeup(b) ==
  [p \in Proc |-> IF chan[p] # b THEN pc[p]
                  ELSE CASE pc[p] = "sleep" -> "bget"
                         [] pc[p] = "io" -> "iderw_loop"
                         [] OTHER -> pc[p]]

-----------------------------------------------------------------------------
(* bio.c *)

Cached(blk) == {b \in Buf : blockno[b] = blk}

\* Mutant: a buffer with changes that are not on disk is recycled.
Free_Dirty == {b \in Buf : "BUSY" \notin flags[b]}

Free == {b \in Buf : flags[b] \cap {"BUSY", "DIRTY"} = {}}

\* The free buffer at the far end of the list.
Victim == lru[CHOOSE i \in DOMAIN lru :
                 lru[i] \in Free /\ \A j \in DOMAIN lru : lru[j] \in Free => j <= i]

\* p takes buffer b for blk; bread() goes on to the disk unless it is B_VALID.
Got(p, b, blk, fl) ==
  /\ blockno' = [blockno EXCEPT ![b] = blk]
  /\ flags' = [flags EXCEPT ![b] = fl \cup {"BUSY"}]
  /\ held' = [held EXCEPT ![p] = <<b>> \o @]
  /\ want' = [want EXCEPT ![p] = NoBlock]
  /\ IF "VALID" \in fl
     THEN pc' = [pc EXCEPT ![p] = "run"] /\ chan' = [chan EXCEPT ![p] = NoBuf]
     ELSE pc' = [pc EXCEPT ![p] = "iderw"] /\ chan' = [chan EXCEPT ![p] = b]

\* One pass of bget() over the list, under bcache.lock.
BgetCached(p, blk) ==
  \E b \in Cached(blk) :
    /\ "BUSY" \notin flags[b]
    /\ Got(p, b, blk, flags[b])
    /\ UNCHANGED <<lru, data, ide>>

BgetSleep(p, blk) ==
  \E b \in Cached(blk) :
    /\ "BUSY" \in flags[b]
    /\ pc' = [pc EXCEPT ![p] = "sleep"]
    /\ want' = [want EXCEPT ![p] = blk]
    /\ chan' = [chan EXCEPT ![p] = b]
    /\ UNCHANGED <<bufs, ide, held>>

\* Mutant: the recycled buffer keeps its flags.
Recycled_Kept == flags[Victim]

Recycled == {}

BgetRecycle(p, blk) ==
  /\ Cached(blk) = {}
  /\ Free # {}
  /\ Got(p, Victim, blk, Recycled)
  /\ UNCHANGED <<lru, data, ide>>

BgetPanic(p, blk) ==
  /\ Cached(blk) = {}
  /\ Free = {}
  /\ pc' = [pc EXCEPT ![p] = "panic"]
  /\ UNCHANGED <<bufs, ide, want, chan, held>>

Bget(p, blk) ==
  BgetCached(p, blk) \/ BgetSleep(p, blk) \/ BgetRecycle(p, blk) \/ BgetPanic(p, blk)

\* The file system asks for a second block in one order only: log block, then
\* home block; indirect block, then bitmap block.
Bread(p, blk) ==
  /\ pc[p] = "run"
  /\ Len(held[p]) < HOLD
  /\ \A i \in DOMAIN held[p] : blk < blockno[held[p][i]]
  /\ Bget(p, blk)

\* goto loop
BgetAgain(p) == pc[p] = "bget" /\ Bget(p, want[p])

\* p changes a buffer it has, and bwrite() writes it.
Bwrite(p, v) ==
  /\ pc[p] = "run"
  /\ held[p] # <<>>
  /\ LET b == Head(held[p]) IN
     /\ data' = [data EXCEPT ![b] = v]
     /\ flags' = [flags EXCEPT ![b] = @ \cup {"DIRTY"}]
     /\ chan' = [chan EXCEPT ![p] = b]
  /\ pc' = [pc EXCEPT ![p] = "iderw"]
  /\ UNCHANGED <<lru, blockno, ide, want, held>>

Pinned == {b \in Buf : "DIRTY" \in flags[b] /\ b \notin ToSet(idequeue)}

\* p changes a buffer it has and log_write() marks it.
MarkDirty(p, v) ==
  /\ pc[p] = "run"
  /\ held[p] # <<>>
  /\ LET b == Head(held[p]) IN
     /\ Cardinality(Pinned \cup {b}) <= PINMAX
     /\ data' = [data EXCEPT ![b] = v]
     /\ flags' = [flags EXCEPT ![b] = @ \cup {"DIRTY"}]
  /\ UNCHANGED <<lru, blockno, ide, pc, want, chan, held>>

MoveToFront(b) == <<b>> \o Remove(lru, b)

Brelse(p) ==
  /\ pc[p] = "run"
  /\ held[p] # <<>>
  /\ LET b == Head(held[p]) IN
     /\ lru' = MoveToFront(b)
     /\ flags' = [flags EXCEPT ![b] = @ \ {"BUSY"}]
     /\ pc' = Wakeup(b)
  /\ held' = [held EXCEPT ![p] = Tail(@)]
  /\ UNCHANGED <<blockno, data, ide, want, chan>>

-----------------------------------------------------------------------------
(* ide.c *)

\* idestart(b): the data of a write goes to the disk with the command.
Idestart(b) ==
  /\ device' = "busy"
  /\ cmd' = IF "DIRTY" \in flags[b]
            THEN [op |-> "write", block |-> blockno[b], data |-> data[b]]
            ELSE [op |-> "read", block |-> blockno[b]]

\* iderw() up to its first sleep().
Iderw(p) ==
  /\ pc[p] = "iderw"
  /\ idequeue' = Append(idequeue, chan[p])
  /\ IF idequeue = <<>> THEN Idestart(chan[p]) ELSE UNCHANGED <<device, cmd>>
  /\ pc' = [pc EXCEPT ![p] = "io"]
  /\ UNCHANGED <<bufs, disk, want, chan, held>>

\* The loop of iderw(): B_VALID without B_DIRTY ends it.
Synced(b) == "VALID" \in flags[b] /\ "DIRTY" \notin flags[b]

IderwLoop(p) ==
  /\ pc[p] = "iderw_loop"
  /\ IF Synced(chan[p])
     THEN pc' = [pc EXCEPT ![p] = "run"] /\ chan' = [chan EXCEPT ![p] = NoBuf]
     ELSE pc' = [pc EXCEPT ![p] = "io"] /\ UNCHANGED chan
  /\ UNCHANGED <<bufs, ide, want, held>>

\* The disk carries out its command.
DiskDone ==
  /\ device = "busy"
  /\ device' = "intr"
  /\ disk' = IF cmd.op = "write" THEN [disk EXCEPT ![cmd.block] = cmd.data] ELSE disk
  /\ UNCHANGED <<bufs, idequeue, cmd, pc, want, chan, held>>

\* Mutant: the next request is not started.
StartNext_None(q) == device' = "idle" /\ cmd' = NoCmd

\* Start the disk on the next request, if there is one.
StartNext(q) == IF q = <<>> THEN device' = "idle" /\ cmd' = NoCmd ELSE Idestart(Head(q))

\* ideintr(): the interrupt is about the first request of the queue.
Ideintr ==
  /\ device = "intr"
  /\ idequeue # <<>>
  /\ LET b == Head(idequeue) IN
     /\ data' = IF "DIRTY" \in flags[b] THEN data ELSE [data EXCEPT ![b] = disk[cmd.block]]
     /\ flags' = [flags EXCEPT ![b] = (@ \cup {"VALID"}) \ {"DIRTY"}]
     /\ pc' = Wakeup(b)
  /\ idequeue' = Tail(idequeue)
  /\ StartNext(Tail(idequeue))
  /\ UNCHANGED <<lru, blockno, disk, want, chan, held>>

-----------------------------------------------------------------------------
Panicked == \E p \in Proc : pc[p] = "panic"

Step(p) ==
  \/ \E blk \in Block : Bread(p, blk)
  \/ \E v \in Val : Bwrite(p, v) \/ MarkDirty(p, v)
  \/ BgetAgain(p) \/ Brelse(p) \/ Iderw(p) \/ IderwLoop(p)

\* A panic stops every CPU.
Next ==
  \/ ~Panicked /\ \E p \in Proc : Step(p)
  \/ ~Panicked /\ (DiskDone \/ Ideintr)
  \/ Panicked /\ UNCHANGED vars

Spec == Init /\ [][Next]_vars

-----------------------------------------------------------------------------
(* Properties *)

\* Every variable has its type.
TypeOK ==
  /\ lru \in [Buf -> Buf] /\ \A b \in Buf : b \in ToSet(lru)
  /\ blockno \in [Buf -> Block \cup {NoBlock}]
  /\ flags \in [Buf -> SUBSET {"BUSY", "VALID", "DIRTY"}]
  /\ data \in [Buf -> Val] /\ disk \in [Block -> Val]
  /\ ToSet(idequeue) \subseteq Buf
  /\ device \in {"idle", "busy", "intr"} /\ cmd.op \in {"none", "read", "write"}
  /\ pc \in [Proc -> {"run", "bget", "sleep", "iderw", "io", "iderw_loop", "panic"}]
  /\ want \in [Proc -> Block \cup {NoBlock}] /\ chan \in [Proc -> Buf \cup {NoBuf}]
  /\ \A p \in Proc : ToSet(held[p]) \subseteq Buf /\ Len(held[p]) <= HOLD

\* Nobody is forgotten: a process asleep in bget() waits for a buffer that
\* another process has and will give back, and one that waits for the disk
\* has its request in the queue.  The disk works exactly when there are requests,
\* and on the first of them, although processes append requests while ideintr()
\* starts the next.
WaitersServed ==
  /\ TypeOK
  /\ \A p \in Proc :
       /\ pc[p] = "sleep" => \E q \in Proc \ {p} : chan[p] \in ToSet(held[q])
       /\ pc[p] = "io" => chan[p] \in ToSet(idequeue)
  /\ device = "idle" <=> idequeue = <<>>
  /\ device # "idle" =>
       LET b == Head(idequeue) IN cmd.block = blockno[b] /\ (cmd.op = "write" <=> "DIRTY" \in flags[b])

\* The contents of a block: those of its buffer, once it was read.
Content ==
  [blk \in Block |->
     LET c == {b \in Cached(blk) : flags[b] \cap {"VALID", "DIRTY"} # {}}
     IN  IF c = {} THEN disk[blk] ELSE data[CHOOSE b \in c : TRUE]]

Holder == [blk \in Block |-> {p \in Proc : \E b \in Cached(blk) : b \in ToSet(held[p])}]

Store == INSTANCE BlockStore WITH content <- Content, holder <- Holder

\* One copy of every block, for one process at a time: recycling, sleeping
\* for a busy buffer and the order of requests never show.
IsBlockStore == Store!Spec
=============================================================================
