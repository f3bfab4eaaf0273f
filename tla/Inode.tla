------------------------------- MODULE Inode -------------------------------
(***************************************************************************)
(* The contents of files: the free bitmap, the blocks of an inode and the  *)
(* loops of readi(), writei() and itrunc() over them (fs.c), with the      *)
(* chunks of filewrite() and the shared offset of an open file (file.c).   *)
(*                                                                         *)
(* An action is one turn of a loop: the inode stays locked through a call, *)
(* the bitmap block is shared by calls on all inodes.  A block holds BSIZE *)
(* units; a unit is a datum, or an entry of an indirect block.  Every      *)
(* inode has one open file, which processes may share.                     *)
(***************************************************************************)
EXTENDS Integers, Sequences, FiniteSets, FiniteSetsExt, TLC

CONSTANTS
  Proc, NoProc,
  File,       \* inodes
  FirstBlock, LastBlock,   \* the data blocks of the disk
  BSIZE, NDIRECT,
  LOGSIZE,
  Val,        \* data
  Lengths     \* arguments n of read() and write()

NINDIRECT == BSIZE
MAXFILE == NDIRECT + NINDIRECT
LIMIT == MAXFILE * BSIZE
Block == FirstBlock .. LastBlock

ASSUME InodeAssumption ==
  /\ NoProc \notin Proc /\ FirstBlock > 0 /\ BSIZE > 0 /\ NDIRECT > 0
  /\ LOGSIZE > 5 /\ 0 \notin Val /\ Lengths \subseteq Nat \ {0}

VARIABLES
  used,   \* the bitmap: blocks marked in use
  store,  \* the contents of blocks
  ino,    \* struct inode: addrs and size
  dino,   \* the copy on disk
  lock,   \* the process that has the inode locked
  off,    \* f->off
  th      \* of a process: what it does and how far it is

vars == <<used, store, ino, dino, lock, off, th>>

NoInode == [addrs |-> [k \in 0 .. NDIRECT |-> 0], size |-> 0]
Zeros == [k \in 0 .. BSIZE - 1 |-> 0]
Idle == [pc |-> "user", f |-> 0, n |-> 0, i |-> 0, n1 |-> 0, tot |-> 0, v |-> 0, got |-> <<>>]

Init ==
  /\ used = {} /\ store = [b \in Block |-> Zeros]
  /\ ino = [f \in File |-> NoInode] /\ dino = ino
  /\ lock = [f \in File |-> NoProc] /\ off = [f \in File |-> 0]
  /\ th = [p \in Proc |-> Idle]

At(p, l) == th[p].pc = l
Go(p, r) == th' = [th EXCEPT ![p] = r @@ @]

-----------------------------------------------------------------------------
(* balloc() and bmap(), on d: used, store and the inode's addrs *)

Current(f) == [used |-> used, store |-> store, addrs |-> ino[f].addrs]

Cleared(s, b) == [s EXCEPT ![b] = Zeros]

Free(d) == Block \ d.used

Balloc(d) == [d EXCEPT !.used = @ \cup {Min(Free(d))}, !.store = Cleared(@, Min(Free(d)))]

Direct(d, k) ==
  IF d.addrs[k] # 0 THEN d
  ELSE [Balloc(d) EXCEPT !.addrs[k] = Min(Free(d))]

Indirect(d, k) ==
  LET a == d.addrs[NDIRECT] IN
  IF d.store[a][k] # 0 THEN d
  ELSE [Balloc(d) EXCEPT !.store[a][k] = Min(Free(d))]

Bmap(d, bn) ==
  IF bn < NDIRECT THEN Direct(d, bn) ELSE Indirect(Direct(d, NDIRECT), bn - NDIRECT)

\* The block that bmap() returns, 0 if there is none yet.
Addr(d, bn) ==
  IF bn < NDIRECT THEN d.addrs[bn]
  ELSE IF d.addrs[NDIRECT] = 0 THEN 0 ELSE d.store[d.addrs[NDIRECT]][bn - NDIRECT]

\* The blocks that bmap() allocates.
Missing(d, bn) ==
  Cardinality({x \in {"index", "data"} :
                 IF x = "data" THEN Addr(d, bn) = 0
                 ELSE bn >= NDIRECT /\ d.addrs[NDIRECT] = 0})

-----------------------------------------------------------------------------
(* write() *)

\* max in filewrite(), in units
MaxChunk == ((LOGSIZE - 1 - 1 - 2) \div 2) * BSIZE

Write(p) ==
  /\ At(p, "user")
  /\ \E f \in File, n \in Lengths, v \in Val :
       Go(p, [pc |-> "chunk", f |-> f, n |-> n, v |-> v])
  /\ UNCHANGED <<used, store, ino, dino, lock, off>>

\* begin_op(), ilock() and the tests of writei(); a write that fails ends the loop.
WriteChunk(p) ==
  LET f == th[p].f
      n1 == Min({th[p].n - th[p].i, MaxChunk})
  IN  /\ At(p, "chunk") /\ lock[f] = NoProc
      /\ IF off[f] > ino[f].size \/ off[f] + n1 > LIMIT
         THEN th' = [th EXCEPT ![p] = Idle] /\ UNCHANGED lock
         ELSE /\ lock' = [lock EXCEPT ![f] = p]
              /\ Go(p, [pc |-> "writei", n1 |-> n1, tot |-> 0])
      /\ UNCHANGED <<used, store, ino, dino, off>>

\* m: how much of a block one turn of the loop copies.
Piece(p) == Min({th[p].n1 - th[p].tot, BSIZE - ((off[th[p].f] + th[p].tot) % BSIZE)})

\* Mutant: the rest of the block is overwritten.
Bytes_Rest(at, m) == (at % BSIZE) .. BSIZE - 1

\* Where in its block a piece of m bytes goes.
Bytes(at, m) == (at % BSIZE) .. (at % BSIZE) + m - 1

WriteBlock(p) ==
  LET f == th[p].f
      at == off[f] + th[p].tot
      m == Piece(p)
      d == Current(f)
      e == Bmap(d, at \div BSIZE)
      b == Addr(e, at \div BSIZE)
  IN  /\ At(p, "writei") /\ th[p].tot < th[p].n1
      /\ IF Missing(d, at \div BSIZE) > Cardinality(Free(d))
         THEN Go(p, [pc |-> "panic"]) /\ UNCHANGED <<used, store, ino>>
         ELSE /\ used' = e.used
              /\ ino' = [ino EXCEPT ![f].addrs = e.addrs]
              /\ store' = [e.store EXCEPT ![b] = [k \in DOMAIN @ |->
                   IF k \in Bytes(at, m) THEN th[p].v ELSE @[k]]]
              /\ Go(p, [tot |-> th[p].tot + m])
      /\ UNCHANGED <<dino, lock, off>>

\* Mutant: a write that ends at the end of a block does not extend the file.
Grows_Inside(f, end) == end > ino[f].size /\ end % BSIZE # 0

Grows(f, end) == end > ino[f].size

\* The end of writei(), and of one turn of the loop of filewrite().
WriteEnd(p) ==
  LET f == th[p].f
      end == off[f] + th[p].n1
  IN  /\ At(p, "writei") /\ th[p].tot >= th[p].n1
      /\ ino' = IF Grows(f, end) THEN [ino EXCEPT ![f].size = end] ELSE ino
      /\ dino' = IF Grows(f, end) THEN [dino EXCEPT ![f] = ino'[f]] ELSE dino
      /\ off' = [off EXCEPT ![f] = end]
      /\ lock' = [lock EXCEPT ![f] = NoProc]
      /\ IF th[p].i + th[p].n1 = th[p].n THEN th' = [th EXCEPT ![p] = Idle]
         ELSE Go(p, [pc |-> "chunk", i |-> th[p].i + th[p].n1])
      /\ UNCHANGED <<used, store>>

-----------------------------------------------------------------------------
(* read() *)

\* fileread() up to the loop of readi(), which reads no further than the file.
Read(p) ==
  /\ At(p, "user")
  /\ \E f \in File, n \in Lengths :
       /\ lock[f] = NoProc /\ off[f] <= ino[f].size
       /\ lock' = [lock EXCEPT ![f] = p]
       /\ Go(p, [pc |-> "readi", f |-> f, n1 |-> Min({n, ino[f].size - off[f]})])
  /\ UNCHANGED <<used, store, ino, dino, off>>

\* Mutant: the copy starts at the beginning of the block.
Source_Start(at, k) == k - 1

\* Where in its block the k-th byte of a piece is.
Source(at, k) == (at % BSIZE) + k - 1

ReadBlock(p) ==
  LET f == th[p].f
      at == off[f] + th[p].tot
      b == Addr(Current(f), at \div BSIZE)
  IN  /\ At(p, "readi") /\ th[p].tot < th[p].n1
      /\ Go(p, [tot |-> th[p].tot + Piece(p),
                got |-> th[p].got \o [k \in 1 .. Piece(p) |-> store[b][Source(at, k)]]])
      /\ UNCHANGED <<used, store, ino, dino, lock, off>>

ReadEnd(p) ==
  /\ At(p, "readi") /\ th[p].tot = th[p].n1
  /\ off' = [off EXCEPT ![th[p].f] = @ + th[p].n1]
  /\ lock' = [lock EXCEPT ![th[p].f] = NoProc]
  /\ th' = [th EXCEPT ![p] = Idle]
  /\ UNCHANGED <<used, store, ino, dino>>

-----------------------------------------------------------------------------
(* itrunc(), when iput() drops an inode without links; i counts its blocks *)

Trunc(p) ==
  /\ At(p, "user")
  /\ \E f \in File :
       /\ \A q \in Proc : th[q].f # f
       /\ lock' = [lock EXCEPT ![f] = p]
       /\ Go(p, [pc |-> "itrunc", f |-> f])
  /\ UNCHANGED <<used, store, ino, dino, off>>

\* bfree() of a block, or of none (0); it panics if the block is free.
FreeingFree(b) == b # 0 /\ b \notin used
Bfree(b) == used \ {b}

\* Mutant: the last entry of the index block is not looked at.
Entries_Short == MAXFILE - 1

\* The loops end after NDIRECT and after NINDIRECT entries.
Entries == MAXFILE

\* One turn of either loop: bfree() if there is a block.  An entry of the index
\* block stays as it is.
TruncBlock(p) ==
  LET f == th[p].f
      i == th[p].i
      b == Addr(Current(f), i)
  IN  /\ At(p, "itrunc") /\ i < Entries
      /\ IF FreeingFree(b)
         THEN Go(p, [pc |-> "panic"]) /\ UNCHANGED <<used, ino>>
         ELSE /\ used' = Bfree(b)
              /\ ino' = IF i < NDIRECT THEN [ino EXCEPT ![f].addrs[i] = 0] ELSE ino
              /\ Go(p, [i |-> i + 1])
      /\ UNCHANGED <<store, dino, lock, off>>

\* The index block itself, the size, iupdate().  The inode is then free; its
\* next open() starts at offset 0.
TruncEnd(p) ==
  LET f == th[p].f
      b == ino[f].addrs[NDIRECT]
  IN  /\ At(p, "itrunc") /\ th[p].i = Entries
      /\ IF FreeingFree(b)
         THEN Go(p, [pc |-> "panic"]) /\ UNCHANGED <<used, ino, dino, lock, off>>
         ELSE /\ used' = Bfree(b)
              /\ ino' = [ino EXCEPT ![f] = NoInode]
              /\ dino' = [dino EXCEPT ![f] = NoInode]
              /\ lock' = [lock EXCEPT ![f] = NoProc]
              /\ off' = [off EXCEPT ![f] = 0]
              /\ th' = [th EXCEPT ![p] = Idle]
      /\ UNCHANGED store

\* Another open() of the file, by itself or after the last close().
Open(f) ==
  /\ \A q \in Proc : th[q].f # f
  /\ off[f] # 0
  /\ off' = [off EXCEPT ![f] = 0]
  /\ UNCHANGED <<used, store, ino, dino, lock, th>>

Halted == \E p \in Proc : th[p].pc = "panic"

Step(p) ==
  \/ Write(p) \/ WriteChunk(p) \/ WriteBlock(p) \/ WriteEnd(p)
  \/ Read(p) \/ ReadBlock(p) \/ ReadEnd(p)
  \/ Trunc(p) \/ TruncBlock(p) \/ TruncEnd(p)

Next == IF Halted THEN UNCHANGED vars
        ELSE (\E p \in Proc : Step(p)) \/ (\E f \in File : Open(f))

Spec == Init /\ [][Next]_vars

-----------------------------------------------------------------------------
(* Properties *)

\* The variables have their types.
TypeOK ==
  /\ used \subseteq Block
  /\ store \in [Block -> [0 .. BSIZE - 1 -> {0} \cup Val \cup Block]]
  /\ ino \in [File -> [addrs : [0 .. NDIRECT -> {0} \cup Block], size : 0 .. LIMIT]]
  /\ dino \in [File -> [addrs : [0 .. NDIRECT -> {0} \cup Block], size : 0 .. LIMIT]]
  /\ lock \in [File -> Proc \cup {NoProc}]
  /\ off \in [File -> 0 .. LIMIT]

Truncating(f) == \E p \in Proc : At(p, "itrunc") /\ th[p].f = f

\* Entry k of f, from where itrunc() has come to if it is at work; entry MAXFILE
\* is the index block.
Owns(f, k) ==
  IF k = MAXFILE THEN ino[f].addrs[NDIRECT]
  ELSE IF \E p \in Proc : At(p, "itrunc") /\ th[p].f = f /\ k < th[p].i THEN 0
  ELSE Addr(Current(f), k)

\* Every block in use belongs to one inode at one place, and every block of an
\* inode is in use: none is lost or given out twice, while calls on several
\* inodes allocate and free (balloc, bfree, bmap, itrunc).  An unlocked inode is
\* the same on disk, although only a write that extends the file calls iupdate().
BlocksExact ==
  /\ TypeOK
  /\ \A b \in Block :
       Cardinality({e \in File \X (0 .. MAXFILE) : Owns(e[1], e[2]) = b})
         = IF b \in used THEN 1 ELSE 0
  /\ \A f \in File : lock[f] = NoProc => dino[f] = ino[f]

Content(f) ==
  [k \in 0 .. LIMIT - 1 |->
     LET b == Addr(Current(f), k \div BSIZE) IN
     IF Truncating(f) \/ b = 0 THEN 0 ELSE store[b][k % BSIZE]]

\* What read() has copied so far is what the file holds from the offset on.
ReadsContent ==
  \A p \in Proc : At(p, "readi") =>
    \A k \in DOMAIN th[p].got : th[p].got[k] = Content(th[p].f)[off[th[p].f] + k - 1]

CallOn(f) ==
  IF lock[f] = NoProc THEN [busy |-> FALSE, span |-> {}, v |-> 0]
  ELSE LET t == th[lock[f]] IN
       [busy |-> TRUE, v |-> IF t.pc \in {"writei", "panic"} THEN t.v ELSE 0,
        span |-> IF t.pc \in {"writei", "panic"} THEN off[f] .. off[f] + t.n1 - 1 ELSE {}]

\* The blocks, the bitmap and the indices together behave as arrays of bytes
\* that no call on another file disturbs.
Store == INSTANCE FileStore WITH
  content <- [f \in File |-> Content(f)],
  call <- [f \in File |-> CallOn(f)]

IsFileStore == Store!Spec
=============================================================================
