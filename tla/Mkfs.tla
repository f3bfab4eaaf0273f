-------------------------------- MODULE Mkfs --------------------------------
(***************************************************************************)
(* mkfs.c: the first image of the file system.  Sizes count directory      *)
(* entries; a block has BSIZE of them.                                     *)
(***************************************************************************)
EXTENDS Naturals, FiniteSets, TLC

CONSTANTS
  FSSIZE, LOGSIZE, NINODES, BSIZE, NDIRECT, NINDIRECT,
  IPB, BPB,   \* inodes, and bits of the bitmap, in a block
  FileSizes

MAXFILE == NDIRECT + NINDIRECT
nbitmap == FSSIZE \div BPB + 1
ninodeblocks == NINODES \div IPB + 1
nmeta == 2 + LOGSIZE + ninodeblocks + nbitmap
inodestart == 2 + LOGSIZE
bmapstart == 2 + LOGSIZE + ninodeblocks
IBLOCK(i) == inodestart + i \div IPB

VARIABLES
  freeblock, freeinode,
  dino,       \* inodes: size, addrs, and the entries of the index block
  bitmap      \* blocks marked in use; written at the end

mkvars == <<freeblock, freeinode, dino, bitmap>>

New == [size |-> 0, addrs |-> [k \in 0 .. NDIRECT |-> 0], index |-> [k \in 0 .. NINDIRECT - 1 |-> 0]]


Direct(fbn) == fbn < NDIRECT

\* One turn of the loop of iappend(): a block for unit off, at most two new ones.
Grown(d, fb) ==
  LET fbn == d.size \div BSIZE IN
  IF Direct(fbn)
  THEN IF d.addrs[fbn] # 0 THEN <<d, fb>> ELSE <<[d EXCEPT !.addrs[fbn] = fb], fb + 1>>
  ELSE LET i == fbn - NDIRECT
           d1 == IF d.addrs[NDIRECT] # 0 THEN d ELSE [d EXCEPT !.addrs[NDIRECT] = fb]
           f1 == IF d.addrs[NDIRECT] # 0 THEN fb ELSE fb + 1
       IN  IF d1.index[i] # 0 THEN <<d1, f1>> ELSE <<[d1 EXCEPT !.index[i] = f1], f1 + 1>>

\* iappend() of n units; the loop goes from block to block.
RECURSIVE iappend(_, _, _)
iappend(d, fb, n) ==
  IF n = 0 THEN <<d, fb>>
  ELSE LET g == Grown(d, fb)
           room == BSIZE - (d.size % BSIZE)
           n1 == IF n < room THEN n ELSE room
       IN  iappend([g[1] EXCEPT !.size = @ + n1], g[2], n - n1)

\* main() up to the files: the root directory with "." and "..".
MkfsInit ==
  LET root == iappend(New, nmeta, 2) IN
  /\ dino = 1 :> root[1]
  /\ freeblock = root[2] /\ freeinode = 2
  /\ bitmap = {}

\* A file of n units, with its entry in the root; iappend() asserts that files
\* are not too large, and the disk is large enough for those of the build.
AddFile(n) ==
  LET root == iappend(dino[1], freeblock, 1)
      file == iappend(New, root[2], n)
  IN  /\ bitmap = {} /\ freeinode < NINODES
      /\ dino[1].size < MAXFILE * BSIZE /\ n <= MAXFILE * BSIZE
      /\ file[2] <= FSSIZE
      /\ dino' = freeinode :> file[1] @@ [dino EXCEPT ![1] = root[1]]
      /\ freeblock' = file[2] /\ freeinode' = freeinode + 1
      /\ UNCHANGED bitmap

\* Mutant: the last block is left out.
Marked_Less == 0 .. freeblock - 2

\* balloc() marks the first freeblock blocks.
Marked == 0 .. freeblock - 1

\* The size of the root is rounded up, by a block if it is a multiple already.
Finish ==
  /\ bitmap = {} /\ freeblock < BPB
  /\ dino' = [dino EXCEPT ![1].size = ((@ \div BSIZE) + 1) * BSIZE]
  /\ bitmap' = Marked
  /\ UNCHANGED <<freeblock, freeinode>>

MkfsNext == Finish \/ \E n \in FileSizes : AddFile(n)

-----------------------------------------------------------------------------
(* Properties *)

Places == (DOMAIN dino) \X (0 .. MAXFILE)
BlockAt(x) ==
  IF x[2] <= NDIRECT THEN dino[x[1]].addrs[x[2]] ELSE dino[x[1]].index[x[2] - NDIRECT - 1]

=============================================================================
