------------------------------ MODULE Umalloc ------------------------------
(***************************************************************************)
(* The user's memory allocator (umalloc.c): a circular list of free blocks *)
(* in order of address.  Addresses and sizes count headers; the list       *)
(* starts with base, at address 0, below the heap.                         *)
(***************************************************************************)
EXTENDS Naturals, FiniteSets

CONSTANTS
  HEAP,      \* sbrk() fails beyond this address
  NALLOC,    \* 4096: the least that morecore() asks for
  Units      \* values of nunits: a header and what is asked for

Addr == 0 .. HEAP
Base == 0
Null == HEAP + 1

VARIABLES
  h,         \* memory: size and ptr of headers, freep, and the end of the heap
  live       \* the blocks that the program has

\* The heap begins after base; nothing is allocated.
UmallocInit ==
  /\ h = [size |-> [a \in Addr |-> 0], ptr |-> [a \in Addr |-> Base],
          freep |-> Null, brk |-> 1]
  /\ live = {}

\* The search in free(): the last free block below bp, or the last of all.
RECURSIVE Before(_, _, _)
Before(m, p, bp) ==
  IF \/ bp > p /\ bp < m.ptr[p]
     \/ p >= m.ptr[p] /\ (bp > p \/ bp < m.ptr[p])
  THEN p ELSE Before(m, m.ptr[p], bp)

\* Mutant: a block is not joined with the one above it.
JoinUp_None(m, p, bp) == FALSE

JoinUp(m, p, bp) == bp + m.size[bp] = m.ptr[p]

free(m, bp) ==
  LET p == Before(m, m.freep, bp)
      up == m.ptr[p]
      m1 == IF JoinUp(m, p, bp)
            THEN [m EXCEPT !.size[bp] = @ + m.size[up], !.ptr[bp] = m.ptr[up]]
            ELSE [m EXCEPT !.ptr[bp] = up]
      m2 == IF p + m.size[p] = bp
            THEN [m1 EXCEPT !.size[p] = @ + m1.size[bp], !.ptr[p] = m1.ptr[bp]]
            ELSE [m1 EXCEPT !.ptr[p] = bp]
  IN  [m2 EXCEPT !.freep = p]

Asked(nu) == IF nu < NALLOC THEN NALLOC ELSE nu

\* morecore(): the memory of sbrk() goes through free().
morecore(m, nu) ==
  free([m EXCEPT !.size[m.brk] = Asked(nu), !.brk = @ + Asked(nu)], m.brk)

\* Mutant: the block that is returned is the lower part.
Carved_Low(m, p) == p

\* A block is taken from the upper part of a larger one.
Carved(m, p) == p + m.size[p]

\* The loop of malloc(): the memory after it, and the block or Null.
RECURSIVE Find(_, _, _, _)
Find(m, prevp, p, nu) ==
  IF m.size[p] = nu
  THEN [m |-> [m EXCEPT !.ptr[prevp] = m.ptr[p], !.freep = prevp], p |-> p]
  ELSE IF m.size[p] > nu
  THEN LET m1 == [m EXCEPT !.size[p] = @ - nu]
           q == Carved(m1, p)
       IN  [m |-> [m1 EXCEPT !.size[q] = nu, !.freep = prevp], p |-> q]
  ELSE IF p # m.freep THEN Find(m, p, m.ptr[p], nu)
  ELSE IF m.brk + Asked(nu) > HEAP + 1 THEN [m |-> m, p |-> Null]
  ELSE LET m1 == morecore(m, nu) IN Find(m1, m1.freep, m1.ptr[m1.freep], nu)

malloc(m, nu) ==
  LET m1 == IF m.freep # Null THEN m
            ELSE [m EXCEPT !.freep = Base, !.ptr[Base] = Base, !.size[Base] = 0]
  IN  Find(m1, m1.freep, m1.ptr[m1.freep], nu)

RECURSIVE Chain(_, _, _)
Chain(m, p, seen) == IF p \in seen THEN seen ELSE Chain(m, m.ptr[p], seen \cup {p})

\* The blocks on the free list.
FreeBlocks(m) == IF m.freep = Null THEN {} ELSE Chain(m, m.freep, {})

\* The memory without old headers: size is read in blocks, ptr in free ones.
Headers(m, blocks) ==
  [m EXCEPT !.size = [a \in Addr |-> IF a \in FreeBlocks(m) \cup blocks THEN @[a] ELSE 0],
            !.ptr = [a \in Addr |-> IF a \in FreeBlocks(m) THEN @[a] ELSE Base]]

Malloc ==
  \E nu \in Units :
    LET r == malloc(h, nu) IN
    live' = live \cup ({r.p} \ {Null}) /\ h' = Headers(r.m, live')

Free ==
  \E bp \in live : live' = live \ {bp} /\ h' = Headers(free(h, bp), live')

UmallocNext == Malloc \/ Free

-----------------------------------------------------------------------------
(* Properties *)

Extent(b) == b .. b + h.size[b] - 1

\* Every unit of the heap is in one block: the program's blocks and the free
\* ones do not overlap, and malloc() and free() lose nothing.  The free list goes
\* up in addresses but for one step back to base, and no two free blocks touch:
\* free() has joined them.
HeapCovered ==
  LET Blocks == (FreeBlocks(h) \cup live) \ {Base} IN
  /\ UNION {Extent(b) : b \in Blocks} = 1 .. h.brk - 1
  /\ \A a, b \in Blocks : a # b => Extent(a) \cap Extent(b) = {}
  /\ Cardinality({p \in FreeBlocks(h) : h.ptr[p] <= p}) <= 1
  /\ \A p, q \in FreeBlocks(h) : p + h.size[p] # q \/ p = q
=============================================================================
