------------------------------ MODULE Umalloc -------------------------------
(***************************************************************************)
(* malloc and free of the user library (umalloc.c).  Addresses count       *)
(* headers.  The free blocks are a circular list in the order of their     *)
(* addresses, through base, a block of size 0 below the heap.              *)
(***************************************************************************)
EXTENDS Integers, FiniteSets

CONSTANTS
  Units,   \* sizes of the blocks asked for, header included
  Chunk,   \* the least that morecore asks of sbrk (4096)
  Limit    \* sbrk fails beyond this address

Base == 0
HeapStart == 2
Addrs == 0 .. Limit

ASSUME UmallocAssumption ==
  Units \subseteq Nat \ {0} /\ Chunk \in Nat \ {0} /\ Limit \in Nat /\ Limit > HeapStart

VARIABLES
  heap,  \* freep, the end of the heap, and the headers: s.ptr and s.size
  live   \* the blocks the program has

mallocVars == <<heap, live>>

\* Before the first call freep is 0; the first malloc makes base the list.
MallocInit ==
  /\ heap = [freep |-> Base, brk |-> HeapStart,
             ptr |-> [a \in Addrs |-> Base], size |-> [a \in Addrs |-> 0]]
  /\ live = {}

\* The list from freep on, once around.
Walk(h) ==
  LET w[i \in 0 .. Limit] == IF i = 0 THEN h.freep ELSE h.ptr[w[i - 1]]
  IN w
Around(h) == CHOOSE k \in 1 .. Limit : Walk(h)[k] = h.freep
                                         /\ \A j \in 1 .. k - 1 : Walk(h)[j] # h.freep
FreeList(h) == {Walk(h)[i] : i \in 1 .. Around(h)}

\* bp belongs between p and the block after it, which may be the first again.
Follows(h, p, bp) ==
  \/ p < bp /\ bp < h.ptr[p]
  \/ p >= h.ptr[p] /\ (bp > p \/ bp < h.ptr[p])

\* mutant: the place of the block is not looked for
InsertAnywhere(h, bp) ==
  LET p == h.freep
  IN [h EXCEPT !.ptr[bp] = h.ptr[p], !.ptr[p] = bp]

\* free: the block goes into the list and is joined with its neighbours.
Insert(h, bp) ==
  LET p == CHOOSE q \in FreeList(h) : Follows(h, q, bp)
      up == h.ptr[p]
      joined == bp + h.size[bp] = up
      next == IF joined THEN h.ptr[up] ELSE up
      size == IF joined THEN h.size[bp] + h.size[up] ELSE h.size[bp]
      h1 == [h EXCEPT !.freep = p, !.ptr[bp] = next, !.size[bp] = size]
  IN IF p + h.size[p] = bp
     THEN [h1 EXCEPT !.ptr[p] = next, !.size[p] = @ + size]
     ELSE [h1 EXCEPT !.ptr[p] = bp]

\* morecore: a new block at the end of the heap, given to free.
CoreUnits(nu) == IF nu < Chunk THEN Chunk ELSE nu
Morecore(h, nu) ==
  Insert([h EXCEPT !.brk = @ + CoreUnits(nu), !.size[h.brk] = CoreUnits(nu)], h.brk)

\* The places where malloc finds a block, in the order of its loop.
Fitting(h, nu) == {i \in 1 .. Around(h) : h.size[Walk(h)[i]] >= nu}

\* malloc: the first block that is large enough, or the end of it.
Take(h, nu) ==
  LET i == CHOOSE j \in Fitting(h, nu) : \A k \in Fitting(h, nu) : j <= k
      p == Walk(h)[i]
      prevp == Walk(h)[i - 1]
      rest == h.size[p] - nu
  IN IF rest = 0
     THEN [at |-> p, h |-> [h EXCEPT !.freep = prevp, !.ptr[prevp] = h.ptr[p]]]
     ELSE [at |-> p + rest,
           h |-> [h EXCEPT !.freep = prevp, !.size[p] = rest, !.size[p + rest] = nu]]

\* What is not a header of the allocator does not count: the program may
\* have written over it.
Headers(h, blocks) ==
  [h EXCEPT !.ptr = [a \in Addrs |-> IF a \in FreeList(h) THEN h.ptr[a] ELSE 0],
            !.size = [a \in Addrs |-> IF a \in FreeList(h) \cup blocks THEN h.size[a] ELSE 0]]

Malloc(nu) ==
  /\ Fitting(heap, nu) # {} \/ heap.brk + CoreUnits(nu) <= Limit
  /\ LET found == Take(IF Fitting(heap, nu) # {} THEN heap ELSE Morecore(heap, nu), nu)
     IN /\ live' = live \cup {found.at}
        /\ heap' = Headers(found.h, live \cup {found.at})

Free(bp) ==
  /\ bp \in live
  /\ heap' = Headers(Insert(heap, bp), live \ {bp})
  /\ live' = live \ {bp}

MallocNext == (\E nu \in Units : Malloc(nu)) \/ \E bp \in live : Free(bp)

-----------------------------------------------------------------------------
(* Properties.                                                             *)

Extent(bp) == bp .. bp + heap.size[bp] - 1

\* Every unit of the heap belongs to one block, free or in use, whatever the
\* order of the calls (umalloc.c:33-42, 76-82).
HeapTiled ==
  \A a \in HeapStart .. heap.brk - 1 :
    Cardinality({bp \in FreeList(heap) \cup live : a \in Extent(bp)}) = 1

\* The list stays in the order of the addresses, so that free finds the place
\* of every block in use, and one place only (umalloc.c:30-32).
OnePlace ==
  \A bp \in live : Cardinality({p \in FreeList(heap) : Follows(heap, p, bp)}) = 1

\* No two free blocks touch: free joins them, on both sides at once
\* (umalloc.c:33-42).
Joined ==
  \A p, q \in FreeList(heap) : p # Base /\ q # Base => p + heap.size[p] # q

\* malloc and free keep the heap in order (umalloc.c:23-85): blocks neither
\* overlap nor leave gaps, free finds the place of each, and free neighbours
\* are joined.
HeapInv == HeapTiled /\ OnePlace /\ Joined
=============================================================================
