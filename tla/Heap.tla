-------------------------------- MODULE Heap --------------------------------
(***************************************************************************)
(* The heap of a user program: malloc(), free() and morecore() of          *)
(* umalloc.c.                                                              *)
(*                                                                         *)
(* Addresses and sizes are in units of a Header.  The static header base   *)
(* is at address 0, below the heap; ptr and size are the fields of the     *)
(* headers, wherever one is.  What is left of a header that has been       *)
(* joined to another, or of the ptr of a block in use, is not kept.        *)
(***************************************************************************)
EXTENDS Naturals, FiniteSets, FiniteSetsExt

CONSTANTS
  HeapStart,   \* the first address sbrk() returns
  HeapEnd,     \* sbrk() fails beyond
  NALLOC,      \* units morecore() asks for at least (4096)
  Request      \* sizes malloc() is called with, the header included

base == 0

VARIABLES
  freep,       \* a block of the free list, or None before the first malloc()
  ptr, size,   \* the headers
  brk,         \* the end of the heap
  used         \* the blocks the program has been given and not freed

heapVars == <<freep, ptr, size, brk, used>>

None == HeapEnd
Addr == {base} \union (HeapStart..(HeapEnd - 1))

HeapInit ==
  /\ freep = None
  /\ ptr = [a \in Addr |-> base]
  /\ size = [a \in Addr |-> 0]
  /\ brk = HeapStart
  /\ used = {}

-----------------------------------------------------------------------------
(* A heap h is a record of freep, ptr and size.                            *)

\* Where free() puts bp: the block before it on the list, from p on
RECURSIVE before(_, _, _)
before(h, bp, p) ==
  LET next == h.ptr[p]
  IN  IF (p < bp /\ bp < next) \/ (p >= next /\ (bp > p \/ bp < next)) THEN p
      ELSE before(h, bp, next)

\* Mutant: the block above is joined without its size.
freed_Forgets(h, bp) ==
  LET p == before(h, bp, h.freep)
      next == h.ptr[p]
      up == [h EXCEPT !.ptr[bp] = IF bp + h.size[bp] = next THEN h.ptr[next] ELSE next]
  IN  IF p + up.size[p] = bp
      THEN [up EXCEPT !.size[p] = @ + up.size[bp], !.ptr[p] = up.ptr[bp], !.freep = p]
      ELSE [up EXCEPT !.ptr[p] = bp, !.freep = p]

freed(h, bp) ==
  LET p == before(h, bp, h.freep)
      next == h.ptr[p]
      up == IF bp + h.size[bp] = next
            THEN [h EXCEPT !.size[bp] = @ + h.size[next], !.ptr[bp] = h.ptr[next]]
            ELSE [h EXCEPT !.ptr[bp] = next]
  IN  IF p + up.size[p] = bp
      THEN [up EXCEPT !.size[p] = @ + up.size[bp], !.ptr[p] = up.ptr[bp], !.freep = p]
      ELSE [up EXCEPT !.ptr[p] = bp, !.freep = p]

\* The block before the first one on the list with nunits, from prevp on; None
\* when the search is back at freep
RECURSIVE fit(_, _, _)
fit(h, nunits, prevp) ==
  LET p == h.ptr[prevp]
  IN  IF h.size[p] >= nunits THEN prevp
      ELSE IF p = h.freep THEN None
      ELSE fit(h, nunits, p)

-----------------------------------------------------------------------------

Heap == [freep |-> freep, ptr |-> ptr, size |-> size]

RECURSIVE list(_, _)
list(h, p) == IF h.ptr[p] = base THEN {} ELSE {h.ptr[p]} \union list(h, h.ptr[p])

\* The heap becomes h, with the blocks u in use.
Becomes(h, u) ==
  LET free == list(h, base)
  IN  /\ freep' = h.freep
      /\ ptr' = [a \in Addr |-> IF a \in {base} \union free THEN h.ptr[a] ELSE base]
      /\ size' = [a \in Addr |-> IF a \in free \union u THEN h.size[a] ELSE 0]
      /\ used' = u

\* The list of malloc()'s first call: base alone
Started == IF freep # None THEN Heap ELSE [Heap EXCEPT !.freep = base, !.ptr[base] = base]

\* A block is cut off the end of the one found, or is all of it.
taken(h, nunits, prevp) ==
  LET p == h.ptr[prevp]
      rest == h.size[p] - nunits
  IN  IF rest = 0 THEN [h EXCEPT !.ptr[prevp] = h.ptr[p], !.freep = prevp]
      ELSE [h EXCEPT !.size[p] = rest, !.size[p + rest] = nunits, !.freep = prevp]

\* morecore(): sbrk(), then free() of what it returned
more(nunits) == IF nunits < NALLOC THEN NALLOC ELSE nunits
morecore(h, nunits) == freed([h EXCEPT !.size[brk] = more(nunits)], brk)

Gives(h, nunits, prevp) ==
  LET p == h.ptr[prevp]
  IN  Becomes(taken(h, nunits, prevp), used \union {p + h.size[p] - nunits})

malloc(nunits) ==
  LET h == Started
      found == fit(h, nunits, h.freep)
      grown == morecore(h, nunits)
  IN  \/ found # None /\ Gives(h, nunits, found) /\ UNCHANGED brk
      \/ /\ found = None /\ brk + more(nunits) <= HeapEnd
         /\ Gives(grown, nunits, fit(grown, nunits, grown.freep))
         /\ brk' = brk + more(nunits)
      \/ /\ found = None /\ brk + more(nunits) > HeapEnd
         /\ Becomes(h, used) /\ UNCHANGED brk

free(bp) ==
  /\ Becomes(freed(Heap, bp), used \ {bp})
  /\ UNCHANGED brk

HeapNext ==
  \/ \E n \in Request : malloc(n)
  \/ \E bp \in used : free(bp)

-----------------------------------------------------------------------------

\* The blocks on the list and the blocks in use are the heap, each unit once:
\* nothing is lost, given out twice or shared, however blocks are split, freed
\* and joined.  The list goes up from base and back to it, freep is on it, and
\* no two of its blocks touch, so that the largest request that fits is found.
HeapTiled ==
  LET spare == list(Heap, base)
      blocks == spare \union used
      units(b) == b..(b + size[b] - 1)
  IN  freep # None =>
        /\ spare \intersect used = {}
        /\ UNION {units(b) : b \in blocks} = HeapStart..(brk - 1)
        /\ MapThenSumSet(LAMBDA b : size[b], blocks) = brk - HeapStart
        /\ freep \in spare \union {base}
        /\ \A p \in spare : ptr[p] = base \/ p + size[p] < ptr[p]
=============================================================================
