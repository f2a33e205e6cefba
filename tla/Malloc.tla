------------------------------- MODULE Malloc -------------------------------
(***************************************************************************)
(* malloc and free of the user library (umalloc.c): a circular list of     *)
(* free blocks in address order, grown by sbrk.  Addresses count headers;  *)
(* the header base lies below the heap, at 0.                              *)
(***************************************************************************)
EXTENDS Integers, FiniteSets, TLC

CONSTANTS
  HeapMax,       \* the address at which sbrk fails
  MinCore,       \* the least number of units morecore asks for (4096)
  HdrBytes,      \* sizeof(Header)
  MallocBytes,   \* the numbers of bytes asked for
  MaxGaps,       \* how often the program moves the break by itself
  MaxCalls       \* how often it calls malloc and free

ASSUME MallocAssumption == HeapMax \in Nat /\ MinCore \in Nat \ {0} /\ HdrBytes \in Nat \ {0}

VARIABLES
  hdr,           \* ptr and size of the headers written
  freep,         \* where the last search ended, -1 before the first
  brk,           \* the first address past the heap
  used,          \* ghost: the blocks handed out, with the bytes asked for
  gaps,          \* ghost: the units below the break that are not malloc's
  calls          \* ghost: calls made

mvars == <<hdr, freep, brk, used, gaps, calls>>

base == 0
Null == -1

MallocInit ==
  /\ hdr = base :> [ptr |-> base, size |-> 0]
  /\ freep = Null /\ brk = 1
  /\ used = {} /\ gaps = {} /\ calls = 0

\* The free block after which bp belongs.
RECURSIVE Before(_, _, _)
Before(h, p, bp) ==
  LET n == h[p].ptr
  IN  IF (bp > p /\ bp < n) \/ (p >= n /\ (bp > p \/ bp < n)) THEN p ELSE Before(h, n, bp)

NeverJoins(h, a, b) == FALSE

Joins(h, a, b) == a + h[a].size = b

\* bp is linked behind p and joined with its neighbours.
Freed(h, fp, bp) ==
  LET p == Before(h, fp, bp)
      n == h[p].ptr
      up == IF Joins(h, bp, n)
            THEN [h EXCEPT ![bp] = [ptr |-> h[n].ptr, size |-> h[bp].size + h[n].size]]
            ELSE [h EXCEPT ![bp].ptr = n]
  IN  [fp |-> p,
       h |-> IF Joins(up, p, bp)
             THEN [up EXCEPT ![p] = [ptr |-> up[bp].ptr, size |-> up[p].size + up[bp].size]]
             ELSE [up EXCEPT ![p].ptr = bp]]

\* The block before the first one, from p on, that holds n units; Null when the search is back
\* at freep.
RECURSIVE Search(_, _, _, _)
Search(h, fp, prevp, n) ==
  LET p == h[prevp].ptr
  IN  IF h[p].size >= n THEN prevp ELSE IF p = fp THEN Null ELSE Search(h, fp, p, n)

\* A header of n units, linked nowhere yet.
Header(a, n) == a :> [ptr |-> base, size |-> n]

\* The tail of a larger block is handed out.
Splits(h, p, n) ==
  LET at == p + h[p].size - n
  IN  [at |-> at, h |-> Header(at, n) @@ [h EXCEPT ![p].size = @ - n]]

Units(nbytes) == (nbytes + HdrBytes - 1) \div HdrBytes + 1

\* The block after prevp, which holds n units, or its tail, is handed out.
Take(h, prevp, n, nbytes) ==
  LET p == h[prevp].ptr
      cut == Splits(h, p, n)
      whole == h[p].size = n
  IN  /\ hdr' = IF whole THEN [h EXCEPT ![prevp].ptr = h[p].ptr] ELSE cut.h
      /\ used' = used \cup {[at |-> IF whole THEN p ELSE cut.at, bytes |-> nbytes]}
      /\ freep' = prevp

malloc(nbytes) ==
  LET n == Units(nbytes)
      fp == IF freep = Null THEN base ELSE freep
      prevp == Search(hdr, fp, fp, n)
      nu == IF n < MinCore THEN MinCore ELSE n
      core == Freed(Header(brk, nu) @@ hdr, fp, brk)
  IN  /\ calls < MaxCalls /\ calls' = calls + 1
      /\ IF prevp # Null
         THEN Take(hdr, prevp, n, nbytes) /\ UNCHANGED brk
         ELSE IF brk + nu > HeapMax
         THEN freep' = fp /\ UNCHANGED <<hdr, brk, used>>
         ELSE /\ Take(core.h, Search(core.h, core.fp, core.fp, n), n, nbytes)
              /\ brk' = brk + nu
      /\ UNCHANGED gaps

free(b) ==
  LET f == Freed(hdr, freep, b.at)
  IN  /\ calls < MaxCalls /\ calls' = calls + 1
      /\ hdr' = f.h /\ freep' = f.fp
      /\ used' = used \ {b}
      /\ UNCHANGED <<brk, gaps>>

\* The program itself moves the break: the heap of malloc is no longer contiguous.
sbrk ==
  /\ brk < HeapMax /\ Cardinality(gaps) < MaxGaps
  /\ brk' = brk + 1
  /\ gaps' = gaps \cup {brk}
  /\ UNCHANGED <<hdr, freep, used, calls>>

MallocNext ==
  \/ \E n \in MallocBytes : malloc(n)
  \/ \E b \in used : free(b)
  \/ sbrk

-----------------------------------------------------------------------------
(* Properties.                                                             *)

\* The blocks of the free list.
RECURSIVE Listed(_, _)
Listed(p, seen) == IF p \in seen THEN seen ELSE Listed(hdr[p].ptr, seen \cup {p})

OnFreeList == IF freep = Null THEN {} ELSE Listed(freep, {})
UnitsOf(a) == a..(a + hdr[a].size - 1)

\* Whatever is allocated and freed in whatever order, every unit that sbrk gave to malloc is in
\* exactly one block, free or handed out, and a block handed out has room for what was asked.
HeapPartitioned ==
  LET blocks == (OnFreeList \ {base}) \cup {b.at : b \in used}
  IN  /\ UNION {UnitsOf(a) : a \in blocks} = (1..(brk - 1)) \ gaps
      /\ \A a, b \in blocks : a # b => UnitsOf(a) \cap UnitsOf(b) = {}
      /\ OnFreeList \cap {b.at : b \in used} = {}
      /\ \A b \in used : (hdr[b.at].size - 1) * HdrBytes >= b.bytes

\* The free list is a single circle through base in address order, and no two blocks of it touch:
\* free joined every pair of neighbours, so memory is never fragmented by the allocator alone.
FreeListCoalesced ==
  freep # Null =>
    /\ base \in OnFreeList
    /\ \A a \in OnFreeList :
         LET n == hdr[a].ptr
         IN  /\ IF n = base THEN \A b \in OnFreeList : b <= a
                ELSE n > a /\ \A b \in OnFreeList : b <= a \/ b >= n
             /\ a # base /\ n # base => a + hdr[a].size < n

\* malloc and free keep the heap exact: every unit is in one block, free or handed out, and the
\* free blocks are one circle in which no two neighbours are left apart.
HeapExact == HeapPartitioned /\ FreeListCoalesced
=============================================================================
