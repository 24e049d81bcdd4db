-------------------------- MODULE FastAllocProofs ---------------------------
(***************************************************************************)
(* Proofs about FastAlloc, for every set of paths, every pool size and     *)
(* every request that fits a pool.                                         *)
(***************************************************************************)
EXTENDS FastAlloc, TLAPS

\* The pointer and what is left make up the pool, on cache-line boundaries.
HeapInv ==
    \A p \in up : \A m \in Media :
        /\ heap[p][m].curr + heap[p][m].left = PoolSize
        /\ heap[p][m].curr % CacheLine = 0

\* The allocator's blocks lie below its pointer in the current pool; other
\* pools have smaller numbers, and other allocators of the path are older.
BlocksInv ==
    \A b \in blocks :
        /\ b.id < count
        /\ b.init <= inits[b.path]
        /\ b.path \in up /\ b.init = inits[b.path] =>
              /\ b.pool <= heap[b.path][b.medium].cnt
              /\ b.pool = heap[b.path][b.medium].cnt =>
                    b.start + b.size <= heap[b.path][b.medium].curr

AllocInv == TypeOK /\ HeapInv /\ BlocksInv /\ InsidePool /\ Disjoint

-----------------------------------------------------------------------------
\* Rounding a request up gives whole cache lines, at least one and not more
\* than a pool has.
LEMMA RoundUpType ==
  ASSUME NEW request \in Sizes
  PROVE  /\ RoundUp(request) \in Nat
         /\ RoundUp(request) >= CacheLine /\ RoundUp(request) <= PoolSize
         /\ RoundUp(request) % CacheLine = 0
<1>1. request \in Nat /\ request # 0
  BY AllocAssumption
<1>2. RoundUp(request) <= PoolSize
  BY AllocAssumption
<1>3. QED
  BY <1>1, <1>2 DEF RoundUp, CacheLine

\* What a pool that serves a request of size bytes looks like.
LEMMA PoolForType ==
  ASSUME TypeOK, HeapInv, NEW p \in up, NEW m \in Media,
         NEW size \in Nat, size <= PoolSize
  PROVE  LET h == PoolFor(heap[p][m], size)
         IN  /\ h = [cnt |-> h.cnt, curr |-> h.curr, left |-> h.left]
             /\ h.cnt \in Nat /\ h.curr \in Nat /\ h.left \in Nat
             /\ h.curr + h.left = PoolSize /\ size <= h.left
             /\ h.curr % CacheLine = 0
             /\ \/ h = heap[p][m]
                \/ h.cnt = heap[p][m].cnt + 1
<1>1. heap[p][m] \in Heap
  BY DEF TypeOK
<1>2. PoolSize \in Nat
  BY AllocAssumption
<1>3. heap[p][m].cnt \in Nat /\ heap[p][m].curr \in Nat /\ heap[p][m].left \in Nat
  BY <1>1 DEF Heap
<1>4. heap[p][m].curr + heap[p][m].left = PoolSize /\ heap[p][m].curr % CacheLine = 0
  BY DEF HeapInv
<1>5. CASE size > heap[p][m].left
  BY <1>2, <1>3, <1>5 DEF PoolFor, CacheLine
<1>6. CASE ~(size > heap[p][m].left)
  BY <1>1, <1>3, <1>4, <1>6 DEF PoolFor, Heap
<1>7. QED
  BY <1>5, <1>6

\* An allocation keeps the invariant: the block begins where the pool ends.
LEMMA AllocKeepsInv ==
  ASSUME AllocInv, NEW p \in Paths, NEW m \in Media, NEW request \in Sizes, Alloc(p, m, request)
  PROVE  AllocInv'
<1> DEFINE size == RoundUp(request)
           h == PoolFor(heap[p][m], size)
           new == [id |-> count, path |-> p, init |-> inits[p], medium |-> m,
                   pool |-> h.cnt, start |-> h.curr, size |-> size]
<1>1. /\ p \in up
      /\ heap' = [heap EXCEPT ![p][m] = [cnt |-> h.cnt, curr |-> h.curr + size, left |-> h.left - size]]
      /\ blocks' = blocks \union {new}
      /\ count' = count + 1 /\ up' = up /\ inits' = inits /\ h.cnt <= MaxPools
  BY DEF Alloc
<1>2. size \in Nat /\ size >= CacheLine /\ size <= PoolSize /\ size % CacheLine = 0
  BY RoundUpType
<1>3. /\ h.cnt \in Nat /\ h.curr \in Nat /\ h.left \in Nat
      /\ h = [cnt |-> h.cnt, curr |-> h.curr, left |-> h.left]
      /\ h.curr + h.left = PoolSize /\ size <= h.left /\ h.curr % CacheLine = 0
      /\ h = heap[p][m] \/ h.cnt = heap[p][m].cnt + 1
  BY <1>1, <1>2, PoolForType DEF AllocInv
<1> HIDE DEF size, h
<1>4. /\ heap[p][m] \in Heap /\ heap[p][m].cnt \in Nat /\ heap[p][m].curr \in Nat
      /\ inits[p] \in Nat /\ count \in Nat /\ PoolSize \in Nat /\ MaxPools \in Nat
  BY AllocAssumption DEF AllocInv, TypeOK, Heap
<1>0. [cnt |-> h.cnt, curr |-> h.curr + size, left |-> h.left - size] \in Heap
  <2>1. h.curr + size \in Nat /\ h.left - size \in Nat /\ h.cnt \in 0..MaxPools
    BY <1>1, <1>2, <1>3, <1>4
  <2>2. QED
    BY <2>1 DEF Heap
<1>5. /\ heap'[p][m] = [cnt |-> h.cnt, curr |-> h.curr + size, left |-> h.left - size]
      /\ \A q \in Paths, n \in Media : <<q, n>> # <<p, m>> => heap'[q][n] = heap[q][n]
      /\ heap'[p][m] \in Heap
  <2>1. heap \in [Paths -> [Media -> Heap]]
    BY DEF AllocInv, TypeOK
  <2>2. QED
    BY <1>1, <1>0, <2>1
<1>6. TypeOK'
  <2>1. new \in Block
    BY <1>2, <1>3, <1>4 DEF Block
  <2>2. heap' \in [Paths -> [Media -> Heap]]
    BY <1>1, <1>0, <1>4 DEF AllocInv, TypeOK
  <2>3. QED
    BY <1>1, <1>4, <2>1, <2>2 DEF AllocInv, TypeOK
<1>7. HeapInv'
  <2>1. (h.curr + size) % CacheLine = 0
    BY <1>2, <1>3 DEF CacheLine
  <2>2. ASSUME NEW q \in up', NEW n \in Media
        PROVE  /\ heap'[q][n].curr + heap'[q][n].left = PoolSize
               /\ heap'[q][n].curr % CacheLine = 0
    <3>1. CASE <<q, n>> = <<p, m>>
      BY <1>2, <1>3, <1>5, <2>1, <3>1
    <3>2. CASE <<q, n>> # <<p, m>>
      BY <1>1, <1>5, <3>2 DEF AllocInv, HeapInv, TypeOK
    <3>3. QED
      BY <3>1, <3>2
  <2>3. QED
    BY <2>2 DEF HeapInv
<1>8. InsidePool'
  BY <1>1, <1>2, <1>3, <1>4 DEF AllocInv, InsidePool
\* The old blocks of the new block's pool end at its start.
<1>9. ASSUME NEW b \in blocks
      PROVE  /\ b.id < count /\ b.id \in Nat
             /\ SamePool(b, new) => b.start + b.size <= h.curr
             /\ b.path = p /\ b.init = inits[p] /\ b.medium = m => b.pool <= h.cnt
  <2>1. b \in Block
    BY DEF AllocInv, TypeOK
  <2>2. /\ b.id < count
        /\ b.path = p /\ b.init = inits[p] /\ b.medium = m =>
             /\ b.pool <= heap[p][m].cnt
             /\ b.pool = heap[p][m].cnt => b.start + b.size <= heap[p][m].curr
    BY <1>1 DEF AllocInv, BlocksInv
  <2>3. b.pool \in Nat /\ b.start \in Nat /\ b.size \in Nat /\ b.id \in Nat
    BY <2>1 DEF Block
  <2>4. CASE h = heap[p][m]
    BY <2>2, <2>3, <2>4 DEF SamePool
  <2>5. CASE h.cnt = heap[p][m].cnt + 1
    BY <1>4, <2>2, <2>3, <2>5 DEF SamePool
  <2>6. QED
    BY <1>3, <2>4, <2>5
<1>10. BlocksInv'
  <2>1. ASSUME NEW b \in blocks'
        PROVE  /\ b.id < count'
               /\ b.init <= inits[b.path]
               /\ b.path \in up /\ b.init = inits[b.path] =>
                     /\ b.pool <= heap'[b.path][b.medium].cnt
                     /\ b.pool = heap'[b.path][b.medium].cnt =>
                           b.start + b.size <= heap'[b.path][b.medium].curr
    <3>1. CASE b = new
      BY <1>1, <1>2, <1>3, <1>4, <1>5, <3>1
    <3>2. CASE b \in blocks /\ <<b.path, b.medium>> = <<p, m>>
      <4>1. b \in Block
        BY <3>2 DEF AllocInv, TypeOK
      <4>2. b.id < count + 1 /\ b.init <= inits[b.path]
        BY <1>4, <1>9, <3>2 DEF AllocInv, BlocksInv
      <4>3. b.init = inits[p] => b.pool <= h.cnt /\ (b.pool = h.cnt => b.start + b.size <= h.curr + size)
        BY <1>2, <1>3, <1>9, <3>2, <4>1 DEF SamePool, Block
      <4>4. QED
        BY <1>1, <1>5, <3>2, <4>2, <4>3
    <3>3. CASE b \in blocks /\ <<b.path, b.medium>> # <<p, m>>
      <4>1. b.path \in Paths /\ b.medium \in Media
        BY <3>3 DEF AllocInv, TypeOK, Block
      <4>2. heap'[b.path][b.medium] = heap[b.path][b.medium]
        BY <1>5, <3>3, <4>1
      <4>3. QED
        BY <1>1, <1>4, <1>9, <3>3, <4>2 DEF AllocInv, BlocksInv
    <3>4. QED
      BY <1>1, <3>1, <3>2, <3>3
  <2>2. QED
    BY <1>1, <2>1 DEF BlocksInv
<1>11. Disjoint'
  <2>1. ASSUME NEW b \in blocks
        PROVE  ~(SamePool(b, new) /\ Overlap(b, new)) /\ ~(SamePool(new, b) /\ Overlap(new, b))
    <3>1. b.start \in Nat /\ b.size \in Nat
      BY DEF AllocInv, TypeOK, Block
    <3>2. SamePool(b, new) <=> SamePool(new, b)
      BY DEF SamePool
    <3>3. SamePool(b, new) => ~Overlap(b, new) /\ ~Overlap(new, b)
      BY <1>2, <1>3, <1>9, <3>1 DEF Overlap
    <3>4. QED
      BY <3>2, <3>3
  <2>2. QED
    BY <1>1, <2>1 DEF AllocInv, Disjoint
<1>12. QED
  BY <1>6, <1>7, <1>8, <1>10, <1>11 DEF AllocInv

\* Making an allocator keeps it, on a path that had one before too.
LEMMA InitKeepsInv ==
  ASSUME AllocInv, NEW p \in Paths, InitFastAllocator(p)
  PROVE  AllocInv'
<1>1. PoolSize \in Nat /\ MaxPools \in Nat \ {0}
  BY AllocAssumption
<1>2. FirstPool \in Heap /\ FirstPool.curr + FirstPool.left = PoolSize /\ FirstPool.curr % CacheLine = 0
  BY <1>1 DEF FirstPool, Heap, CacheLine
<1>3. TypeOK'
  BY <1>2 DEF AllocInv, TypeOK, InitFastAllocator
<1>4. HeapInv'
  BY <1>2 DEF AllocInv, TypeOK, HeapInv, InitFastAllocator
<1>5. BlocksInv'
  <2>1. ASSUME NEW b \in blocks
        PROVE  /\ b.id < count
               /\ b.init <= inits'[b.path]
               /\ b.path \in up' /\ b.init = inits'[b.path] =>
                     /\ b.pool <= heap'[b.path][b.medium].cnt
                     /\ b.pool = heap'[b.path][b.medium].cnt =>
                           b.start + b.size <= heap'[b.path][b.medium].curr
    <3>1. b.path \in Paths /\ b.init \in Nat /\ inits[b.path] \in Nat /\ b.init <= inits[b.path]
      BY DEF AllocInv, TypeOK, Block, BlocksInv
    <3>2. CASE b.path = p
      BY <3>1, <3>2 DEF AllocInv, TypeOK, BlocksInv, InitFastAllocator
    <3>3. CASE b.path # p
      BY <3>1, <3>3 DEF AllocInv, TypeOK, BlocksInv, InitFastAllocator
    <3>4. QED
      BY <3>2, <3>3
  <2>2. QED
    BY <2>1 DEF BlocksInv, InitFastAllocator
<1>6. InsidePool' /\ Disjoint'
  BY DEF AllocInv, InsidePool, Disjoint, InitFastAllocator
<1>7. QED
  BY <1>3, <1>4, <1>5, <1>6 DEF AllocInv

\* Freeing everything keeps it.
LEMMA FreeKeepsInv ==
  ASSUME AllocInv, NEW p \in Paths, FastFree(p)
  PROVE  AllocInv'
<1>1. Empty \in Heap
  BY AllocAssumption DEF Empty, Heap
<1>2. blocks' \subseteq blocks /\ up' = up \ {p} /\ inits' = inits /\ count' = count
  BY DEF FastFree
<1>3. \A q \in up' : heap'[q] = heap[q]
  BY DEF AllocInv, TypeOK, FastFree
<1>4. TypeOK'
  BY <1>1, <1>2 DEF AllocInv, TypeOK, FastFree
<1>5. HeapInv' /\ BlocksInv' /\ InsidePool' /\ Disjoint'
  BY <1>2, <1>3 DEF AllocInv, HeapInv, BlocksInv, InsidePool, Disjoint
<1>6. QED
  BY <1>4, <1>5 DEF AllocInv

\* So it always holds.
LEMMA AllocInvariant == AllocSpec => []AllocInv
<1>1. AllocInit => AllocInv
  <2>1. Empty \in Heap
    BY AllocAssumption DEF Empty, Heap
  <2>2. QED
    BY <2>1 DEF AllocInit, AllocInv, TypeOK, HeapInv, BlocksInv, InsidePool, Disjoint
<1>2. AllocInv /\ [AllocNext]_allocVars => AllocInv'
  <2> SUFFICES ASSUME AllocInv, [AllocNext]_allocVars PROVE AllocInv'
    OBVIOUS
  <2>1. CASE UNCHANGED allocVars
    BY <2>1 DEF allocVars, AllocInv, TypeOK, HeapInv, BlocksInv, InsidePool, Disjoint
  <2>2. CASE AllocNext
    BY <2>2, AllocKeepsInv, InitKeepsInv, FreeKeepsInv DEF AllocNext
  <2>3. QED
    BY <2>1, <2>2
<1>3. QED
  BY <1>1, <1>2, PTL DEF AllocSpec

\* Blocks of one allocator never overlap, whatever the sizes asked for and
\* however many pools it opens.
THEOREM BlocksDisjoint == AllocSpec => []Disjoint
<1>1. AllocInv => Disjoint
  BY DEF AllocInv
<1>2. QED
  BY <1>1, AllocInvariant, PTL

\* Every block is a run of whole cache lines inside its pool.
THEOREM BlocksInsidePool == AllocSpec => [](TypeOK /\ InsidePool)
<1>1. AllocInv => TypeOK /\ InsidePool
  BY DEF AllocInv
<1>2. QED
  BY <1>1, AllocInvariant, PTL
=============================================================================
