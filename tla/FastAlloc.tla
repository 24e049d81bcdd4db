----------------------------- MODULE FastAlloc ------------------------------
(***************************************************************************)
(* The bump allocator (fastalloc/fastalloc.h, fastalloc.cpp) that every    *)
(* index takes its nodes from.  Each thread has an allocator of its own,   *)
(* which carves 64-byte-aligned blocks out of pools: files named by the    *)
(* thread's path and a counter on persistent memory, arrays in DRAM.       *)
(* Blocks are never given back; ycsbc.cc drops the allocator after the     *)
(* load phase and initialises a new one on the same path, which maps the   *)
(* same files and starts again at their first byte.                        *)
(***************************************************************************)
EXTENDS Integers

CONSTANTS Paths,        \* the filePath of each thread's allocator
          PoolSize,     \* ALLOC_SIZE, in bytes
          Sizes,        \* the sizes requested
          MaxPools,     \* entries of the arrays nvm and dram (100 in the code)
          MaxBlocks,    \* bound on the blocks allocated, for TLC
          MaxInits      \* bound on the allocators initialised per path, for TLC

CacheLine == 64
Media == {"nvm", "dram"}

\* alloc's size = size / 64 * 64 + (!!(size % 64)) * 64.  (Slip: rounds down.)
RoundUp_Down(size) == (size \div CacheLine) * CacheLine
RoundUp(size) ==
    (size \div CacheLine) * CacheLine + (IF size % CacheLine # 0 THEN CacheLine ELSE 0)

\* No request is larger than a pool (the largest is a directory of 2^27
\* entries): nvm_left is unsigned and would wrap.
ASSUME AllocAssumption ==
    /\ PoolSize \in Nat /\ PoolSize % CacheLine = 0
    /\ Sizes \subseteq Nat \ {0}
    /\ \A size \in Sizes : RoundUp(size) <= PoolSize
    /\ MaxPools \in Nat \ {0} /\ MaxBlocks \in Nat /\ MaxInits \in Nat

VARIABLES up,           \* the paths that have an allocator
          inits,        \* how many allocators each path has had
          heap,         \* nvm_cnt, nvm_curr, nvm_left and their dram twins
          blocks,       \* history: the blocks handed out
          count         \* how many there were; it numbers them

allocVars == <<up, inits, heap, blocks, count>>

Heap == [cnt : 0..MaxPools, curr : Nat, left : Nat]
Block == [id : Nat, path : Paths, init : Nat, medium : Media, pool : Nat, start : Nat, size : Nat]

Empty == [cnt |-> 0, curr |-> 0, left |-> 0]
FirstPool == [cnt |-> 1, curr |-> 0, left |-> PoolSize]

AllocInit == /\ up = {}
             /\ inits = [p \in Paths |-> 0]
             /\ heap = [p \in Paths |-> [m \in Media |-> Empty]]
             /\ blocks = {}
             /\ count = 0

\* init_fast_allocator: a pool of each medium is opened at once.
InitFastAllocator(p) ==
    /\ p \notin up
    /\ inits[p] < MaxInits
    /\ up' = up \union {p}
    /\ inits' = [inits EXCEPT ![p] = @ + 1]
    /\ heap' = [heap EXCEPT ![p] = [m \in Media |-> FirstPool]]
    /\ UNCHANGED <<blocks, count>>

\* The pool a request is served from: the current one if what is left of it
\* is enough, else a new one; the rest of the old pool is lost.
PoolFor(h, size) ==
    IF size > h.left THEN [cnt |-> h.cnt + 1, curr |-> 0, left |-> PoolSize] ELSE h

\* alloc(request, m) returns the current pointer and moves it.  (Slip: by the
\* size before rounding.)
Alloc_MovesByRequest(p, m, request) ==
    LET size == RoundUp(request)
        h == PoolFor(heap[p][m], size)
    IN  /\ p \in up /\ count < MaxBlocks /\ h.cnt <= MaxPools
        /\ heap' = [heap EXCEPT ![p][m] =
                     [cnt |-> h.cnt, curr |-> h.curr + request, left |-> h.left - request]]
        /\ blocks' = blocks \union {[id |-> count, path |-> p, init |-> inits[p], medium |-> m,
                                     pool |-> h.cnt, start |-> h.curr, size |-> size]}
        /\ count' = count + 1
        /\ UNCHANGED <<up, inits>>
Alloc(p, m, request) ==
    LET size == RoundUp(request)
        h == PoolFor(heap[p][m], size)
    IN  /\ p \in up /\ count < MaxBlocks /\ h.cnt <= MaxPools
        /\ heap' = [heap EXCEPT ![p][m] =
                     [cnt |-> h.cnt, curr |-> h.curr + size, left |-> h.left - size]]
        /\ blocks' = blocks \union {[id |-> count, path |-> p, init |-> inits[p], medium |-> m,
                                     pool |-> h.cnt, start |-> h.curr, size |-> size]}
        /\ count' = count + 1
        /\ UNCHANGED <<up, inits>>

\* fast_free: the DRAM arrays are deleted, the files stay mapped, and the
\* allocator is gone.
FastFree(p) ==
    /\ p \in up
    /\ up' = up \ {p}
    /\ heap' = [heap EXCEPT ![p] = [m \in Media |-> Empty]]
    /\ blocks' = {b \in blocks : b.path = p => b.medium = "nvm"}
    /\ UNCHANGED <<inits, count>>

AllocNext == \E p \in Paths : \/ InitFastAllocator(p)
                              \/ \E m \in Media, size \in Sizes : Alloc(p, m, size)
                              \/ FastFree(p)

AllocSpec == AllocInit /\ [][AllocNext]_allocVars

-----------------------------------------------------------------------------
TypeOK == /\ up \subseteq Paths
          /\ inits \in [Paths -> Nat]
          /\ heap \in [Paths -> [Media -> Heap]]
          /\ blocks \subseteq Block
          /\ count \in Nat

SamePool(b, c) ==
    b.path = c.path /\ b.init = c.init /\ b.medium = c.medium /\ b.pool = c.pool
Overlap(b, c) == b.start < c.start + c.size /\ c.start < b.start + b.size

\* Two blocks of one allocator never overlap, across pool changes and sizes,
\* and no block is handed out twice: no node of an index is written over
\* another.  Blocks of two allocators of one path do overlap, both starting at
\* the first byte of the first file: the property says nothing of those.
Disjoint == \A b, c \in blocks : SamePool(b, c) /\ Overlap(b, c) => b = c

\* A block lies inside its pool and on a cache line of its own: flushing it
\* writes back nothing else.
InsidePool == \A b \in blocks : /\ b.start + b.size <= PoolSize
                                /\ b.start % CacheLine = 0
                                /\ b.size % CacheLine = 0
                                /\ b.size >= CacheLine
=============================================================================
