----------------------------- MODULE WRERTBits ------------------------------
(***************************************************************************)
(* The index arithmetic of a WRERT node (wrert_node.h) on bit strings.     *)
(*                                                                         *)
(* A sub-key is the string of its W bits, most significant first, and the  *)
(* shift-and-mask macros are slices of it.  A segment's 3*2^(M-1) buckets  *)
(* are three regions of 2^(M-1): the bucket at position p of the code is   *)
(* <<p \div 2^(M-1), low M-1 bits of p>>, and sharedBucketOffset, a        *)
(* multiple of 2^(M-1), is the number of the region that is shared; the    *)
(* next two regions, cyclically, hold the low and the high main buckets.   *)
(* Module WRERTLayout checks that this is what the arithmetic computes.    *)
(***************************************************************************)
EXTENDS Integers

CONSTANTS W,        \* WRERT_NODE_SPAN: bits of a sub-key
          M         \* WRERT_MAIN_BUCKETS_MAX_BITS: 2^M main buckets per segment

\* wrert_node.h allows 4 to 128 main buckets, fewer than there are sub-keys.
ASSUME BitsAssumption == /\ M \in Nat /\ M >= 2
                         /\ W \in Nat /\ W >= M

Bit == {0, 1}
BitString(n) == [1..n -> Bit]
Region == 0..2

\* Bits from+1 .. from+n of k.  Past the last bit the code would shift by a
\* negative amount, which is undefined; WRERTNode!DepthBounded shows it never
\* does.
Slice(k, from, n) == [i \in 1..n |-> IF from + i <= W THEN k[from + i] ELSE 0]

SegmentNumber(k, depth) == Slice(k, 0, depth)
SharedIndex(k, depth) == Slice(k, depth, M - 1)
MainIndex(k, depth) == Slice(k, depth, M)

Addr == Region \X BitString(M - 1)

\* Where main bucket m lies when the shared region is off.  (Slip: the halves
\* swapped.)
CalcBucketPosition_Swapped(off, m) == <<(off + 2 - m[1]) % 3, [i \in 1..M-1 |-> m[i + 1]]>>
CalcBucketPosition(off, m) == <<(off + 1 + m[1]) % 3, [i \in 1..M-1 |-> m[i + 1]]>>

\* The main bucket that lies at a, a not in the shared region off.
MainBucketAt(off, a) ==
    [i \in 1..M |-> IF i = 1 THEN (a[1] + 2 - off) % 3 ELSE a[2][i - 1]]
=============================================================================
