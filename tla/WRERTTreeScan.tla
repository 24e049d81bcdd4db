--------------------------- MODULE WRERTTreeScan ----------------------------
(***************************************************************************)
(* The range scan of src/wrert/wrert.cpp over the nodes of a tree:         *)
(* lookupRange, and what nodeScan and scanAllNodes do with prefixes,       *)
(* WRERTKeyValues and children.  Which buckets they read inside a node is  *)
(* in WRERTScan; here they find every slot whose sub-key their comparisons *)
(* accept.                                                                 *)
(*                                                                         *)
(* A scan is taken of a tree with a key in it: before the first insert the *)
(* root's prefixLength is 6 and nodeScan compares 24 bytes of a prefixArray*)
(* of 6.  Its bounds differ: equal ones are a search.                      *)
(***************************************************************************)
EXTENDS WRERTTree

\* What a bound is in a node whose prefix lies beyond it.
UINT64_MAX == 10^9

\* Scans compare sub-keys as numbers.
ASSUME ScanAssumption == SubKeys \subseteq 0..(UINT64_MAX - 1)

-----------------------------------------------------------------------------
\* The upper half of the keys below node n: the sub-key that led there or the
\* prefix, whose bytes the code shifts by 4 to 1 bits instead of 24 to 0.
UpperHalf(n, upper) ==
    LET byte(i) == (nodes[n].prefix \div 256^(3 - i)) % 256
    IN  IF nodes[n].prefixLength = 0 THEN upper
        ELSE 16 * byte(0) + 8 * byte(1) + 4 * byte(2) + 2 * byte(3)

\* The entries pushed for a slot that leads to no child.
Pushed(slot, s, upper) ==
    CASE slot.kind = "value" -> {[key |-> <<upper, s>>, val |-> slot.val]}
      [] slot.kind = "kv" -> {kvs[slot.at]}
      [] OTHER -> {}

RECURSIVE ScanAllNodes(_, _)
ScanAllNodes(n, upper) ==
    LET below(slot, s) == IF slot.kind = "node" THEN ScanAllNodes(slot.at, s)
                          ELSE Pushed(slot, s, UpperHalf(n, upper))
    IN  UNION {below(nodes[n].slots[s], s) : s \in SubKeys}

\* The bound k in node n, whose slots are by sub-key pos + prefixLength + 1.
BoundIn(n, k, pos) ==
    IF nodes[n].prefixLength = 0 \/ k[pos + 1] = nodes[n].prefix
    THEN k[pos + nodes[n].prefixLength + 1] ELSE UINT64_MAX

\* All keys below node n lie outside the bounds.
OutOfRange(n, left, right, pos) ==
    nodes[n].prefixLength > 0 /\ (left[pos + 1] > nodes[n].prefix \/ right[pos + 1] < nodes[n].prefix)

\* (Slip: a child at a bound is taken whole.)
Inside_OrAt(s, lo, hi) == lo <= s /\ s <= hi
Inside(s, lo, hi) == lo < s /\ s < hi

\* A slot at a bound is pushed whatever the rest of its key; a child there is
\* scanned between both bounds.
RECURSIVE NodeScan(_, _, _, _, _)
NodeScan(n, left, right, pos, upper) ==
    LET lo == BoundIn(n, left, pos)
        hi == BoundIn(n, right, pos)
        reads == {s \in SubKeys : Inside(s, lo, hi) \/ s \in {lo, hi}}
        below(slot, s) ==
            CASE slot.kind # "node" -> Pushed(slot, s, UpperHalf(n, upper))
              [] slot.kind = "node" /\ Inside(s, lo, hi) -> ScanAllNodes(slot.at, s)
              [] OTHER -> NodeScan(slot.at, left, right, pos + nodes[n].prefixLength + 1, s)
    IN  IF OutOfRange(n, left, right, pos) THEN {}
        ELSE UNION {below(nodes[n].slots[s], s) : s \in reads}

LookupRange(left, right) == NodeScan(root, left, right, 0, 0)

-----------------------------------------------------------------------------
Before(k, l) == k[1] < l[1] \/ (k[1] = l[1] /\ k[2] < l[2])
NotAfter(k, l) == k = l \/ Before(k, l)
Scans == {b \in (SubKeys \X SubKeys) \X (SubKeys \X SubKeys) : Before(b[1], b[2])}

Stored(left, right) ==
    {[key |-> k, val |-> Search(k)] :
        k \in {key \in Keys : Search(key) # None /\ NotAfter(left, key) /\ NotAfter(key, right)}}

\* What a scan gets right in every tree that inserts build, whichever keys
\* share WRERTKeyValues and children.  Once the prefix of the root is split
\* off, the keys whose upper half lies between those of the bounds are exactly
\* those of the map.  And where both bounds have one upper half, no key is
\* missing and none is added but that of a WRERTKeyValue, although under a
\* prefix the upper halves are garbled.  (Elsewhere it is wrong: a child at a
\* bound loses the keys that lie outside the lower halves of the bounds, and a
\* prefix above the left bound loses all.)
ScanRightBetween ==
    op = IdleOp /\ nodes[root].prefixLength # Unset =>
        \A b \in Scans :
            LET got == LookupRange(b[1], b[2])
                stored == Stored(b[1], b[2])
                between(S) == {kv \in S : kv.key[1] \notin {b[1][1], b[2][1]}}
                lower(S) == {<<kv.key[2], kv.val>> : kv \in S}
                added == {kvs[i] : i \in 1..Len(kvs)}
            IN  /\ nodes[root].prefixLength = 0 => between(got) = between(stored)
                /\ b[1][1] = b[2][1] => /\ lower(stored) \subseteq lower(got)
                                        /\ lower(got \ added) \subseteq lower(stored)
=============================================================================
