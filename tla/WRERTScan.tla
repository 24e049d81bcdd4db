----------------------------- MODULE WRERTScan ------------------------------
(***************************************************************************)
(* The range scan of src/wrert/wrert.cpp in a leaf-level node: nodeScan    *)
(* between two bounds and scanAllNodes.  Both walk the directory, a        *)
(* segment per turn, and read runs of buckets by their positions; a scan   *)
(* with bounds narrows the runs to the buckets that keys between them may  *)
(* be in.                                                                  *)
(*                                                                         *)
(* A result is the set of visits that pushed a key: the entry the turn     *)
(* began at, the number of the run, the bucket and the slot.               *)
(***************************************************************************)
EXTENDS WRERTNode

CONSTANT Bounds     \* the sub-keys scans are bounded by

Num(bits) == LET n[i \in 0..Len(bits)] == IF i = 0 THEN 0 ELSE 2 * n[i - 1] + bits[i]
             IN  n[Len(bits)]

SharedBuckets == 2^(M - 1)      \* WRERT_SHARED_BUCKETS_PER_SEGMENT
SegmentSize == 3 * SharedBuckets
Position(a) == a[1] * SharedBuckets + Num(a[2])

EntryAt(i) == dir[[n \in 1..gd |-> (i \div 2^(gd - n)) % 2]]
EntryNumber(k) == Num(SegmentNumber(k, gd))

-----------------------------------------------------------------------------
(* The walk over the directory.                                            *)

RangeEnd(i) == LET segmentNodeNum == 2^(gd - EntryAt(i).ld)
               IN  (i \div segmentNodeNum) * segmentNodeNum + segmentNodeNum

\* The entries at which the turns of a walk from entry i to entry last begin.
\* (Slip: every entry has a turn.)
TurnsTo_EachEntry(i, last) == i..last
TurnsTo(i, last) ==
    LET turns[n \in 0..2^gd] == IF n > last THEN {} ELSE {n} \union turns[RangeEnd(n)]
    IN  turns[i]

\* sameSegmentIndex: the last entry of turn i.
SameSegmentIndex(i, last) == IF EntryAt(i).seg = EntryAt(last).seg THEN last ELSE RangeEnd(i) - 1

\* bucketRangeIterate: every bucket of the run is read up to the first slot
\* that does not count or whose sub-key belongs to an entry outside the turn.
BucketRangeIterate(run, start, end, ver, i, last) ==
    LET e == EntryAt(i)
        same == SameSegmentIndex(i, last)
        pushes(slot) == Live(slot, ver) /\ EntryNumber(slot.key) \in i..same
        read == {a \in Addr : Position(a) \in start..end}
    IN  {<<i, run, at[1], at[2]>> : at \in
            {at \in read \X (1..Slots) :
                \A j \in 1..at[2] : pushes(segs[e.seg][at[1]][j])}}

-----------------------------------------------------------------------------
(* scanAllNodes.                                                           *)

\* All buckets of a segment, by the place of the shared ones.  (Slip: the
\* shared buckets in the middle are read as main ones.)
AllBuckets_MainThroughout(i, last) ==
    LET e == EntryAt(i)
        shared == e.off * SharedBuckets
        iterate(run, start, end, ver) == BucketRangeIterate(run, start, end, ver, i, last)
    IN  CASE e.off = 1 -> iterate(1, 0, SegmentSize - 1, MainVersion(e))
          [] e.off = 0 -> iterate(1, 0, SharedBuckets - 1, SharedVersion(e)) \union
                          iterate(2, SharedBuckets, SegmentSize - 1, MainVersion(e))
          [] e.off = 2 -> iterate(1, 0, shared - 1, MainVersion(e)) \union
                          iterate(2, shared, SegmentSize - 1, SharedVersion(e))
AllBuckets(i, last) ==
    LET e == EntryAt(i)
        shared == e.off * SharedBuckets
        iterate(run, start, end, ver) == BucketRangeIterate(run, start, end, ver, i, last)
    IN  CASE e.off = 1 -> iterate(1, 0, shared - 1, MainVersion(e)) \union
                          iterate(2, shared, shared + SharedBuckets - 1, SharedVersion(e)) \union
                          iterate(3, shared + SharedBuckets, SegmentSize - 1, MainVersion(e))
          [] e.off = 0 -> iterate(1, 0, SharedBuckets - 1, SharedVersion(e)) \union
                          iterate(2, SharedBuckets, SegmentSize - 1, MainVersion(e))
          [] e.off = 2 -> iterate(1, 0, shared - 1, MainVersion(e)) \union
                          iterate(2, shared, SegmentSize - 1, SharedVersion(e))

ScanAllNodes == UNION {AllBuckets(i, 2^gd - 1) : i \in TurnsTo(0, 2^gd - 1)}

-----------------------------------------------------------------------------
(* nodeScan between the sub-keys left and right, left before right.        *)

\* The first and the last shared bucket turn i reads.
LeftShared(i, left) ==
    EntryAt(i).off * SharedBuckets
      + IF i = EntryNumber(left) THEN Num(SharedIndex(left, EntryOf(left).ld)) ELSE 0
RightShared(i, right) ==
    EntryAt(i).off * SharedBuckets
      + IF EntryAt(i).seg = EntryOf(right).seg THEN Num(SharedIndex(right, EntryOf(right).ld))
        ELSE SharedBuckets - 1

\* The main buckets that go with the shared bucket at a position: this one and
\* the next.
MainOf(i, shared) ==
    ((EntryAt(i).off + 1) * SharedBuckets + (shared % SharedBuckets) * 2) % SegmentSize

\* Two runs, or three where the shared buckets lie across the middle of the
\* segment and the main ones at both of its ends.
BucketsBetween(i, left, right) ==
    LET e == EntryAt(i)
        lo == LeftShared(i, left)
        hi == RightShared(i, right)
        mainStart == MainOf(i, lo)
        mainEnd == (MainOf(i, hi) + 1) % SegmentSize
        iterate(run, start, end, ver) ==
            BucketRangeIterate(run, start, end, ver, i, EntryNumber(right))
        shared == iterate(2, lo, hi, SharedVersion(e))
    IN  IF SegmentSize \div 2 > lo /\ SegmentSize \div 2 < hi
        THEN iterate(1, 0, mainEnd, MainVersion(e)) \union shared \union
             iterate(3, mainStart, SegmentSize - 1, MainVersion(e))
        ELSE shared \union iterate(1, mainStart, mainEnd, MainVersion(e))

SlotAt(visit) == segs[EntryAt(visit[1]).seg][visit[3]][visit[4]]

Between(k, left, right) == Num(left) <= Num(k) /\ Num(k) <= Num(right)

NodeScan(left, right) ==
    {visit \in UNION {BucketsBetween(i, left, right) :
                        i \in TurnsTo(EntryNumber(left), EntryNumber(right))} :
        Between(SlotAt(visit).key, left, right)}

-----------------------------------------------------------------------------
(* Properties.                                                             *)

Results(visits) == {<<SlotAt(v).key, SlotAt(v).val>> : v \in visits}
Stored == {<<k, GetSegNode(k)>> : k \in {key \in Keys : GetSegNode(key) # None}}
OnceEach(visits) == Cardinality(visits) = Cardinality(Results(visits))
Scans == {b \in Bounds \X Bounds : Num(b[1]) < Num(b[2])}

\* Reading all buckets of all segments by the version their place calls for
\* finds every key once, with its value, although segments share buckets of
\* three roles and keep stale copies.
ScanAllExact == op = IdleOp => Results(ScanAllNodes) = Stored /\ OnceEach(ScanAllNodes)

\* What a scan with bounds returns is between them, is current and is there
\* once; and what it may miss is known.  In a turn whose shared buckets end at
\* the middle of the segment, the main ones wrap and none is read; and behind
\* a slot of an entry outside the turn, the rest of the bucket is not.
InTurn(i, key, left, right) ==
    EntryNumber(key) \in i..SameSegmentIndex(i, EntryNumber(right))
Wraps(i, left, right) ==
    LeftShared(i, left) < SegmentSize \div 2 /\ RightShared(i, right) = SegmentSize \div 2
Missable(key, left, right) ==
    \E i \in TurnsTo(EntryNumber(left), EntryNumber(right)) :
        LET e == EntryAt(i)
            s == segs[e.seg]
            behind(a, ver) ==
                \E j \in Matches(s[a], ver, key), y \in 1..Slots :
                    y < j /\ Live(s[a][y], ver) /\ ~InTurn(i, s[a][y].key, left, right)
        IN  /\ InTurn(i, key, left, right)
            /\ \/ Wraps(i, left, right) /\ Matches(s[MainAddr(key, e)], MainVersion(e), key) # {}
               \/ behind(MainAddr(key, e), MainVersion(e))
               \/ behind(SharedAddr(key, e), SharedVersion(e))
ScanMissesKnown ==
    op = IdleOp =>
        \A b \in Scans :
            LET visits == NodeScan(b[1], b[2])
                inRange == {kv \in Stored : Between(kv[1], b[1], b[2])}
            IN  /\ Results(visits) \subseteq inRange
                /\ OnceEach(visits)
                /\ \A kv \in inRange \ Results(visits) : Missable(kv[1], b[1], b[2])

\* A range query returns the keys of the map between its bounds.
ScanExact ==
    op = IdleOp =>
        \A b \in Scans :
            Results(NodeScan(b[1], b[2])) = {kv \in Stored : Between(kv[1], b[1], b[2])}
=============================================================================
