----------------------------- MODULE WRERTNode ------------------------------
(***************************************************************************)
(* One WRERT node (src/wrert/wrert_node.h, wrert_node.cpp and the in-node  *)
(* part of WRERT::insert in wrert.cpp): an extendible-hashing directory    *)
(* over segments whose buckets change role when the segment splits.        *)
(*                                                                         *)
(* The region numbered off is the shared region, the next two hold the     *)
(* main buckets.  A split makes the low main region the shared one and     *)
(* moves only the sub-keys of the old shared region; nothing is erased:    *)
(* a slot counts only if its migVersion is the one its region expects.     *)
(***************************************************************************)
EXTENDS WRERTBits, Sequences, FiniteSets, FiniteSetsExt

CONSTANTS Slots,    \* WRERT_SLOTS_PER_BUCKET
          Chunk,    \* slots one vector instruction examines (8 in the code)
          Keys,     \* the sub-keys callers use
          Values,   \* the values they store
          None      \* "not found"; also the value field of a fresh slot

ASSUME NodeAssumption ==
    /\ Slots \in Nat \ {0}
    /\ Chunk \in Nat \ {0}
    /\ Keys \subseteq BitString(W)
    /\ None \notin Values

VARIABLES gd,       \* directory.globalDepth
          dir,      \* the directory: one WRERTSegmentNode per gd-bit prefix
          segs,     \* the segments allocated so far
          op        \* the insert in progress and how far it is

vars == <<gd, dir, segs, op>>

-----------------------------------------------------------------------------
(* Slots, buckets, segments, directory entries.                            *)

Slot == [valid : BOOLEAN, ver : Int, key : BitString(W), val : Values \union {None}]
Bucket == [1..Slots -> Slot]
Segment == [Addr -> Bucket]
SegmentNode == [ld : Nat, off : Region, seg : Nat]

\* NewWRERTSegment does not clear what the allocator hands out: a segment
\* reads as zeros because its part of the pool was never written before.
FreshSlot == [valid |-> FALSE, ver |-> 0, key |-> [i \in 1..W |-> 0], val |-> None]
FreshBucket == [j \in 1..Slots |-> FreshSlot]
NewSegment == [a \in Addr |-> FreshBucket]

Live(slot, ver) == slot.valid /\ slot.ver = ver

\* The directory entry of a sub-key, its two buckets and their versions.
EntryOf(k) == dir[SegmentNumber(k, gd)]
SharedVersion(e) == e.ld - 1
MainVersion(e) == e.ld
SharedAddr(k, e) == <<e.off, SharedIndex(k, e.ld)>>
MainAddr(k, e) == CalcBucketPosition(e.off, MainIndex(k, e.ld))

\* The version a slot of region r must carry to count under entry e.
Expected(e, r) == IF r = e.off THEN SharedVersion(e) ELSE MainVersion(e)

ChunkNo(j) == (j - 1) \div Chunk

-----------------------------------------------------------------------------
(* Reading: getSegNode.                                                    *)

Matches(b, ver, k) == {j \in 1..Slots : Live(b[j], ver) /\ b[j].key = k}

\* Chunk by chunk, the shared bucket before the main one.
GetSegNode(k) ==
    LET e == EntryOf(k)
        shared == segs[e.seg][SharedAddr(k, e)]
        main == segs[e.seg][MainAddr(k, e)]
        inShared == Matches(shared, SharedVersion(e), k)
        inMain == Matches(main, MainVersion(e), k)
    IN  IF inShared # {} /\ \A j \in inMain : ChunkNo(Min(inShared)) <= ChunkNo(j)
        THEN shared[Min(inShared)].val
        ELSE IF inMain # {} THEN main[Min(inMain)].val ELSE None

-----------------------------------------------------------------------------
(* Choosing the slot of an insert.                                         *)

\* WRERT::insert's vector scan reports sub-key k at slot j: the first slot of
\* the chunk that holds k, not beyond the chunk's last live slot, every slot
\* of the earlier chunks being live and different.  (Slip: without the test
\* against the last live slot.)
Hits_NoLastLiveTest(b, ver, k) ==
    {j \in 1..Slots : /\ b[j].key = k
                      /\ \A i \in 1..(j-1) : b[i].key # k /\ (ChunkNo(i) # ChunkNo(j) => Live(b[i], ver))}
Hits(b, ver, k) ==
    {j \in 1..Slots :
        /\ b[j].key = k
        /\ \E y \in j..Slots : ChunkNo(y) = ChunkNo(j) /\ Live(b[y], ver)
        /\ \A i \in 1..(j-1) : b[i].key # k /\ (ChunkNo(i) # ChunkNo(j) => Live(b[i], ver))}

\* The slot insert may overwrite: the first that is not live.
FirstDead(b, ver) ==
    {j \in 1..Slots : ~Live(b[j], ver) /\ \A i \in 1..(j-1) : Live(b[i], ver)}

\* The slot putSegNode may overwrite: the first of another version, whatever
\* its validFlag.
FirstOther(b, ver) ==
    {j \in 1..Slots : b[j].ver # ver /\ \A i \in 1..(j-1) : b[i].ver = ver}

\* First attempts come from insert, the ones after a split from putSegNode.
FreeIn(b, ver) == IF op.pc = "insert" THEN FirstDead(b, ver) ELSE FirstOther(b, ver)

\* Where the pending insert writes when its sub-key is absent: <<a, j>> for
\* slot j of the bucket at a, a free shared slot if there is one; the empty
\* set when both buckets are full.  (Slip: the main bucket is forgotten.)
Free_SharedOnly(k) ==
    LET e == EntryOf(k)
        a == SharedAddr(k, e)
    IN  {a} \X FreeIn(segs[e.seg][a], SharedVersion(e))
Free(k) ==
    LET e == EntryOf(k)
        inBucket(a, ver) == {a} \X FreeIn(segs[e.seg][a], ver)
        shared == inBucket(SharedAddr(k, e), SharedVersion(e))
    IN  IF shared # {} THEN shared ELSE inBucket(MainAddr(k, e), MainVersion(e))

\* Where insert's scan finds the sub-key.  (Slip: the main bucket is scanned
\* only when the shared one has no free slot.)
Found_StopsAtFree(k) ==
    LET e == EntryOf(k)
        s == segs[e.seg]
        shared == {SharedAddr(k, e)} \X Hits(s[SharedAddr(k, e)], SharedVersion(e), k)
    IN  IF shared # {} \/ FirstDead(s[SharedAddr(k, e)], SharedVersion(e)) # {} THEN shared
        ELSE {MainAddr(k, e)} \X Hits(s[MainAddr(k, e)], MainVersion(e), k)
Found(k) ==
    LET e == EntryOf(k)
        inBucket(a, ver) == {a} \X Hits(segs[e.seg][a], ver, k)
        shared == inBucket(SharedAddr(k, e), SharedVersion(e))
    IN  IF shared # {} THEN shared ELSE inBucket(MainAddr(k, e), MainVersion(e))

-----------------------------------------------------------------------------
(* Splitting a segment.                                                    *)

\* Bucket base with the slots S of bucket b packed at its start, in order,
\* stamped with version ver.  (Slip: the counter is incremented first.)
Rank(S, j) == Cardinality({i \in S : i <= j})
Pack_FromSecond(base, b, S, ver) ==
    [c \in 1..Slots |->
        IF \E j \in S : Rank(S, j) + 1 = c
        THEN [b[CHOOSE j \in S : Rank(S, j) + 1 = c] EXCEPT !.ver = ver]
        ELSE base[c]]
Pack(base, b, S, ver) ==
    [c \in 1..Slots |->
        IF \E j \in S : Rank(S, j) = c
        THEN [b[CHOOSE j \in S : Rank(S, j) = c] EXCEPT !.ver = ver]
        ELSE base[c]]

\* The slots of the full shared bucket b, of a segment at depth ld, that move
\* to main bucket m of half h: the scan stops at the first slot not live.
Migrants(b, ld, h, m) ==
    {j \in 1..Slots : /\ \A i \in 1..j : Live(b[i], ld - 1)
                      /\ b[j].key[ld + 1] = h
                      /\ MainIndex(b[j].key, ld + 1) = m}

\* Half h of shared region off of segment s migrates to the main buckets of
\* segment base, whose shared region is newOff.  Main bucket m takes only
\* from the shared bucket that has its leading bits.
Migrate(base, newOff, s, off, ld, h) ==
    [a \in Addr |->
        IF a[1] = newOff THEN base[a]
        ELSE LET m == MainBucketAt(newOff, a)
                 b == s[<<off, [i \in 1..M-1 |-> IF i = 1 THEN h ELSE m[i - 1]]>>]
             IN  Pack(base[a], b, Migrants(b, ld, h, m), ld + 1)]

\* The segment of the upper half: a copy of the high main region becomes its
\* shared region newOff, half 1 of the shared region its main buckets.
\* (Slip: the copy takes the low main region.)
UpperHalf_CopiesLow(s, off, newOff, ld) ==
    LET copied == [a \in Addr |-> IF a[1] = newOff THEN s[<<(off + 1) % 3, a[2]>>] ELSE FreshBucket]
    IN  Migrate(copied, newOff, s, off, ld, 1)
UpperHalf(s, off, newOff, ld) ==
    LET copied == [a \in Addr |-> IF a[1] = newOff THEN s[<<(off + 2) % 3, a[2]>>] ELSE FreshBucket]
    IN  Migrate(copied, newOff, s, off, ld, 1)

\* The lower half stays in place: the low main region becomes the shared one
\* and half 0 of the shared region, buffered first, moves over the regions
\* that were high main and shared.
LowerHalf(s, off, ld) == Migrate(s, (off + 1) % 3, s, off, ld, 0)

\* Both halves of segment e.seg; the new one is allocated last.  (Slip: the
\* lower half migrates first, over what the upper half is to be made from.)
SplitSegment_LowerFirst(e, newOff) ==
    LET lower == LowerHalf(segs[e.seg], e.off, e.ld)
    IN  Append([segs EXCEPT ![e.seg] = lower], UpperHalf(lower, e.off, newOff, e.ld))
SplitSegment(e, newOff) ==
    Append([segs EXCEPT ![e.seg] = LowerHalf(@, e.off, e.ld)],
           UpperHalf(segs[e.seg], e.off, newOff, e.ld))

UpperEntry(e, newOff) == [ld |-> e.ld + 1, off |-> newOff, seg |-> Len(segs) + 1]
LowerEntry_NoWrap(e) == [ld |-> e.ld + 1, off |-> e.off + 1, seg |-> e.seg]
LowerEntry(e) == [ld |-> e.ld + 1, off |-> (e.off + 1) % 3, seg |-> e.seg]

\* A split rewrites every entry of the segment.  (Slip: only those of half of
\* its range.)
SplitDirectory_Half(e) ==
    [p \in DOMAIN dir |->
        IF \E i \in 1..e.ld+1 : p[i] # SegmentNumber(op.key, gd)[i] THEN dir[p]
        ELSE IF p[e.ld + 1] = 1 THEN UpperEntry(e, e.off) ELSE LowerEntry(e)]
SplitDirectory(e) ==
    [p \in DOMAIN dir |->
        IF \E i \in 1..e.ld : p[i] # SegmentNumber(op.key, gd)[i] THEN dir[p]
        ELSE IF p[e.ld + 1] = 1 THEN UpperEntry(e, e.off) ELSE LowerEntry(e)]

\* Doubling copies every entry to its two successors, those of the split
\* segment excepted.
GrownDirectory(e) ==
    [p \in BitString(gd + 1) |->
        LET parent == [i \in 1..gd |-> p[i]]
        IN  IF parent # SegmentNumber(op.key, gd) THEN dir[parent]
            ELSE IF p[gd + 1] = 1 THEN UpperEntry(e, 0) ELSE LowerEntry(e)]

-----------------------------------------------------------------------------
(* The steps of an insert.  Single-threaded: from Begin on, only the steps *)
(* of this insert happen until it is idle again.                           *)

IdleOp == [pc |-> "idle"]

Init ==
    /\ gd = 0
    /\ dir = [p \in BitString(0) |-> [ld |-> 0, off |-> 0, seg |-> 1]]
    /\ segs = <<NewSegment>>
    /\ op = IdleOp

Begin(k, v) ==
    /\ op = IdleOp
    /\ op' = [pc |-> "insert", key |-> k, val |-> v]
    /\ UNCHANGED <<gd, dir, segs>>

\* The scan found the sub-key: its value is overwritten in place.  (Slip: the
\* return is missing and the loop goes round again.)
Update_NoReturn ==
    /\ op.pc = "insert"
    /\ \E at \in Found(op.key) :
          segs' = [segs EXCEPT ![EntryOf(op.key).seg][at[1]][at[2]].val = op.val]
    /\ UNCHANGED <<gd, dir, op>>
Update ==
    /\ op.pc = "insert"
    /\ \E at \in Found(op.key) :
          segs' = [segs EXCEPT ![EntryOf(op.key).seg][at[1]][at[2]].val = op.val]
    /\ op' = IdleOp
    /\ UNCHANGED <<gd, dir>>

Absent == op.pc = "retry" \/ (op.pc = "insert" /\ Found(op.key) = {})

\* WRERTNode::put with a slot.  A slot that already holds the sub-key has
\* only its value written; otherwise the whole slot is.  (Slip: the version of
\* the next depth.)
WriteSlot_Ahead(slot, ver) ==
    IF slot.key = op.key /\ slot.valid
    THEN [slot EXCEPT !.val = op.val]
    ELSE [valid |-> TRUE, ver |-> ver + 1, key |-> op.key, val |-> op.val]
WriteSlot(slot, ver) ==
    IF slot.key = op.key /\ slot.valid
    THEN [slot EXCEPT !.val = op.val]
    ELSE [valid |-> TRUE, ver |-> ver, key |-> op.key, val |-> op.val]

Write ==
    /\ Absent
    /\ LET e == EntryOf(op.key)
       IN  \E at \in Free(op.key) :
              segs' = [segs EXCEPT ![e.seg][at[1]][at[2]] = WriteSlot(@, Expected(e, at[1][1]))]
    /\ op' = IdleOp
    /\ UNCHANGED <<gd, dir>>

\* WRERTNode::put without a slot, the segment shallower than the directory:
\* the upper half of its directory entries move to the new segment, which
\* keeps the old shared region number.
Split ==
    LET e == EntryOf(op.key)
    IN  /\ Absent
        /\ Free(op.key) = {}
        /\ e.ld < gd
        /\ segs' = SplitSegment(e, e.off)
        /\ dir' = SplitDirectory(e)
        /\ op' = [op EXCEPT !.pc = "retry"]
        /\ UNCHANGED gd

\* The same, the segment as deep as the directory: the directory doubles,
\* every entry copied to its two successors, and replaces the old node.
Grow ==
    LET e == EntryOf(op.key)
    IN  /\ Absent
        /\ Free(op.key) = {}
        /\ e.ld = gd
        /\ segs' = SplitSegment(e, 0)
        /\ gd' = gd + 1
        /\ dir' = GrownDirectory(e)
        /\ op' = [op EXCEPT !.pc = "retry"]

Next == \/ \E k \in Keys, v \in Values : Begin(k, v)
        \/ Update
        \/ Write
        \/ Split
        \/ Grow

Spec == Init /\ [][Next]_vars

\* A call of insert runs to its end.
FairSpec == Spec /\ WF_vars(Update \/ Write \/ Split \/ Grow)

-----------------------------------------------------------------------------
(* Properties.                                                             *)

\* Every variable has its type: the directory has one entry per prefix of gd
\* bits and every entry points at an allocated segment.
TypeOK ==
    /\ gd \in Nat
    /\ segs \in Seq(Segment)
    /\ dir \in [BitString(gd) -> SegmentNode]
    /\ \A p \in DOMAIN dir : dir[p].seg \in 1..Len(segs)
    /\ op \in {IdleOp} \union [pc : {"insert", "retry"}, key : Keys, val : Values]

\* No segment is split so often that a bucket number would need bits past the
\* end of the sub-key: the macros never shift by a negative amount, whatever
\* the collisions among the sub-keys.
DepthBounded == \A p \in DOMAIN dir : dir[p].ld <= gd /\ dir[p].ld + M <= W

\* Two directory entries share a segment exactly when they agree on the bits
\* that segment is responsible for, and then they are the same entry: the
\* loop over segmentNodeNum entries of a split and the doubling copy never
\* leave one of them behind.
DirectoryAligned ==
    \A p, q \in DOMAIN dir :
        /\ (dir[p].seg = dir[q].seg) <=> (\A i \in 1..dir[p].ld : p[i] = q[i])
        /\ dir[p].seg = dir[q].seg => dir[p] = dir[q]

\* In every bucket in use the live slots come first: the scans, and the break
\* of the migration loops, stop at the first slot that is not.
LivePrefix ==
    \A p \in DOMAIN dir : \A a \in Addr : \A j \in 1..Slots :
        LET b == segs[dir[p].seg][a]
            ver == Expected(dir[p], a[1])
        IN  Live(b[j], ver) => \A i \in 1..j : Live(b[i], ver)

\* No stale slot is revived: a slot left behind by a migration is older than
\* what its region expects, through every rotation of the regions' roles.
NoRevival ==
    \A p \in DOMAIN dir : \A a \in Addr : \A j \in 1..Slots :
        LET slot == segs[dir[p].seg][a][j]
        IN  slot.valid => slot.ver <= Expected(dir[p], a[1])

\* A live slot lies where lookups of its sub-key go.
Routed ==
    \A p \in DOMAIN dir : \A a \in Addr : \A j \in 1..Slots :
        LET slot == segs[dir[p].seg][a][j]
        IN  Live(slot, Expected(dir[p], a[1])) =>
                /\ EntryOf(slot.key) = dir[p]
                /\ a \in {SharedAddr(slot.key, dir[p]), MainAddr(slot.key, dir[p])}

\* A sub-key is live in at most one slot of the two buckets it may be in: an
\* update always reaches the copy that lookups return.
OneLiveCopy ==
    \A k \in Keys :
        LET e == EntryOf(k)
            s == segs[e.seg]
        IN  Cardinality(Matches(s[SharedAddr(k, e)], SharedVersion(e), k))
              + Cardinality(Matches(s[MainAddr(k, e)], MainVersion(e), k)) <= 1

\* Every slot with its validFlag set, live or stale, in any segment, holds a
\* sub-key the index still has.  So put, which writes only the value when the
\* free slot it is given already holds the sub-key, is never given one: that
\* write would keep the stale version and lose the insert.
NoGhost ==
    \A n \in 1..Len(segs) : \A a \in Addr : \A j \in 1..Slots :
        segs[n][a][j].valid => GetSegNode(segs[n][a][j].key) # None

\* The node is a map: lookups see each insert at once, exactly once, and a
\* split or a growth of the directory changes no lookup.
KV == INSTANCE KVMap WITH
        map <- [k \in Keys |-> GetSegNode(k)],
        req <- IF op = IdleOp THEN [busy |-> FALSE]
               ELSE [busy |-> TRUE, key |-> op.key, val |-> op.val]
ImplementsMap == KV!MapSpec

\* Every insert returns: the recursion of put and putSegNode through splits
\* and growths ends.
InsertReturns == (op # IdleOp) ~> (op = IdleOp)
=============================================================================
