-------------------------- MODULE WRERTNodeProofs ---------------------------
(***************************************************************************)
(* Theorems about WRERTNode, for every sub-key length, bucket count, bucket*)
(* size and set of sub-keys and values.                                    *)
(***************************************************************************)
EXTENDS WRERTNode, TLAPS, SequenceTheorems

-----------------------------------------------------------------------------
(* Bits, addresses and buckets.                                            *)

\* A slice of a sub-key is a bit string.
LEMMA SliceType ==
    ASSUME NEW k \in BitString(W), NEW from \in Nat, NEW n \in Nat
    PROVE  Slice(k, from, n) \in BitString(n)
BY BitsAssumption DEF Slice, BitString, Bit

\* The index macros of wrert_node.h yield bucket and segment numbers.
LEMMA IndexTypes ==
    ASSUME NEW k \in BitString(W), NEW d \in Nat
    PROVE  /\ SegmentNumber(k, d) \in BitString(d)
           /\ SharedIndex(k, d) \in BitString(M - 1)
           /\ MainIndex(k, d) \in BitString(M)
<1>1. M \in Nat /\ M - 1 \in Nat
  BY BitsAssumption
<1>2. QED
  BY <1>1, SliceType DEF SegmentNumber, SharedIndex, MainIndex

\* The two buckets of a sub-key are buckets of the segment, and different.
LEMMA AddrTypes ==
    ASSUME NEW k \in BitString(W), NEW e \in SegmentNode
    PROVE  /\ SharedAddr(k, e) \in Addr
           /\ MainAddr(k, e) \in Addr
           /\ SharedAddr(k, e)[1] = e.off
           /\ MainAddr(k, e)[1] # e.off
<1> DEFINE m == MainIndex(k, e.ld)
<1>1. e.ld \in Nat /\ e.off \in Region
  BY DEF SegmentNode
<1>2. SharedIndex(k, e.ld) \in BitString(M - 1) /\ m \in BitString(M)
  BY <1>1, IndexTypes
<1>3. m[1] \in {0, 1} /\ [i \in 1..M-1 |-> m[i + 1]] \in BitString(M - 1)
  BY <1>2, BitsAssumption DEF BitString, Bit
<1>4. (e.off + 1 + m[1]) % 3 \in Region /\ (e.off + 1 + m[1]) % 3 # e.off
  BY <1>1, <1>3 DEF Region
<1> QED
  BY <1>1, <1>2, <1>3, <1>4 DEF SharedAddr, MainAddr, CalcBucketPosition, Addr

\* Every bucket outside the shared region is some main bucket.
LEMMA MainBucketType ==
    ASSUME NEW off \in Region, NEW a \in Addr, a[1] # off
    PROVE  MainBucketAt(off, a) \in BitString(M)
<1>1. a[1] \in Region /\ a[2] \in BitString(M - 1)
  BY DEF Addr
<1>2. (a[1] + 2 - off) % 3 \in {0, 1}
  BY <1>1 DEF Region
<1>3. QED
  BY <1>1, <1>2, BitsAssumption DEF MainBucketAt, BitString, Bit

\* Slots packed from one bucket into another leave a bucket.
LEMMA PackType ==
    ASSUME NEW base \in Bucket, NEW b \in Bucket, NEW S \in SUBSET (1..Slots), NEW ver \in Int
    PROVE  Pack(base, b, S, ver) \in Bucket
<1>1. ASSUME NEW c \in 1..Slots, \E j \in S : Rank(S, j) = c
      PROVE  [b[CHOOSE j \in S : Rank(S, j) = c] EXCEPT !.ver = ver] \in Slot
  <2>1. (CHOOSE j \in S : Rank(S, j) = c) \in 1..Slots
    BY <1>1
  <2>2. b[CHOOSE j \in S : Rank(S, j) = c] \in Slot
    BY <2>1 DEF Bucket
  <2>3. QED
    BY <2>2 DEF Slot
<1>2. \A c \in 1..Slots : base[c] \in Slot
  BY DEF Bucket
<1>3. QED
  BY <1>1, <1>2 DEF Pack, Bucket

\* What a migration takes are slots of the bucket.
LEMMA MigrantsType ==
    ASSUME NEW b, NEW ld, NEW h, NEW m
    PROVE  Migrants(b, ld, h, m) \in SUBSET (1..Slots)
BY DEF Migrants

\* A migration leaves a segment.
LEMMA MigrateType ==
    ASSUME NEW base \in Segment, NEW newOff \in Region, NEW s \in Segment,
           NEW off \in Region, NEW ld \in Nat, NEW h \in Bit
    PROVE  Migrate(base, newOff, s, off, ld, h) \in Segment
<1>1. ASSUME NEW a \in Addr, a[1] # newOff
      PROVE  LET m == MainBucketAt(newOff, a)
                 b == s[<<off, [i \in 1..M-1 |-> IF i = 1 THEN h ELSE m[i - 1]]>>]
             IN  Pack(base[a], b, Migrants(b, ld, h, m), ld + 1) \in Bucket
  <2> DEFINE m == MainBucketAt(newOff, a)
             idx == [i \in 1..M-1 |-> IF i = 1 THEN h ELSE m[i - 1]]
             b == s[<<off, idx>>]
  <2>1. m \in BitString(M)
    BY <1>1, MainBucketType
  <2>2. idx \in BitString(M - 1)
    BY <2>1, BitsAssumption DEF BitString
  <2>3. b \in Bucket /\ base[a] \in Bucket
    BY <2>2 DEF Segment, Addr
  <2> HIDE DEF m, idx, b
  <2>4. Pack(base[a], b, Migrants(b, ld, h, m), ld + 1) \in Bucket
    BY <2>3, MigrantsType, PackType
  <2>5. QED
    BY <2>4 DEF m, idx, b
<1>2. \A a \in Addr : base[a] \in Bucket
  BY DEF Segment
<1>3. QED
  BY <1>1, <1>2 DEF Migrate, Segment

\* A new segment is one.
LEMMA FreshTypes == FreshBucket \in Bucket /\ NewSegment \in Segment
BY BitsAssumption DEF FreshBucket, FreshSlot, Bucket, Slot, BitString, Bit, NewSegment, Segment

\* Both halves of a split segment are segments.
LEMMA HalvesType ==
    ASSUME NEW s \in Segment, NEW off \in Region, NEW newOff \in Region, NEW ld \in Nat
    PROVE  /\ UpperHalf(s, off, newOff, ld) \in Segment
           /\ LowerHalf(s, off, ld) \in Segment
<1> DEFINE copied == [a \in Addr |-> IF a[1] = newOff THEN s[<<(off + 2) % 3, a[2]>>] ELSE FreshBucket]
<1>1. (off + 1) % 3 \in Region /\ (off + 2) % 3 \in Region
  BY DEF Region
<1>2. copied \in Segment
  BY <1>1, FreshTypes DEF Segment, Addr
<1>3. 0 \in Bit /\ 1 \in Bit
  BY DEF Bit
<1> HIDE DEF copied
<1>4. Migrate(copied, newOff, s, off, ld, 1) \in Segment
  BY <1>2, <1>3, MigrateType
<1>5. UpperHalf(s, off, newOff, ld) \in Segment
  BY <1>4 DEF UpperHalf, copied
<1>6. LowerHalf(s, off, ld) \in Segment
  BY <1>1, <1>3, MigrateType DEF LowerHalf
<1>7. QED
  BY <1>5, <1>6

-----------------------------------------------------------------------------
(* Type correctness.                                                       *)

\* A sub-key has a directory entry, and the entry a segment.
LEMMA EntryType ==
    ASSUME TypeOK, NEW k \in BitString(W)
    PROVE  /\ SegmentNumber(k, gd) \in DOMAIN dir
           /\ EntryOf(k) \in SegmentNode
           /\ EntryOf(k).seg \in 1..Len(segs)
           /\ segs[EntryOf(k).seg] \in Segment
<1>1. gd \in Nat /\ DOMAIN dir = BitString(gd) /\ segs \in Seq(Segment)
  BY DEF TypeOK
<1>2. SegmentNumber(k, gd) \in DOMAIN dir
  BY <1>1, IndexTypes
<1>3. EntryOf(k) \in SegmentNode /\ EntryOf(k).seg \in 1..Len(segs)
  BY <1>2 DEF EntryOf, TypeOK
<1>4. QED
  BY <1>1, <1>2, <1>3, ElementOfSeq

\* A pending insert has one of the callers' sub-keys and values.
LEMMA PendingType ==
    ASSUME TypeOK, op.pc # "idle"
    PROVE  /\ op \in [pc : {"insert", "retry"}, key : Keys, val : Values]
           /\ op.key \in BitString(W)
BY NodeAssumption DEF TypeOK, IdleOp

\* The slot an insert finds or takes is a slot of one of its two buckets.
LEMMA SlotChoice ==
    ASSUME TypeOK, NEW k \in BitString(W), NEW at, at \in Free(k) \/ at \in Found(k)
    PROVE  /\ at[1] \in {SharedAddr(k, EntryOf(k)), MainAddr(k, EntryOf(k))}
           /\ at[1] \in Addr
           /\ at[2] \in 1..Slots
<1> DEFINE e == EntryOf(k)
<1>1. SharedAddr(k, e) \in Addr /\ MainAddr(k, e) \in Addr
  BY EntryType, AddrTypes
<1>2. \A b, ver : FreeIn(b, ver) \subseteq 1..Slots /\ Hits(b, ver, k) \subseteq 1..Slots
  BY DEF FreeIn, FirstDead, FirstOther, Hits
<1>3. at[1] \in {SharedAddr(k, e), MainAddr(k, e)} /\ at[2] \in 1..Slots
  <2>1. CASE at \in Free(k)
    BY <1>2, <2>1 DEF Free
  <2>2. CASE at \in Found(k)
    BY <1>2, <2>2 DEF Found
  <2>3. QED
    BY <2>1, <2>2
<1>4. QED
  BY <1>1, <1>3

\* Overwriting a slot of a segment with a slot leaves a segment.
LEMMA SetSlotType ==
    ASSUME NEW s \in Segment, NEW a \in Addr, NEW j \in 1..Slots, NEW slot \in Slot
    PROVE  [s EXCEPT ![a] = [@ EXCEPT ![j] = slot]] \in Segment
BY DEF Segment, Bucket

\* A split keeps the other segments and adds one.
LEMMA SplitSegmentType ==
    ASSUME TypeOK, NEW e \in SegmentNode, e.seg \in 1..Len(segs), NEW newOff \in Region
    PROVE  LET t == SplitSegment(e, newOff)
           IN  /\ t \in Seq(Segment)
               /\ Len(t) = Len(segs) + 1
               /\ t[Len(segs) + 1] = UpperHalf(segs[e.seg], e.off, newOff, e.ld)
               /\ \A n \in 1..Len(segs) :
                     t[n] = IF n = e.seg THEN LowerHalf(segs[n], e.off, e.ld) ELSE segs[n]
<1> DEFINE low == LowerHalf(segs[e.seg], e.off, e.ld)
           up == UpperHalf(segs[e.seg], e.off, newOff, e.ld)
           t1 == [segs EXCEPT ![e.seg] = low]
<1>1. segs \in Seq(Segment) /\ e.off \in Region /\ e.ld \in Nat
  BY DEF TypeOK, SegmentNode
<1>2. segs[e.seg] \in Segment
  BY <1>1, ElementOfSeq
<1>3. low \in Segment /\ up \in Segment
  BY <1>1, <1>2, HalvesType
<1>4. SplitSegment(e, newOff) = Append(t1, up)
  BY <1>1 DEF SplitSegment
<1> HIDE DEF low, up
<1>5. /\ t1 \in Seq(Segment)
      /\ Len(t1) = Len(segs)
      /\ \A n \in 1..Len(segs) : t1[n] = IF n = e.seg THEN low ELSE segs[n]
  BY <1>1, <1>3, ExceptSeq
<1> HIDE DEF t1
<1>6. /\ Append(t1, up) \in Seq(Segment)
      /\ Len(Append(t1, up)) = Len(t1) + 1
      /\ \A n \in 1..Len(t1) : Append(t1, up)[n] = t1[n]
      /\ Append(t1, up)[Len(t1) + 1] = up
  BY <1>3, <1>5, AppendProperties
<1>7. QED
  BY <1>4, <1>5, <1>6 DEF low, up

\* The entries of the two halves point at segments.
LEMMA SplitEntryType ==
    ASSUME TypeOK, NEW e \in SegmentNode, e.seg \in 1..Len(segs), NEW newOff \in Region
    PROVE  /\ UpperEntry(e, newOff) \in SegmentNode
           /\ UpperEntry(e, newOff).seg \in 1..Len(segs)+1
           /\ LowerEntry(e) \in SegmentNode
           /\ LowerEntry(e).seg \in 1..Len(segs)+1
<1>1. Len(segs) \in Nat
  BY LenProperties DEF TypeOK
<1>2. e.ld \in Nat /\ e.off \in Region /\ e.seg \in Nat /\ (e.off + 1) % 3 \in Region
  BY DEF SegmentNode, Region
<1>3. QED
  BY <1>1, <1>2 DEF UpperEntry, LowerEntry, SegmentNode

\* Each step keeps the types.
LEMMA TypeStep == TypeOK /\ [Next]_vars => TypeOK'
<1> SUFFICES ASSUME TypeOK, [Next]_vars PROVE TypeOK'
  OBVIOUS
<1>1. ASSUME NEW k \in Keys, NEW v \in Values, Begin(k, v) PROVE TypeOK'
  BY <1>1 DEF TypeOK, Begin
<1>2. CASE Update
  <2>1. op.pc # "idle"
    BY <1>2 DEF Update
  <2> DEFINE n == EntryOf(op.key).seg
  <2>2. PICK at \in Found(op.key) : segs' = [segs EXCEPT ![n][at[1]][at[2]].val = op.val]
    BY <1>2 DEF Update
  <2>3. n \in 1..Len(segs) /\ segs[n] \in Segment /\ at[1] \in Addr /\ at[2] \in 1..Slots
    BY <2>1, PendingType, EntryType, SlotChoice
  <2> DEFINE slot == [segs[n][at[1]][at[2]] EXCEPT !.val = op.val]
             s == [segs[n] EXCEPT ![at[1]] = [@ EXCEPT ![at[2]] = slot]]
  <2>4. slot \in Slot
    <3>1. segs[n][at[1]][at[2]] \in Slot
      BY <2>3 DEF Segment, Bucket
    <3>2. op.val \in Values
      BY <2>1, PendingType
    <3>3. QED
      BY <3>1, <3>2 DEF Slot
  <2>5. s \in Segment
    BY <2>3, <2>4, SetSlotType
  <2>6. segs' = [segs EXCEPT ![n] = s]
    BY <2>2
  <2> HIDE DEF s, n
  <2>7. segs' \in Seq(Segment) /\ Len(segs') = Len(segs)
    BY <2>3, <2>5, <2>6, ExceptSeq DEF TypeOK
  <2>8. QED
    BY <1>2, <2>7 DEF Update, TypeOK
<1>3. CASE Write
  <2>1. op.pc # "idle"
    BY <1>3 DEF Write, Absent
  <2> DEFINE e == EntryOf(op.key)
             n == e.seg
  <2>2. PICK at \in Free(op.key) :
           segs' = [segs EXCEPT ![n][at[1]][at[2]] = WriteSlot(@, Expected(e, at[1][1]))]
    BY <1>3 DEF Write
  <2>3. /\ e \in SegmentNode /\ n \in 1..Len(segs) /\ segs[n] \in Segment
        /\ at[1] \in Addr /\ at[2] \in 1..Slots
    BY <2>1, PendingType, EntryType, SlotChoice
  <2> DEFINE slot == WriteSlot(segs[n][at[1]][at[2]], Expected(e, at[1][1]))
             s == [segs[n] EXCEPT ![at[1]] = [@ EXCEPT ![at[2]] = slot]]
  <2>4. slot \in Slot
    <3>1. segs[n][at[1]][at[2]] \in Slot
      BY <2>3 DEF Segment, Bucket
    <3>2. op.val \in Values /\ op.key \in BitString(W)
      BY <2>1, PendingType
    <3>3. Expected(e, at[1][1]) \in Int
      BY <2>3 DEF Expected, SharedVersion, MainVersion, SegmentNode
    <3>4. QED
      BY <3>1, <3>2, <3>3 DEF Slot, WriteSlot
  <2>5. s \in Segment
    BY <2>3, <2>4, SetSlotType
  <2>6. segs' = [segs EXCEPT ![n] = s]
    BY <2>2
  <2> HIDE DEF s, n
  <2>7. segs' \in Seq(Segment) /\ Len(segs') = Len(segs)
    BY <2>3, <2>5, <2>6, ExceptSeq DEF TypeOK
  <2>8. QED
    BY <1>3, <2>7 DEF Write, TypeOK
<1>4. CASE Split
  <2> DEFINE e == EntryOf(op.key)
  <2>1. op.pc # "idle"
    BY <1>4 DEF Split, Absent
  <2>2. e \in SegmentNode /\ e.seg \in 1..Len(segs) /\ e.off \in Region
    BY <2>1, PendingType, EntryType DEF SegmentNode
  <2>3. segs' \in Seq(Segment) /\ Len(segs') = Len(segs) + 1
    BY <1>4, <2>2, SplitSegmentType DEF Split
  <2>4. Len(segs) \in Nat /\ DOMAIN dir = BitString(gd)
    BY LenProperties DEF TypeOK
  <2>5. dir' \in [BitString(gd) -> SegmentNode] /\ \A p \in BitString(gd) : dir'[p].seg \in 1..Len(segs')
    <3>1. dir' = SplitDirectory(e)
      BY <1>4 DEF Split
    <3>2. \A p \in BitString(gd) : dir'[p] \in {dir[p], UpperEntry(e, e.off), LowerEntry(e)}
      BY <2>4, <3>1 DEF SplitDirectory
    <3>3. DOMAIN dir' = BitString(gd) /\ dir' = [p \in BitString(gd) |-> dir'[p]]
      BY <2>4, <3>1 DEF SplitDirectory
    <3>4. \A p \in BitString(gd) : dir[p] \in SegmentNode /\ dir[p].seg \in 1..Len(segs)+1
      BY <2>4 DEF TypeOK
    <3>5. \A p \in BitString(gd) : dir'[p] \in SegmentNode /\ dir'[p].seg \in 1..Len(segs)+1
      BY <2>2, <3>2, <3>4, SplitEntryType
    <3>6. QED
      BY <2>3, <3>3, <3>5
  <2>6. op' \in [pc : {"insert", "retry"}, key : Keys, val : Values]
    BY <1>4, <2>1, PendingType DEF Split
  <2>7. gd' = gd
    BY <1>4 DEF Split
  <2>8. QED
    BY <2>3, <2>5, <2>6, <2>7 DEF TypeOK
<1>5. CASE Grow
  <2> DEFINE e == EntryOf(op.key)
  <2>1. op.pc # "idle"
    BY <1>5 DEF Grow, Absent
  <2>2. e \in SegmentNode /\ e.seg \in 1..Len(segs) /\ 0 \in Region
    BY <2>1, PendingType, EntryType DEF Region
  <2>3. segs' \in Seq(Segment) /\ Len(segs') = Len(segs) + 1
    BY <1>5, <2>2, SplitSegmentType DEF Grow
  <2>4. Len(segs) \in Nat /\ gd \in Nat
    BY LenProperties DEF TypeOK
  <2>5. dir' \in [BitString(gd + 1) -> SegmentNode] /\ \A p \in BitString(gd + 1) : dir'[p].seg \in 1..Len(segs')
    <3>1. dir' = GrownDirectory(e)
      BY <1>5 DEF Grow
    <3>2. \A p \in BitString(gd + 1) :
             dir'[p] \in {dir[[i \in 1..gd |-> p[i]]], UpperEntry(e, 0), LowerEntry(e)}
      BY <3>1 DEF GrownDirectory
    <3>3. DOMAIN dir' = BitString(gd + 1) /\ dir' = [p \in BitString(gd + 1) |-> dir'[p]]
      BY <3>1 DEF GrownDirectory
    <3>4. \A p \in BitString(gd + 1) : [i \in 1..gd |-> p[i]] \in BitString(gd)
      BY <2>4 DEF BitString
    <3>5. \A p \in BitString(gd) : dir[p] \in SegmentNode /\ dir[p].seg \in 1..Len(segs)+1
      BY <2>4 DEF TypeOK
    <3>6. \A p \in BitString(gd + 1) : dir'[p] \in SegmentNode /\ dir'[p].seg \in 1..Len(segs)+1
      BY <2>2, <3>2, <3>4, <3>5, SplitEntryType
    <3>7. QED
      BY <2>3, <3>3, <3>6
  <2>6. op' \in [pc : {"insert", "retry"}, key : Keys, val : Values]
    BY <1>5, <2>1, PendingType DEF Grow
  <2>7. gd' = gd + 1
    BY <1>5 DEF Grow
  <2>8. QED
    BY <2>3, <2>4, <2>5, <2>6, <2>7 DEF TypeOK
<1>6. CASE UNCHANGED vars
  BY <1>6 DEF vars, TypeOK
<1>7. QED
  BY <1>1, <1>2, <1>3, <1>4, <1>5, <1>6 DEF Next

\* The initial node is well typed.
LEMMA TypeInit == Init => TypeOK
<1> SUFFICES ASSUME Init PROVE TypeOK
  OBVIOUS
<1>1. segs \in Seq(Segment) /\ Len(segs) = 1
  BY FreshTypes DEF Init
<1>2. dir \in [BitString(gd) -> SegmentNode] /\ \A p \in DOMAIN dir : dir[p].seg \in 1..Len(segs)
  BY <1>1 DEF Init, SegmentNode, Region
<1>3. QED
  BY <1>1, <1>2 DEF Init, TypeOK

\* The directory has one entry for each prefix of globalDepth bits, pointing
\* at an allocated segment, and every slot, segment and request keeps its
\* type, through inserts, splits and growths.
THEOREM TypeCorrect == Spec => []TypeOK
BY TypeInit, TypeStep, PTL DEF Spec

-----------------------------------------------------------------------------
(* The directory stays aligned.                                            *)

\* What makes alignment inductive: no segment is deeper than the directory.
DirInv == /\ DirectoryAligned
          /\ \A p \in DOMAIN dir : dir[p].ld <= gd

\* A split moves exactly the entries of the segment it splits.
LEMMA SplitAligned == TypeOK /\ DirInv /\ Split => DirInv'
<1> SUFFICES ASSUME TypeOK, DirInv, Split PROVE DirInv'
  OBVIOUS
<1> DEFINE e == EntryOf(op.key)
           pk == SegmentNumber(op.key, gd)
           G(p) == \A i \in 1..e.ld : p[i] = pk[i]
           New == Len(segs) + 1
<1>1. /\ e \in SegmentNode /\ e.seg \in 1..Len(segs)
      /\ pk \in DOMAIN dir /\ e = dir[pk]
  BY PendingType, EntryType DEF Split, Absent, EntryOf
<1>2. /\ gd \in Nat /\ Len(segs) \in Nat /\ DOMAIN dir = BitString(gd)
      /\ e.ld \in Nat /\ e.ld < gd
      /\ gd' = gd /\ DOMAIN dir' = DOMAIN dir
  BY <1>1, LenProperties DEF TypeOK, SegmentNode, Split, SplitDirectory
<1>3. ASSUME NEW p \in DOMAIN dir
      PROVE  /\ G(p) <=> dir[p].seg = e.seg
             /\ G(p) => dir[p] = e
             /\ dir[p].seg \in 1..Len(segs) /\ dir[p].ld \in Nat
             /\ p[e.ld + 1] \in {0, 1}
  <2>1. (dir[pk].seg = dir[p].seg) <=> (\A i \in 1..e.ld : pk[i] = p[i])
    BY <1>1 DEF DirInv, DirectoryAligned
  <2>2. dir[pk].seg = dir[p].seg => dir[pk] = dir[p]
    BY <1>1 DEF DirInv, DirectoryAligned
  <2>3. p[e.ld + 1] \in {0, 1}
    BY <1>2 DEF BitString, Bit
  <2>4. QED
    BY <1>1, <2>1, <2>2, <2>3 DEF TypeOK, SegmentNode
<1>4. ASSUME NEW p \in DOMAIN dir
      PROVE  /\ ~G(p) => dir'[p] = dir[p]
             /\ G(p) /\ p[e.ld + 1] = 1 => dir'[p] = [ld |-> e.ld + 1, off |-> e.off, seg |-> New]
             /\ G(p) /\ p[e.ld + 1] = 0 => dir'[p] = [ld |-> e.ld + 1, off |-> (e.off + 1) % 3, seg |-> e.seg]
  BY DEF Split, SplitDirectory, UpperEntry, LowerEntry
<1> HIDE DEF e, pk
<1>5. ASSUME NEW p \in DOMAIN dir, NEW q \in DOMAIN dir
      PROVE  /\ (dir'[p].seg = dir'[q].seg) <=> (\A i \in 1..dir'[p].ld : p[i] = q[i])
             /\ dir'[p].seg = dir'[q].seg => dir'[p] = dir'[q]
  <2>1. CASE G(p) /\ G(q)
    <3>1. dir'[p].ld = e.ld + 1
      BY <1>3, <1>4, <2>1
    <3>2. (dir'[p].seg = dir'[q].seg) <=> p[e.ld + 1] = q[e.ld + 1]
      BY <1>1, <1>2, <1>3, <1>4, <2>1
    <3>3. p[e.ld + 1] = q[e.ld + 1] => dir'[p] = dir'[q]
      BY <1>3, <1>4, <2>1
    <3>4. (\A i \in 1..(e.ld + 1) : p[i] = q[i]) <=> p[e.ld + 1] = q[e.ld + 1]
      BY <1>2, <2>1
    <3>5. QED
      BY <3>1, <3>2, <3>3, <3>4
  <2>2. CASE G(p) /\ ~G(q)
    <3>1. dir'[p].ld = e.ld + 1 /\ dir'[p].seg \in {New, e.seg}
      BY <1>3, <1>4, <2>2
    <3>2. dir'[q].seg \in 1..Len(segs) /\ dir'[q].seg # e.seg
      BY <1>3, <1>4, <2>2
    <3>3. dir'[p].seg # dir'[q].seg
      BY <1>2, <3>1, <3>2
    <3>4. ~\A i \in 1..(e.ld + 1) : p[i] = q[i]
      BY <1>2, <2>2
    <3>5. QED
      BY <3>1, <3>3, <3>4
  <2>3. CASE ~G(p) /\ G(q)
    <3>1. dir'[p] = dir[p] /\ dir[p].seg # e.seg /\ dir[p].seg \in 1..Len(segs)
      BY <1>3, <1>4, <2>3
    <3>2. dir'[q].seg \in {New, e.seg}
      BY <1>3, <1>4, <2>3
    <3>3. dir[q].seg = e.seg
      BY <1>3, <2>3
    <3>4. ~\A i \in 1..dir[p].ld : p[i] = q[i]
      BY <3>1, <3>3 DEF DirInv, DirectoryAligned
    <3>5. QED
      BY <1>2, <3>1, <3>2, <3>4
  <2>4. CASE ~G(p) /\ ~G(q)
    BY <1>4, <2>4 DEF DirInv, DirectoryAligned
  <2>5. QED
    BY <2>1, <2>2, <2>3, <2>4
<1>6. ASSUME NEW p \in DOMAIN dir
      PROVE  dir'[p].ld <= gd
  <2>1. CASE G(p)
    BY <1>2, <1>3, <1>4, <2>1
  <2>2. CASE ~G(p)
    BY <1>4, <2>2 DEF DirInv
  <2>3. QED
    BY <2>1, <2>2
<1>7. QED
  BY <1>2, <1>5, <1>6 DEF DirInv, DirectoryAligned

\* The doubled directory is aligned.
LEMMA GrowAligned == TypeOK /\ DirInv /\ Grow => DirInv'
<1> SUFFICES ASSUME TypeOK, DirInv, Grow PROVE DirInv'
  OBVIOUS
<1> DEFINE e == EntryOf(op.key)
           pk == SegmentNumber(op.key, gd)
           Parent(p) == [i \in 1..gd |-> p[i]]
           New == Len(segs) + 1
<1>1. /\ e \in SegmentNode /\ e.seg \in 1..Len(segs)
      /\ pk \in DOMAIN dir /\ e = dir[pk]
  BY PendingType, EntryType DEF Grow, Absent, EntryOf
<1>2. /\ gd \in Nat /\ Len(segs) \in Nat /\ DOMAIN dir = BitString(gd)
      /\ e.ld = gd
      /\ gd' = gd + 1 /\ DOMAIN dir' = BitString(gd + 1)
  BY <1>1, LenProperties DEF TypeOK, Grow, GrownDirectory
<1>3. ASSUME NEW p \in BitString(gd + 1)
      PROVE  /\ Parent(p) \in DOMAIN dir
             /\ p[gd + 1] \in {0, 1}
             /\ Parent(p) = pk <=> dir[Parent(p)].seg = e.seg
             /\ dir[Parent(p)].seg \in 1..Len(segs)
             /\ dir[Parent(p)].ld \in Nat /\ dir[Parent(p)].ld <= gd
             /\ \A i \in 1..gd : Parent(p)[i] = p[i]
             /\ \A q : (\A i \in 1..gd : p[i] = q[i]) => Parent(p) = Parent(q)
  <2>1. Parent(p) \in DOMAIN dir /\ p[gd + 1] \in {0, 1}
    BY <1>2 DEF BitString, Bit
  <2>2. (dir[pk].seg = dir[Parent(p)].seg) <=> (\A i \in 1..gd : pk[i] = Parent(p)[i])
    BY <1>1, <1>2, <2>1 DEF DirInv, DirectoryAligned
  <2>3. pk = [i \in 1..gd |-> pk[i]]
    BY <1>1, <1>2 DEF BitString
  <2>4. (\A i \in 1..gd : pk[i] = Parent(p)[i]) <=> Parent(p) = pk
    BY <2>3
  <2>5. QED
    BY <1>1, <2>1, <2>2, <2>4 DEF DirInv, TypeOK, SegmentNode
<1>4. ASSUME NEW p \in BitString(gd + 1)
      PROVE  /\ Parent(p) # pk => dir'[p] = dir[Parent(p)]
             /\ Parent(p) = pk /\ p[gd + 1] = 1 => dir'[p] = [ld |-> gd + 1, off |-> 0, seg |-> New]
             /\ Parent(p) = pk /\ p[gd + 1] = 0 => dir'[p] = [ld |-> gd + 1, off |-> (e.off + 1) % 3, seg |-> e.seg]
             /\ Parent(p) = pk => dir'[p].ld = gd + 1 /\ dir'[p].seg \in {New, e.seg}
  <2>1. /\ Parent(p) # pk => dir'[p] = dir[Parent(p)]
        /\ Parent(p) = pk /\ p[gd + 1] = 1 => dir'[p] = [ld |-> gd + 1, off |-> 0, seg |-> New]
        /\ Parent(p) = pk /\ p[gd + 1] = 0 => dir'[p] = [ld |-> gd + 1, off |-> (e.off + 1) % 3, seg |-> e.seg]
    BY <1>2 DEF Grow, GrownDirectory, UpperEntry, LowerEntry
  <2> HIDE DEF e, pk, Parent
  <2>2. CASE p[gd + 1] = 1
    BY <2>1, <2>2
  <2>3. CASE p[gd + 1] = 0
    BY <2>1, <2>3
  <2>4. QED
    BY <1>3, <2>1, <2>2, <2>3
<1> HIDE DEF e, pk, Parent
<1>5. ASSUME NEW p \in BitString(gd + 1), NEW q \in BitString(gd + 1)
      PROVE  /\ (dir'[p].seg = dir'[q].seg) <=> (\A i \in 1..dir'[p].ld : p[i] = q[i])
             /\ dir'[p].seg = dir'[q].seg => dir'[p] = dir'[q]
  <2>0. \A n \in Nat : n <= gd => ((\A i \in 1..n : p[i] = q[i]) <=> (\A i \in 1..n : Parent(p)[i] = Parent(q)[i]))
    <3>1. \A i \in 1..gd : Parent(p)[i] = p[i] /\ Parent(q)[i] = q[i]
      BY <1>3
    <3>2. ASSUME NEW n \in Nat, n <= gd PROVE \A i \in 1..n : i \in 1..gd
      BY <1>2, <3>2
    <3>3. QED
      BY <3>1, <3>2
  <2>1. CASE Parent(p) = pk /\ Parent(q) = pk
    <3>1. dir'[p].ld = gd + 1
      BY <1>3, <1>4, <2>1
    <3>2. (dir'[p].seg = dir'[q].seg) <=> p[gd + 1] = q[gd + 1]
      BY <1>1, <1>2, <1>3, <1>4, <2>1
    <3>3. p[gd + 1] = q[gd + 1] => dir'[p] = dir'[q]
      BY <1>3, <1>4, <2>1
    <3>4. \A i \in 1..gd : Parent(p)[i] = Parent(q)[i]
      BY <2>1
    <3>5. (\A i \in 1..(gd + 1) : p[i] = q[i]) <=> p[gd + 1] = q[gd + 1]
      BY <1>2, <2>0, <3>4
    <3>6. QED
      BY <3>1, <3>2, <3>3, <3>5
  <2>2. CASE Parent(p) = pk /\ Parent(q) # pk
    <3>1. dir'[p].ld = gd + 1 /\ dir'[p].seg \in {New, e.seg}
      BY <1>3, <1>4, <2>2
    <3>2. dir'[q].seg \in 1..Len(segs) /\ dir'[q].seg # e.seg
      BY <1>3, <1>4, <2>2
    <3>3. dir'[p].seg # dir'[q].seg
      BY <1>2, <3>1, <3>2
    <3>4. ~\A i \in 1..(gd + 1) : p[i] = q[i]
      <4>1. SUFFICES ASSUME \A i \in 1..(gd + 1) : p[i] = q[i] PROVE Parent(p) = Parent(q)
        BY <2>2
      <4>2. QED
        BY <1>2, <1>3, <4>1
    <3>5. QED
      BY <3>1, <3>3, <3>4
  <2>3. CASE Parent(p) # pk /\ Parent(q) = pk
    <3>1. dir'[p] = dir[Parent(p)] /\ dir[Parent(p)].seg # e.seg /\ dir[Parent(p)].seg \in 1..Len(segs)
      BY <1>3, <1>4, <2>3
    <3>2. dir'[q].seg \in {New, e.seg}
      BY <1>3, <1>4, <2>3
    <3>3. dir[Parent(q)].seg = e.seg
      BY <1>3, <2>3
    <3>4. ~\A i \in 1..dir[Parent(p)].ld : Parent(p)[i] = Parent(q)[i]
      BY <1>3, <3>1, <3>3 DEF DirInv, DirectoryAligned
    <3>5. ~\A i \in 1..dir[Parent(p)].ld : p[i] = q[i]
      BY <1>3, <2>0, <3>4
    <3>6. QED
      BY <1>2, <3>1, <3>2, <3>5
  <2>4. CASE Parent(p) # pk /\ Parent(q) # pk
    <3>1. dir'[p] = dir[Parent(p)] /\ dir'[q] = dir[Parent(q)]
      BY <1>4, <2>4
    <3>2. /\ (dir[Parent(p)].seg = dir[Parent(q)].seg)
                <=> (\A i \in 1..dir[Parent(p)].ld : Parent(p)[i] = Parent(q)[i])
          /\ dir[Parent(p)].seg = dir[Parent(q)].seg => dir[Parent(p)] = dir[Parent(q)]
      BY <1>3 DEF DirInv, DirectoryAligned
    <3>3. QED
      BY ZenonT(40), <1>3, <2>0, <3>1, <3>2
  <2>5. QED
    BY <2>1, <2>2, <2>3, <2>4
<1>6. ASSUME NEW p \in BitString(gd + 1)
      PROVE  dir'[p].ld <= gd + 1
  <2>1. CASE Parent(p) = pk
    BY <1>2, <1>3, <1>4, <2>1
  <2>2. CASE Parent(p) # pk
    BY <1>2, <1>3, <1>4, <2>2
  <2>3. QED
    BY <2>1, <2>2
<1>7. QED
  BY <1>2, <1>5, <1>6 DEF DirInv, DirectoryAligned

\* The directory of the first node is aligned.
LEMMA DirInit == Init => DirInv
BY DEF Init, DirInv, DirectoryAligned, BitString

\* Only a split and a growth touch the directory, and both keep it aligned.
LEMMA DirStep == TypeOK /\ DirInv /\ [Next]_vars => DirInv'
<1> SUFFICES ASSUME TypeOK, DirInv, [Next]_vars PROVE DirInv'
  OBVIOUS
<1>1. CASE UNCHANGED <<gd, dir>>
  BY <1>1 DEF DirInv, DirectoryAligned
<1>2. CASE Split
  BY <1>2, SplitAligned
<1>3. CASE Grow
  BY <1>3, GrowAligned
<1>4. QED
  BY <1>1, <1>2, <1>3 DEF Next, Begin, Update, Write, vars

\* Through every split and growth, two entries of the directory share a
\* segment exactly when they agree on the bits the segment is responsible
\* for: no lookup is sent to a segment that has given its sub-key away.
THEOREM DirectoryStaysAligned == Spec => []DirectoryAligned
<1>1. DirInv => DirectoryAligned
  BY DEF DirInv
<1>2. QED
  BY <1>1, DirInit, DirStep, TypeCorrect, PTL DEF Spec
=============================================================================
