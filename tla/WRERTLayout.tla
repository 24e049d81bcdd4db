---------------------------- MODULE WRERTLayout -----------------------------
(***************************************************************************)
(* The bucket arithmetic of a WRERT node as wrert_node.h and               *)
(* WRERTNode::put compute it, on numbers: shifts, masks, the 8-bit         *)
(* sharedBucketOffset and the 9-bit signed migVersion.  A behaviour        *)
(* follows one sub-key's slot through the splits of its segment.  Module   *)
(* WRERTBits states the same layout on bit strings, and WRERTNode uses it. *)
(***************************************************************************)
EXTENDS Integers

CONSTANTS W,            \* WRERT_NODE_SPAN (32 in the code)
          M,            \* WRERT_MAIN_BUCKETS_MAX_BITS (5 in the code)
          LayoutKeys    \* the sub-keys followed

\* wrert_node.h allows 4 to 128 main buckets.
ASSUME LayoutAssumption == M \in 2..7 /\ W \in Nat /\ W >= M /\ LayoutKeys \subseteq 0..(2^W - 1)

VARIABLES key,      \* the sub-key
          ld,       \* localDepth of its segment
          enc,      \* the segment node's sharedBucketOffset field
          pos,      \* the bucket its slot is in, Lost if no copy was made
          mig       \* the slot's migVersion field, as 9 unsigned bits

layoutVars == <<key, ld, enc, pos, mig>>

MainBuckets == 2^M
SharedBuckets == MainBuckets \div 2
SegmentSize == MainBuckets + SharedBuckets
MigShared == SharedBuckets \div 2
Lost == -1

-----------------------------------------------------------------------------
(* wrert_node.h.                                                           *)

Field(k, shift, n) == (k \div 2^shift) % 2^n

GetSegmentNumber(k, depth) == Field(k, W - depth, depth)
GetSharedBucketIndex(k, depth) == Field(k, W - (depth - 1 + M), M)
\* (Slip: the shared bucket's shift.)
GetMainBucketIndex_SharedShift(k, depth) == Field(k, W - (depth - 1 + M), M)
GetMainBucketIndex(k, depth) == Field(k, W - (depth + M), M)

CalcBucketPosition(offset, index) ==
    IF offset = 0 THEN SharedBuckets + index
    ELSE IF offset = MainBuckets THEN index
    ELSE IF index < offset THEN index + MainBuckets ELSE index % SharedBuckets

\* sharedBucketOffset is stored less one, in 8 bits, 0 standing for itself.
Encode(offset) == IF offset = 0 THEN 0 ELSE offset - 1
Decode(field) == IF field = 0 THEN 0 ELSE field + 1

SharedPosition(k, depth, offset) ==
    offset + (GetSharedBucketIndex(k, depth) % SharedBuckets)
MainPosition(k, depth, offset) ==
    CalcBucketPosition(offset, GetMainBucketIndex(k, depth))

-----------------------------------------------------------------------------
(* migVersion: a 9-bit signed field compared in three ways.                *)

Stamp(version) == version % 512
Signed(field) == IF field >= 256 THEN field - 512 ELSE field

\* What the vector scans of insert and getSegNode compare the field with.
\* (Slip: the version is kept in an unsigned byte, as putSegNode does.)
SharedTarget_Unsigned(depth) == (depth - 1) % 256
SharedTarget(depth) == (depth - 1) % 512
MainTarget(depth) == depth

\* putSegNode compares the low 8 bits with a uint8_t.
PutMatchesShared(field, depth) == field % 256 = (depth - 1) % 256
PutMatchesMain(field, depth) == field % 256 = depth

-----------------------------------------------------------------------------
(* The migration of WRERTNode::put.                                        *)

\* Does sub-key k go to the upper half?  Tested in a directory of depth
\* gd > depth by its entry number against segmentIndexMid; when the directory
\* grows, gd = depth + 1 and the test is equality with the odd entry.
InUpperHalf(k, depth, gd) ==
    LET segmentIndex == GetSegmentNumber(k, gd)
        segmentNodeNum == 2^(gd - depth)
        segmentIndexStart == segmentIndex - (segmentIndex % segmentNodeNum)
    IN  segmentIndex >= segmentIndexStart + (segmentNodeNum \div 2)

DstOffset(offset) == (offset + SharedBuckets) % SegmentSize

\* The first of the main buckets that are copied to the new segment.  (Slip:
\* the first main bucket of all.)
MigMainStart_First(offset) == (offset + SharedBuckets) % SegmentSize
MigMainStart(offset) ==
    (((offset + SharedBuckets) % SegmentSize)
       + ((offset + MigShared) % SharedBuckets) * 2) % SegmentSize

InShared(offset) == pos >= offset /\ pos < offset + SharedBuckets

\* A slot of the shared buckets first .. first+MigShared-1 is rewritten in a
\* main bucket; a slot of the other shared buckets is not looked at.
Migrate(first, newOffset) ==
    IF pos >= first /\ pos < first + MigShared
    THEN /\ pos' = MainPosition(key, ld + 1, newOffset)
         /\ mig' = Stamp(ld + 1)
    ELSE /\ pos' = Lost
         /\ UNCHANGED mig

\* The sub-key's half moves to a new segment whose shared offset is newOffset:
\* the old one in a split, 0 when the directory grows.
ToUpper(newOffset) ==
    LET offset == Decode(enc)
        start == MigMainStart(offset)
    IN  /\ IF InShared(offset) THEN Migrate(offset + MigShared, newOffset)
           ELSE /\ pos' = IF pos >= start /\ pos < start + SharedBuckets
                          THEN newOffset + pos - start ELSE Lost
                /\ UNCHANGED mig
        /\ enc' = Encode(newOffset)

\* The sub-key's half stays: only slots of the shared region move.
ToLower ==
    LET offset == Decode(enc)
    IN  /\ IF InShared(offset) THEN Migrate(offset, DstOffset(offset))
           ELSE UNCHANGED <<pos, mig>>
        /\ enc' = Encode(DstOffset(offset))

-----------------------------------------------------------------------------
LayoutInit ==
    /\ key \in LayoutKeys
    /\ ld = 0
    /\ enc = 0
    /\ \/ pos = SharedPosition(key, 0, 0) /\ mig = Stamp(-1)
       \/ pos = MainPosition(key, 0, 0) /\ mig = Stamp(0)

\* A split of the sub-key's segment in a directory of depth gd.
Split(gd) ==
    /\ ld < gd
    /\ IF InUpperHalf(key, ld, gd) THEN ToUpper(Decode(enc)) ELSE ToLower
    /\ ld' = ld + 1
    /\ UNCHANGED key

\* A split that doubles the directory, which is as deep as the segment.
Grow ==
    /\ IF InUpperHalf(key, ld, ld + 1) THEN ToUpper(0) ELSE ToLower
    /\ ld' = ld + 1
    /\ UNCHANGED key

\* WRERTNode!DepthBounded is why the depth stops here.
LayoutNext == /\ ld + M < W
              /\ \/ \E gd \in 1..(W - M) : Split(gd)
                 \/ Grow

LayoutSpec == LayoutInit /\ [][LayoutNext]_layoutVars

-----------------------------------------------------------------------------
\* The slot is where a lookup at the segment's depth computes one of its two
\* buckets, and carries the version the vector comparison expects there.
SlotReached ==
    \/ pos = SharedPosition(key, ld, Decode(enc)) /\ mig = SharedTarget(ld)
    \/ pos = MainPosition(key, ld, Decode(enc)) /\ mig = MainTarget(ld)

\* The three ways the code compares a slot's 9-bit migVersion with the
\* expected one agree with each other and with comparing the versions, for
\* every version that a slot can carry.
VersionTestsExact ==
    \A v \in -1..(W - M) :
        LET f == Stamp(v)
        IN  /\ Signed(f) = v
            /\ (f = SharedTarget(ld)) <=> (v = ld - 1)
            /\ (f = MainTarget(ld)) <=> (v = ld)
            /\ PutMatchesShared(f, ld) <=> (v = ld - 1)
            /\ PutMatchesMain(f, ld) <=> (v = ld)

\* The numbers are the bit-string layout WRERTNode is specified with: the
\* macros are slices, a position is a region and M-1 bits, and the comparison
\* with segmentIndexMid tests one bit, however deep the directory.
B == INSTANCE WRERTBits
ToBits(n, width) == [i \in 1..width |-> (n \div 2^(width - i)) % 2]
AddrOf(p) == <<p \div SharedBuckets, ToBits(p % SharedBuckets, M - 1)>>
ArithmeticIsSlicing ==
    LET k == ToBits(key, W)
        offset == Decode(enc)
        off == offset \div SharedBuckets
    IN  /\ ToBits(GetSegmentNumber(key, ld), ld) = B!SegmentNumber(k, ld)
        /\ AddrOf(SharedPosition(key, ld, offset)) = <<off, B!SharedIndex(k, ld)>>
        /\ AddrOf(MainPosition(key, ld, offset)) = B!CalcBucketPosition(off, B!MainIndex(k, ld))
        /\ B!MainBucketAt(off, AddrOf(MainPosition(key, ld, offset))) = B!MainIndex(k, ld)
        /\ DstOffset(offset) \div SharedBuckets = (off + 1) % 3
        /\ MigMainStart(offset) \div SharedBuckets = (off + 2) % 3
        /\ \A gd \in (ld + 1)..(W - M) : InUpperHalf(key, ld, gd) <=> k[ld + 1] = 1
=============================================================================
