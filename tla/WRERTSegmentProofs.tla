------------------------- MODULE WRERTSegmentProofs -------------------------
(***************************************************************************)
(* What happens to the slots of one segment of a WRERT node when it splits:*)
(* lemmas about Pack, Migrate and the two halves, for every bucket count   *)
(* and bucket size.                                                        *)
(***************************************************************************)
EXTENDS WRERTNodeProofs, FiniteSetTheorems

-----------------------------------------------------------------------------
(* Ranks in a set of slots.                                                *)

\* The migration's counter gives the slots of a bucket that move the places
\* 1, 2, ... of the new one, no two the same and none beyond its end.
LEMMA RankFacts ==
    ASSUME NEW S \in SUBSET (1..Slots)
    PROVE  /\ \A j \in S : Rank(S, j) \in 1..Slots
           /\ \A i, j \in S : Rank(S, i) = Rank(S, j) => i = j
           /\ \A j \in S : \A c \in 1..Rank(S, j) : \E i \in S : Rank(S, i) = c
           /\ S # {} => \E i \in S : Rank(S, i) = 1
<1> DEFINE Below(j) == {i \in S : i <= j}
           n == Cardinality(S)
<1>1. Slots \in Nat
  BY NodeAssumption
<1>2. IsFiniteSet(1..Slots) /\ Cardinality(1..Slots) = Slots
  BY <1>1, FS_Interval, NodeAssumption
<1>3. IsFiniteSet(S) /\ n \in Nat /\ n <= Slots
  BY <1>2, FS_Subset, FS_CardinalityType
<1>4. ASSUME NEW j \in S
      PROVE  /\ IsFiniteSet(Below(j)) /\ Rank(S, j) = Cardinality(Below(j))
             /\ Rank(S, j) \in 1..n
  <2>1. Below(j) \in SUBSET S /\ j \in Below(j)
    BY <1>1
  <2>2. IsFiniteSet(Below(j)) /\ Cardinality(Below(j)) <= n /\ Cardinality(Below(j)) \in Nat
    BY <1>3, <2>1, FS_Subset, FS_CardinalityType
  <2>3. Cardinality(Below(j)) # 0
    BY <2>1, <2>2, FS_EmptySet
  <2>4. Rank(S, j) = Cardinality(Below(j))
    BY DEF Rank
  <2> HIDE DEF Below, n
  <2>5. QED
    BY <1>3, <2>2, <2>3, <2>4
<1>5. ASSUME NEW i \in S, NEW j \in S, i < j
      PROVE  Rank(S, i) # Rank(S, j)
  <2>0. \A x \in S : x \in Nat
    BY <1>1
  <2>1. /\ \A x \in Below(i) : x \in Below(j)
        /\ j \in Below(j) /\ j \notin Below(i)
    BY <1>5, <2>0
  <2> HIDE DEF Below
  <2>a. Below(i) \in SUBSET Below(j) /\ Below(i) # Below(j)
    BY <2>1
  <2>b. IsFiniteSet(Below(j))
    BY <1>4
  <2>2. Cardinality(Below(i)) # Cardinality(Below(j))
    BY <2>a, <2>b, FS_Subset
  <2>3. QED
    BY <1>4, <2>2
<1>6. ASSUME NEW i \in S, NEW j \in S, Rank(S, i) = Rank(S, j)
      PROVE  i = j
  <2>1. i \in Nat /\ j \in Nat
    BY <1>1
  <2>2. i < j \/ j < i \/ i = j
    BY <2>1
  <2>3. QED
    BY <1>5, <1>6, <2>2
<1>7. \A c \in 1..n : \E i \in S : Rank(S, i) = c
  <2> DEFINE f == [j \in S |-> Rank(S, j)]
  <2>1. f \in Injection(S, 1..n)
    BY <1>4, <1>6 DEF Injection, IsInjective
  <2>2. IsFiniteSet(1..n) /\ Cardinality(1..n) = n
    BY <1>3, FS_Interval
  <2>3. \A j \in S : f[j] = Rank(S, j)
    OBVIOUS
  <2>4. Cardinality(S) = n
    OBVIOUS
  <2> HIDE DEF f, n
  <2>5. f \in Surjection(S, 1..n)
    BY ONLY <2>1, <2>2, <2>4, FS_Injection
  <2>6. \A c \in 1..n : \E j \in S : f[j] = c
    BY <2>5 DEF Surjection
  <2>7. QED
    BY <2>3, <2>6
<1>8. QED
  <2>0. n \in Nat /\ n <= Slots /\ \A j \in S : Rank(S, j) \in 1..n
    BY <1>3, <1>4
  <2> HIDE DEF n, Below
  <2>1. \A j \in S : Rank(S, j) \in 1..Slots /\ \A c \in 1..Rank(S, j) : c \in 1..n
    BY ONLY <2>0, <1>1
  <2>2. ASSUME S # {} PROVE 1 \in 1..n
    <3>1. PICK j : j \in S
      BY <2>2
    <3>2. Rank(S, j) \in 1..n /\ n \in Nat
      BY <2>0, <3>1
    <3>3. QED
      BY ONLY <3>2
  <2>3. QED
    BY <1>6, <1>7, <2>1, <2>2

\* A scan that has a slot to stop at stops at a first one.
LEMMA LeastSlot ==
    ASSUME NEW T \in SUBSET (1..Slots), T # {}
    PROVE  \E x \in T : \A y \in T : x <= y
<1>1. Slots \in Nat
  BY NodeAssumption
<1>2. PICK x \in T : Rank(T, x) = 1
  BY RankFacts
<1> DEFINE U == {i \in T : i <= x}
<1>3. IsFiniteSet(U)
  <2>1. IsFiniteSet(1..Slots)
    <3>1. 1 \in Int /\ Slots \in Int
      BY <1>1
    <3>2. QED
      BY <3>1, FS_Interval
  <2>a. U \in SUBSET (1..Slots)
    OBVIOUS
  <2>2. QED
    BY <2>1, <2>a, FS_Subset
<1>4. Cardinality(U) = 1
  BY <1>2 DEF Rank
<1>5. PICK z : U = {z}
  BY <1>3, <1>4, FS_Singleton
<1>6. x \in U
  BY <1>1
<1>7. ASSUME NEW y \in T PROVE x <= y
  <2>1. x \in Nat /\ y \in Nat
    BY <1>1
  <2>2. CASE y <= x
    BY <1>5, <1>6, <2>1, <2>2
  <2>3. QED
    BY <2>1, <2>2
<1>8. QED
  BY <1>7

-----------------------------------------------------------------------------
(* Packing slots.                                                          *)

\* The slot whose copy place c receives; 0 when place c receives none.
From(S, c) == IF \E j \in S : Rank(S, j) = c THEN CHOOSE j \in S : Rank(S, j) = c ELSE 0

\* Slot x is slot y, stamped with version ver.
Stamped(x, y, ver) == x.valid = y.valid /\ x.ver = ver /\ x.key = y.key /\ x.val = y.val

\* Every slot that moves gets a place of its own, and the places taken are the
\* first ones.
LEMMA FromFacts ==
    ASSUME NEW S \in SUBSET (1..Slots)
    PROVE  /\ \A c : From(S, c) # 0 => From(S, c) \in S
           /\ \A c, d : From(S, c) # 0 /\ From(S, c) = From(S, d) => c = d
           /\ \A c, i : From(S, c) # 0 /\ i \in 1..c => From(S, i) # 0
           /\ \A j \in S : \E c \in 1..Slots : From(S, c) = j
<1>1. \A j \in S : j # 0
  BY NodeAssumption
<1>2. ASSUME NEW c, From(S, c) # 0
      PROVE  From(S, c) \in S /\ Rank(S, From(S, c)) = c
  BY <1>2 DEF From
<1>3. ASSUME NEW j \in S PROVE Rank(S, j) \in 1..Slots /\ From(S, Rank(S, j)) = j
  <2>1. Rank(S, j) \in 1..Slots
    BY RankFacts
  <2>2. From(S, Rank(S, j)) \in S /\ Rank(S, From(S, Rank(S, j))) = Rank(S, j)
    BY <1>1 DEF From
  <2>3. QED
    BY <2>1, <2>2, RankFacts
<1>4. ASSUME NEW c, NEW i \in 1..c, From(S, c) # 0
      PROVE  From(S, i) # 0
  <2>1. From(S, c) \in S /\ Rank(S, From(S, c)) = c
    BY <1>2, <1>4
  <2>2. PICK j \in S : Rank(S, j) = i
    BY <2>1, RankFacts
  <2>3. QED
    BY <1>1, <1>3, <2>2
<1>5. QED
  BY <1>2, <1>3, <1>4

\* What packing leaves in each place.
LEMMA PackSlots ==
    ASSUME NEW base \in Bucket, NEW b \in Bucket, NEW S \in SUBSET (1..Slots), NEW ver \in Int,
           NEW c \in 1..Slots
    PROVE  /\ From(S, c) = 0 => Pack(base, b, S, ver)[c] = base[c]
           /\ From(S, c) # 0 => Stamped(Pack(base, b, S, ver)[c], b[From(S, c)], ver)
<1>1. Pack(base, b, S, ver)[c] = IF \E j \in S : Rank(S, j) = c
                                 THEN [b[CHOOSE j \in S : Rank(S, j) = c] EXCEPT !.ver = ver]
                                 ELSE base[c]
  BY DEF Pack
<1>2. CASE From(S, c) = 0
  <2>1. \A j \in S : j # 0
    BY NodeAssumption
  <2>2. ~\E j \in S : Rank(S, j) = c
    BY <1>2, <2>1 DEF From
  <2>3. QED
    BY <1>1, <1>2, <2>2
<1>3. CASE From(S, c) # 0
  <2>1. /\ \E j \in S : Rank(S, j) = c
        /\ (CHOOSE j \in S : Rank(S, j) = c) = From(S, c)
        /\ From(S, c) \in S
    BY <1>3, FromFacts DEF From
  <2>2. PICK y : y = b[From(S, c)]
    OBVIOUS
  <2>3. Pack(base, b, S, ver)[c] = [y EXCEPT !.ver = ver]
    BY <1>1, <2>1, <2>2
  <2>4. y \in Slot
    BY <2>1, <2>2 DEF Bucket
  <2>5. Stamped([y EXCEPT !.ver = ver], y, ver)
    BY ONLY <2>4 DEF Stamped, Slot
  <2>6. QED
    BY <1>3, <2>2, <2>3, <2>5
<1>4. QED
  BY <1>2, <1>3

-----------------------------------------------------------------------------
(* Where sub-keys go.                                                      *)

\* The shared bucket that feeds the main bucket at a.
Source(off, h, newOff, a) ==
    <<off, [i \in 1..M-1 |-> IF i = 1 THEN h ELSE MainBucketAt(newOff, a)[i - 1]]>>

\* The slots that move to the main bucket at a.
Movers(newOff, s, off, ld, h, a) ==
    Migrants(s[Source(off, h, newOff, a)], ld, h, MainBucketAt(newOff, a))

\* What a migration leaves in each slot of a main bucket.
LEMMA MigrateSlots ==
    ASSUME NEW base \in Segment, NEW newOff \in Region, NEW s \in Segment,
           NEW off \in Region, NEW ld \in Nat, NEW h \in Bit,
           NEW a \in Addr, a[1] # newOff, NEW c \in 1..Slots
    PROVE  LET src == Source(off, h, newOff, a)
               S == Movers(newOff, s, off, ld, h, a)
               slot == Migrate(base, newOff, s, off, ld, h)[a][c]
           IN  /\ src \in Addr
               /\ S \in SUBSET (1..Slots)
               /\ From(S, c) = 0 => slot = base[a][c]
               /\ From(S, c) # 0 => Stamped(slot, s[src][From(S, c)], ld + 1)
<1> DEFINE src == Source(off, h, newOff, a)
           S == Movers(newOff, s, off, ld, h, a)
<1>1. src \in Addr
  <2>1. M - 1 \in Nat /\ \A i \in 1..M-1 : i # 1 => i - 1 \in 1..M
    BY BitsAssumption
  <2>2. MainBucketAt(newOff, a) \in BitString(M)
    BY MainBucketType
  <2>3. PICK m : m = MainBucketAt(newOff, a)
    OBVIOUS
  <2>4. [i \in 1..M-1 |-> IF i = 1 THEN h ELSE m[i - 1]] \in BitString(M - 1)
    BY <2>1, <2>2, <2>3 DEF BitString
  <2>5. QED
    BY <2>3, <2>4 DEF Source, Addr
<1>2. S \in SUBSET (1..Slots)
  BY MigrantsType DEF Movers
<1>3. Migrate(base, newOff, s, off, ld, h)[a] = Pack(base[a], s[src], S, ld + 1)
  BY DEF Migrate, Movers, Source
<1>4. base[a] \in Bucket /\ s[src] \in Bucket /\ ld + 1 \in Int
  BY <1>1 DEF Segment
<1> HIDE DEF src, S
<1>5. /\ From(S, c) = 0 => Pack(base[a], s[src], S, ld + 1)[c] = base[a][c]
      /\ From(S, c) # 0 => Stamped(Pack(base[a], s[src], S, ld + 1)[c], s[src][From(S, c)], ld + 1)
  BY <1>2, <1>4, PackSlots
<1>6. QED
  BY <1>1, <1>2, <1>3, <1>5 DEF src, S

\* A main bucket lies where calcBucketPosition says, and nothing else does.
LEMMA BucketPlaces ==
    ASSUME NEW off \in Region
    PROVE  /\ \A m \in BitString(M) : /\ CalcBucketPosition(off, m) \in Addr
                                      /\ CalcBucketPosition(off, m)[1] # off
                                      /\ MainBucketAt(off, CalcBucketPosition(off, m)) = m
           /\ \A a \in Addr : a[1] # off => CalcBucketPosition(off, MainBucketAt(off, a)) = a
<1>0. M \in Nat /\ M >= 2
  BY BitsAssumption
<1>1. ASSUME NEW m \in BitString(M)
      PROVE  /\ CalcBucketPosition(off, m) \in Addr
             /\ CalcBucketPosition(off, m)[1] # off
             /\ MainBucketAt(off, CalcBucketPosition(off, m)) = m
  <2>1. m = [i \in 1..M |-> m[i]] /\ \A i \in 1..M : m[i] \in {0, 1}
    BY DEF BitString, Bit
  <2>2. m[1] \in {0, 1}
    BY <1>0, <2>1
  <2>3. PICK x : x = (off + 1 + m[1]) % 3
    OBVIOUS
  <2>4. x \in Region /\ x # off /\ (x + 2 - off) % 3 = m[1]
    BY <2>2, <2>3 DEF Region
  <2>5. PICK t : t = [i \in 1..M-1 |-> m[i + 1]]
    OBVIOUS
  <2>6. t \in BitString(M - 1) /\ \A i \in 2..M : t[i - 1] = m[i]
    BY <1>0, <2>1, <2>5 DEF BitString, Bit
  <2>7. CalcBucketPosition(off, m) = <<x, t>>
    BY <2>3, <2>5 DEF CalcBucketPosition
  <2>8. MainBucketAt(off, <<x, t>>) = m
    <3>1. MainBucketAt(off, <<x, t>>) = [i \in 1..M |-> IF i = 1 THEN m[1] ELSE t[i - 1]]
      BY <2>4 DEF MainBucketAt
    <3>2. \A i \in 1..M : (IF i = 1 THEN m[1] ELSE t[i - 1]) = m[i]
      BY <1>0, <2>6
    <3>3. QED
      BY <2>1, <3>1, <3>2
  <2>9. QED
    BY <2>4, <2>6, <2>7, <2>8 DEF Addr
<1>2. ASSUME NEW a \in Addr, a[1] # off
      PROVE  CalcBucketPosition(off, MainBucketAt(off, a)) = a
  <2>1. a = <<a[1], a[2]>> /\ a[1] \in Region /\ a[2] \in BitString(M - 1)
    BY DEF Addr
  <2>2. PICK m : m = MainBucketAt(off, a)
    OBVIOUS
  <2>3. m[1] = (a[1] + 2 - off) % 3 /\ \A i \in 1..M-1 : m[i + 1] = a[2][i]
    BY <1>0, <2>2 DEF MainBucketAt
  <2>4. (off + 1 + m[1]) % 3 = a[1]
    BY <1>2, <2>1, <2>3 DEF Region
  <2>5. [i \in 1..M-1 |-> m[i + 1]] = a[2]
    BY <2>1, <2>3 DEF BitString
  <2>6. QED
    BY <2>1, <2>2, <2>4, <2>5 DEF CalcBucketPosition
<1>3. QED
  BY <1>1, <1>2

\* The main bucket of a sub-key, less its first bit, is the shared bucket of
\* the next depth.
LEMMA NextShared ==
    ASSUME NEW k \in BitString(W), NEW ld \in Nat
    PROVE  [i \in 1..M-1 |-> MainIndex(k, ld)[i + 1]] = SharedIndex(k, ld + 1)
<1>0. M \in Nat /\ M >= 2 /\ W \in Nat
  BY BitsAssumption
<1>1. ASSUME NEW i \in 1..M-1
      PROVE  MainIndex(k, ld)[i + 1] = IF ld + 1 + i <= W THEN k[ld + 1 + i] ELSE 0
  <2>1. i + 1 \in 1..M /\ ld + (i + 1) = ld + 1 + i
    BY <1>0
  <2>2. QED
    BY <2>1 DEF MainIndex, Slice
<1>2. QED
  BY <1>1 DEF SharedIndex, Slice

\* How the bucket numbers of a sub-key at one depth and the next fit: the main
\* bucket is its next bit and the next shared bucket, the shared bucket its
\* next bit and the leading bits of the next main bucket.
LEMMA IndexSteps ==
    ASSUME NEW k \in BitString(W), NEW ld \in Nat, ld + M <= W
    PROVE  /\ k[ld + 1] \in Bit
           /\ MainIndex(k, ld)[1] = k[ld + 1]
           /\ [i \in 1..M-1 |-> MainIndex(k, ld)[i + 1]] = SharedIndex(k, ld + 1)
           /\ [i \in 1..M-1 |-> IF i = 1 THEN k[ld + 1] ELSE MainIndex(k, ld + 1)[i - 1]]
                 = SharedIndex(k, ld)
<1>0. M \in Nat /\ M >= 2 /\ W \in Nat
  BY BitsAssumption
<1>1. k[ld + 1] \in Bit
  BY <1>0 DEF BitString
<1>2. MainIndex(k, ld)[1] = k[ld + 1]
  BY <1>0 DEF MainIndex, Slice
<1>3. [i \in 1..M-1 |-> MainIndex(k, ld)[i + 1]] = SharedIndex(k, ld + 1)
  BY NextShared
<1>4. [i \in 1..M-1 |-> IF i = 1 THEN k[ld + 1] ELSE MainIndex(k, ld + 1)[i - 1]]
         = SharedIndex(k, ld)
  <2>1. ASSUME NEW i \in 1..M-1
        PROVE  (IF i = 1 THEN k[ld + 1] ELSE MainIndex(k, ld + 1)[i - 1])
                  = IF ld + i <= W THEN k[ld + i] ELSE 0
    <3>1. CASE i = 1
      BY <1>0, <3>1
    <3>2. CASE i # 1
      <4>1. i - 1 \in 1..M /\ ld + 1 + (i - 1) = ld + i
        BY <1>0, <3>2
      <4>2. QED
        BY <3>2, <4>1 DEF MainIndex, Slice
    <3>3. QED
      BY <3>1, <3>2
  <2>2. QED
    BY <2>1 DEF SharedIndex, Slice
<1>5. QED
  BY <1>1, <1>2, <1>3, <1>4

-----------------------------------------------------------------------------
(* What holds of the slots of a segment in use.                            *)

\* Slot j of bucket a counts under entry e of segment s.
LiveIn(e, s, a, j) == Live(s[a][j], Expected(e, a[1]))

\* A slot that was written to, and so has another version than 0, is valid and
\* has a value.
SlotsWritten(s) ==
    \A a \in Addr, j \in 1..Slots : /\ s[a][j].ver # 0 => s[a][j].valid
                                    /\ s[a][j].valid => s[a][j].val \in Values

\* Valid slots are no newer than their region expects.
NoneNewer(e, s) ==
    \A a \in Addr, j \in 1..Slots : s[a][j].valid => s[a][j].ver <= Expected(e, a[1])

\* The main buckets of the first segment, and the shared ones made of them,
\* have version 0 in every slot, written to or not.
FirstVersions(e, s) ==
    \A a \in Addr, j \in 1..Slots :
        (e.ld = 0 /\ a[1] # e.off) \/ (e.ld = 1 /\ a[1] = e.off) => s[a][j].ver = 0

\* Nothing lies behind a slot that is not live.
LiveFirst(e, s) ==
    \A a \in Addr, j \in 1..Slots : LiveIn(e, s, a, j) => \A i \in 1..j : LiveIn(e, s, a, i)

\* A live slot lies in one of the two buckets of its sub-key.
InPlace(e, s) ==
    \A a \in Addr, j \in 1..Slots :
        LiveIn(e, s, a, j) => a \in {SharedAddr(s[a][j].key, e), MainAddr(s[a][j].key, e)}

\* No two live slots hold the same sub-key.
NoTwo(e, s) ==
    \A a, b \in Addr : \A i, j \in 1..Slots :
        LiveIn(e, s, a, i) /\ LiveIn(e, s, b, j) /\ s[a][i].key = s[b][j].key => a = b /\ i = j

\* The same for one sub-key.
Once(e, s, k) ==
    \A a, b \in Addr : \A i, j \in 1..Slots :
        LiveIn(e, s, a, i) /\ LiveIn(e, s, b, j) /\ s[a][i].key = k /\ s[b][j].key = k => a = b /\ i = j

Ordered(e, s) ==
    /\ SlotsWritten(s) /\ NoneNewer(e, s) /\ FirstVersions(e, s)
    /\ LiveFirst(e, s) /\ InPlace(e, s)

SegInv(e, s) == Ordered(e, s) /\ NoTwo(e, s)

\* The segment has sub-key k.
HasKey(e, s, k) == \E a \in Addr, j \in 1..Slots : LiveIn(e, s, a, j) /\ s[a][j].key = k

\* A new segment is in order under any entry, for no slot of it counts.
LEMMA FreshInOrder ==
    ASSUME NEW e
    PROVE  /\ \A a \in Addr, j \in 1..Slots : ~LiveIn(e, NewSegment, a, j)
           /\ SegInv(e, NewSegment)
           /\ \A k : Once(e, NewSegment, k)
<1>1. \A a \in Addr, j \in 1..Slots : NewSegment[a][j].valid = FALSE /\ NewSegment[a][j].ver = 0
  BY DEF NewSegment, FreshBucket, FreshSlot
<1>2. \A a \in Addr, j \in 1..Slots : ~LiveIn(e, NewSegment, a, j)
  BY <1>1 DEF LiveIn, Live
<1>3. SlotsWritten(NewSegment) /\ NoneNewer(e, NewSegment) /\ FirstVersions(e, NewSegment)
  BY <1>1 DEF SlotsWritten, NoneNewer, FirstVersions
<1>4. LiveFirst(e, NewSegment) /\ InPlace(e, NewSegment) /\ NoTwo(e, NewSegment)
  BY <1>2 DEF LiveFirst, InPlace, NoTwo
<1>5. \A k : Once(e, NewSegment, k)
  BY <1>2 DEF Once
<1>6. QED
  BY <1>2, <1>3, <1>4, <1>5 DEF SegInv, Ordered

-----------------------------------------------------------------------------
(* The half of a segment a split makes.                                    *)

\* Where the shared bucket at a of the half was: in main region h.
OldPlace(off, h, a) == <<(off + 1 + h) % 3, a[2]>>

\* What both halves are made from: the shared region newOff is main region h
\* of s; the rest holds nothing that could pass for a slot of depth ld + 1.
HalfBase(base, newOff, s, off, ld, h) ==
    /\ \A a \in Addr : a[1] = newOff => base[a] = s[OldPlace(off, h, a)]
    /\ \A a \in Addr, j \in 1..Slots :
          a[1] # newOff =>
             /\ base[a][j].ver # 0 => base[a][j].valid
             /\ base[a][j].valid => /\ base[a][j].val \in Values /\ base[a][j].ver <= ld
                                    /\ \E b \in Addr, i \in 1..Slots :
                                          s[b][i].valid /\ s[b][i].key = base[a][j].key

\* The lower half is made over the segment itself, the upper one over fresh
\* memory into which the high main region is copied.
LEMMA HalfBases ==
    ASSUME NEW e \in SegmentNode, NEW s \in Segment, SlotsWritten(s), NoneNewer(e, s)
    PROVE  /\ HalfBase(s, (e.off + 1) % 3, s, e.off, e.ld, 0)
           /\ \A newOff \in Region :
                 HalfBase([a \in Addr |-> IF a[1] = newOff THEN s[<<(e.off + 2) % 3, a[2]>>] ELSE FreshBucket],
                          newOff, s, e.off, e.ld, 1)
<1>1. e.off \in Region /\ e.ld \in Nat
  BY DEF SegmentNode
<1>2. HalfBase(s, (e.off + 1) % 3, s, e.off, e.ld, 0)
  <2>1. ASSUME NEW a \in Addr, a[1] = (e.off + 1) % 3 PROVE s[a] = s[OldPlace(e.off, 0, a)]
    <3>1. a = <<a[1], a[2]>> /\ e.off + 1 + 0 = e.off + 1
      BY <1>1 DEF Addr, Region
    <3>2. QED
      BY <2>1, <3>1 DEF OldPlace
  <2>2. ASSUME NEW a \in Addr, NEW j \in 1..Slots, s[a][j].valid PROVE s[a][j].ver <= e.ld
    <3>1. s[a][j].ver <= Expected(e, a[1]) /\ s[a][j].ver \in Int
      BY <2>2 DEF NoneNewer, Segment, Bucket, Slot
    <3>2. QED
      BY <1>1, <3>1 DEF Expected, SharedVersion, MainVersion
  <2>3. QED
    BY <2>1, <2>2 DEF HalfBase, SlotsWritten
<1>3. ASSUME NEW newOff \in Region
      PROVE HalfBase([a \in Addr |-> IF a[1] = newOff THEN s[<<(e.off + 2) % 3, a[2]>>] ELSE FreshBucket],
                     newOff, s, e.off, e.ld, 1)
  <2>1. e.off + 1 + 1 = e.off + 2
    BY <1>1 DEF Region
  <2>2. \A j \in 1..Slots : FreshBucket[j].ver = 0 /\ FreshBucket[j].valid = FALSE
    BY DEF FreshBucket, FreshSlot
  <2>3. QED
    BY <2>1, <2>2 DEF HalfBase, OldPlace
<1>4. QED
  BY <1>2, <1>3

\* Segment sh, used under entry eh, is half h of segment s, used under e.
HalfOf(e, s, base, eh, sh, h) ==
    /\ e \in SegmentNode /\ s \in Segment /\ Ordered(e, s)
    /\ eh \in SegmentNode /\ eh.ld = e.ld + 1
    /\ h \in Bit /\ base \in Segment
    /\ HalfBase(base, eh.off, s, e.off, e.ld, h)
    /\ sh = Migrate(base, eh.off, s, e.off, e.ld, h)

\* A shared bucket of the half is the main bucket it was, and its slots count
\* when they did.
LEMMA HalfShared ==
    ASSUME NEW e, NEW s, NEW base, NEW eh, NEW sh, NEW h, HalfOf(e, s, base, eh, sh, h),
           NEW a \in Addr, a[1] = eh.off
    PROVE  LET old == OldPlace(e.off, h, a)
           IN  /\ old \in Addr /\ old[1] # e.off
               /\ sh[a] = s[old]
               /\ \A c \in 1..Slots : LiveIn(eh, sh, a, c) <=> LiveIn(e, s, old, c)
<1> DEFINE old == OldPlace(e.off, h, a)
<1>1. e.off \in Region /\ e.ld \in Nat /\ h \in {0, 1} /\ eh.ld = e.ld + 1
  BY DEF HalfOf, SegmentNode, Bit
<1>2. old[1] = (e.off + 1 + h) % 3 /\ old[2] = a[2]
  BY DEF OldPlace
<1>3. old[1] \in Region /\ old[1] # e.off
  BY <1>1, <1>2 DEF Region
<1>4. old \in Addr
  BY <1>2, <1>3 DEF OldPlace, Addr
<1>5. sh[a] = s[old]
  BY DEF HalfOf, HalfBase, Migrate
<1>6. Expected(eh, a[1]) = e.ld /\ Expected(e, old[1]) = e.ld
  BY <1>1, <1>3 DEF Expected, SharedVersion, MainVersion
<1> HIDE DEF old
<1>7. \A c \in 1..Slots : LiveIn(eh, sh, a, c) <=> LiveIn(e, s, old, c)
  BY <1>5, <1>6 DEF LiveIn
<1>8. QED
  BY <1>3, <1>4, <1>5, <1>7 DEF old

\* A slot of a main bucket of the half counts exactly when it has moved there.
LEMMA HalfMain ==
    ASSUME NEW e, NEW s, NEW base, NEW eh, NEW sh, NEW h, HalfOf(e, s, base, eh, sh, h),
           NEW a \in Addr, a[1] # eh.off, NEW c \in 1..Slots
    PROVE  LET src == Source(e.off, h, eh.off, a)
               S == Movers(eh.off, s, e.off, e.ld, h, a)
               j == From(S, c)
           IN  /\ src \in Addr /\ src[1] = e.off /\ S \in SUBSET (1..Slots)
               /\ LiveIn(eh, sh, a, c) <=> j # 0
               /\ j = 0 => sh[a][c] = base[a][c]
               /\ j # 0 => /\ j \in S /\ j \in 1..Slots
                           /\ Stamped(sh[a][c], s[src][j], e.ld + 1)
                           /\ LiveIn(e, s, src, j)
                           /\ s[src][j].key[e.ld + 1] = h
                           /\ MainIndex(s[src][j].key, e.ld + 1) = MainBucketAt(eh.off, a)
<1> DEFINE src == Source(e.off, h, eh.off, a)
           S == Movers(eh.off, s, e.off, e.ld, h, a)
           j == From(S, c)
<1>1. /\ e.off \in Region /\ e.ld \in Nat /\ h \in Bit /\ eh.ld = e.ld + 1 /\ eh.off \in Region
      /\ s \in Segment /\ base \in Segment
  BY DEF HalfOf, SegmentNode
<1>2. /\ src \in Addr /\ S \in SUBSET (1..Slots)
      /\ j = 0 => sh[a][c] = base[a][c]
      /\ j # 0 => Stamped(sh[a][c], s[src][j], e.ld + 1)
  <2>1. sh = Migrate(base, eh.off, s, e.off, e.ld, h)
    BY DEF HalfOf
  <2>2. QED
    BY <1>1, <2>1, MigrateSlots
<1>3. src[1] = e.off
  BY DEF Source
<1>4. Expected(eh, a[1]) = e.ld + 1 /\ Expected(e, src[1]) = e.ld - 1
  BY <1>1, <1>3 DEF Expected, SharedVersion, MainVersion
<1>5. S = Migrants(s[src], e.ld, h, MainBucketAt(eh.off, a))
  BY DEF Movers
<1> HIDE DEF src, S
<1>6. ASSUME j # 0
      PROVE  /\ j \in S /\ j \in 1..Slots
             /\ LiveIn(e, s, src, j)
             /\ s[src][j].key[e.ld + 1] = h
             /\ MainIndex(s[src][j].key, e.ld + 1) = MainBucketAt(eh.off, a)
             /\ LiveIn(eh, sh, a, c)
  <2>1. j \in S /\ j \in 1..Slots
    BY <1>2, <1>6, FromFacts
  <2>2. j \in Nat /\ j \in 1..j
    BY <2>1, NodeAssumption
  <2>3. /\ Live(s[src][j], e.ld - 1)
        /\ s[src][j].key[e.ld + 1] = h
        /\ MainIndex(s[src][j].key, e.ld + 1) = MainBucketAt(eh.off, a)
    BY <1>5, <2>1, <2>2 DEF Migrants
  <2>4. sh[a][c].valid /\ sh[a][c].ver = e.ld + 1
    BY <1>2, <1>6, <2>3 DEF Stamped, Live
  <2>5. QED
    BY <1>4, <2>1, <2>3, <2>4 DEF LiveIn, Live
<1>7. ASSUME j = 0 PROVE ~LiveIn(eh, sh, a, c)
  <2>1. base[a][c].ver \in Int
    BY <1>1 DEF Segment, Bucket, Slot
  <2>2. base[a][c].valid => base[a][c].ver <= e.ld
    BY DEF HalfOf, HalfBase
  <2>3. QED
    BY <1>1, <1>2, <1>4, <1>7, <2>1, <2>2 DEF LiveIn, Live
<1>8. QED
  BY <1>2, <1>3, <1>6, <1>7 DEF src, S

\* The slots that count in the half counted before, and the half has them where
\* lookups go; as long as sub-keys have a next bit, it is h.
LEMMA HalfOrigin ==
    ASSUME NEW e, NEW s, NEW base, NEW eh, NEW sh, NEW h, HalfOf(e, s, base, eh, sh, h),
           NEW a \in Addr, NEW c \in 1..Slots, LiveIn(eh, sh, a, c)
    PROVE  /\ \E b \in Addr, j \in 1..Slots :
                 /\ LiveIn(e, s, b, j)
                 /\ s[b][j].key = sh[a][c].key /\ s[b][j].val = sh[a][c].val
           /\ sh[a][c].key \in BitString(W)
           /\ e.ld + M <= W => sh[a][c].key[e.ld + 1] = h
           /\ a \in {SharedAddr(sh[a][c].key, eh), MainAddr(sh[a][c].key, eh)}
<1>1. /\ e \in SegmentNode /\ eh \in SegmentNode /\ s \in Segment
      /\ e.ld \in Nat /\ e.off \in Region /\ eh.off \in Region /\ eh.ld = e.ld + 1
      /\ h \in {0, 1}
  BY DEF HalfOf, SegmentNode, Bit
<1>2. CASE a[1] = eh.off
  <2>1. PICK old \in Addr : /\ old = OldPlace(e.off, h, a) /\ old[1] # e.off /\ sh[a] = s[old]
                            /\ LiveIn(e, s, old, c)
    BY <1>2, HalfShared
  <2>2. PICK k : k = s[old][c].key
    OBVIOUS
  <2>3. k \in BitString(W)
    BY <1>1, <2>2 DEF Segment, Bucket, Slot
  <2>4. old = MainAddr(k, e)
    <3>1. SharedAddr(k, e)[1] = e.off
      BY DEF SharedAddr
    <3>2. QED
      BY <2>1, <2>2, <3>1 DEF HalfOf, Ordered, InPlace
  <2>5. PICK n : n = MainIndex(k, e.ld)[1]
    OBVIOUS
  <2>6. n \in {0, 1} /\ (e.ld + M <= W => n = k[e.ld + 1])
    <3>1. MainIndex(k, e.ld) \in BitString(M) /\ 1 \in 1..M
      BY <1>1, <2>3, IndexTypes, BitsAssumption
    <3>2. QED
      BY <1>1, <2>3, <2>5, <3>1, IndexSteps DEF BitString, Bit
  <2>7. MainAddr(k, e) = <<(e.off + 1 + n) % 3, SharedIndex(k, e.ld + 1)>>
    BY <1>1, <2>3, <2>5, NextShared DEF MainAddr, CalcBucketPosition
  <2>8. (e.off + 1 + h) % 3 = (e.off + 1 + n) % 3 /\ a[2] = SharedIndex(k, e.ld + 1)
    BY <2>1, <2>4, <2>7 DEF OldPlace
  <2>9. e.ld + M <= W => k[e.ld + 1] = h
    BY <1>1, <2>6, <2>8 DEF Region
  <2>10. a = SharedAddr(k, eh)
    BY <1>1, <1>2, <2>8 DEF SharedAddr, Addr
  <2>11. QED
    BY <2>1, <2>2, <2>3, <2>9, <2>10
<1>3. CASE a[1] # eh.off
  <2> DEFINE S == Movers(eh.off, s, e.off, e.ld, h, a)
  <2>1. PICK src, j : /\ src \in Addr /\ j \in 1..Slots
                      /\ Stamped(sh[a][c], s[src][j], e.ld + 1)
                      /\ LiveIn(e, s, src, j)
                      /\ s[src][j].key[e.ld + 1] = h
                      /\ MainIndex(s[src][j].key, e.ld + 1) = MainBucketAt(eh.off, a)
    BY <1>3, HalfMain
  <2>2. PICK k : k = s[src][j].key
    OBVIOUS
  <2>3. k \in BitString(W)
    BY <1>1, <2>1, <2>2 DEF Segment, Bucket, Slot
  <2>4. sh[a][c].key = k /\ sh[a][c].val = s[src][j].val
    BY <2>1, <2>2 DEF Stamped
  <2>5. MainAddr(k, eh) = CalcBucketPosition(eh.off, MainBucketAt(eh.off, a))
    BY <1>1, <2>1, <2>2 DEF MainAddr
  <2>6. a = MainAddr(k, eh)
    BY <1>1, <1>3, <2>5, BucketPlaces
  <2>7. QED
    BY <2>1, <2>2, <2>3, <2>4, <2>6
<1>4. QED
  BY <1>2, <1>3

\* Every slot that counts for a sub-key whose next bit is h counts in the half.
LEMMA HalfKeeps ==
    ASSUME NEW e, NEW s, NEW base, NEW eh, NEW sh, NEW h, HalfOf(e, s, base, eh, sh, h),
           e.ld + M <= W,
           NEW b \in Addr, NEW j \in 1..Slots, LiveIn(e, s, b, j), s[b][j].key[e.ld + 1] = h
    PROVE  \E a \in Addr, c \in 1..Slots :
              /\ LiveIn(eh, sh, a, c)
              /\ sh[a][c].key = s[b][j].key /\ sh[a][c].val = s[b][j].val
<1>1. /\ e \in SegmentNode /\ eh \in SegmentNode /\ s \in Segment /\ e.ld + M <= W
      /\ e.ld \in Nat /\ e.off \in Region /\ eh.off \in Region /\ eh.ld = e.ld + 1
      /\ h \in {0, 1} /\ e.ld + 1 \in Nat
  BY DEF HalfOf, SegmentNode, Bit
<1>2. PICK k : k = s[b][j].key
  OBVIOUS
<1>3. k \in BitString(W) /\ k[e.ld + 1] = h
  BY <1>1, <1>2 DEF Segment, Bucket, Slot
<1>4. b = SharedAddr(k, e) \/ b = MainAddr(k, e)
  BY <1>2 DEF HalfOf, Ordered, InPlace
<1>5. CASE b = MainAddr(k, e)
  <2>1. b = <<(e.off + 1 + h) % 3, SharedIndex(k, e.ld + 1)>>
    <3>1. /\ MainIndex(k, e.ld)[1] = h
          /\ [i \in 1..M-1 |-> MainIndex(k, e.ld)[i + 1]] = SharedIndex(k, e.ld + 1)
      BY <1>1, <1>3, IndexSteps
    <3>2. QED
      BY <1>5, <3>1 DEF MainAddr, CalcBucketPosition
  <2>2. PICK a : a = <<eh.off, SharedIndex(k, e.ld + 1)>>
    OBVIOUS
  <2>3. a \in Addr /\ a[1] = eh.off /\ OldPlace(e.off, h, a) = b
    BY <1>1, <1>3, <2>1, <2>2, IndexTypes DEF Addr, OldPlace
  <2>4. sh[a] = s[b] /\ LiveIn(eh, sh, a, j)
    BY <2>3, HalfShared
  <2>5. QED
    BY <2>3, <2>4
<1>6. CASE b = SharedAddr(k, e)
  <2>1. PICK m : m = MainIndex(k, e.ld + 1)
    OBVIOUS
  <2>2. m \in BitString(M)
    BY <1>1, <1>3, <2>1, IndexTypes
  <2>3. PICK a : a = CalcBucketPosition(eh.off, m)
    OBVIOUS
  <2>4. a \in Addr /\ a[1] # eh.off /\ MainBucketAt(eh.off, a) = m
    BY <1>1, <2>2, <2>3, BucketPlaces
  <2>5. Source(e.off, h, eh.off, a) = b
    <3>1. [i \in 1..M-1 |-> IF i = 1 THEN k[e.ld + 1] ELSE MainIndex(k, e.ld + 1)[i - 1]] = SharedIndex(k, e.ld)
      BY <1>1, <1>3, IndexSteps
    <3>2. [i \in 1..M-1 |-> IF i = 1 THEN h ELSE m[i - 1]] = SharedIndex(k, e.ld)
      BY <1>3, <2>1, <3>1
    <3>3. QED
      BY <1>6, <2>4, <3>2 DEF Source, SharedAddr
  <2>6. PICK S : S = Movers(eh.off, s, e.off, e.ld, h, a)
    OBVIOUS
  <2>7. j \in S
    <3>1. b[1] = e.off
      BY <1>6 DEF SharedAddr
    <3>2. \A i \in 1..j : Live(s[b][i], e.ld - 1)
      BY <3>1 DEF HalfOf, Ordered, LiveFirst, LiveIn, Expected, SharedVersion
    <3>3. QED
      BY <1>2, <1>3, <2>1, <2>4, <2>5, <2>6, <3>2 DEF Movers, Migrants
  <2>8. S \in SUBSET (1..Slots) /\ j # 0
    BY <2>6, MigrantsType, NodeAssumption DEF Movers
  <2>9. PICK c \in 1..Slots : From(S, c) = j
    BY <2>7, <2>8, FromFacts
  <2>10. LiveIn(eh, sh, a, c) /\ Stamped(sh[a][c], s[b][j], e.ld + 1)
    BY <2>4, <2>5, <2>6, <2>8, <2>9, HalfMain
  <2>11. QED
    BY <2>4, <2>10 DEF Stamped
<1>7. QED
  BY <1>4, <1>5, <1>6

\* Whatever is valid in the half, live or stale, holds a sub-key of a slot
\* that was valid.
LEMMA HalfValid ==
    ASSUME NEW e, NEW s, NEW base, NEW eh, NEW sh, NEW h, HalfOf(e, s, base, eh, sh, h),
           NEW a \in Addr, NEW c \in 1..Slots, sh[a][c].valid
    PROVE  \E b \in Addr, j \in 1..Slots : s[b][j].valid /\ s[b][j].key = sh[a][c].key
<1>1. CASE a[1] = eh.off
  BY <1>1, HalfShared
<1>2. CASE a[1] # eh.off
  <2>1. PICK S, src : /\ src \in Addr
                      /\ From(S, c) = 0 => sh[a][c] = base[a][c]
                      /\ From(S, c) # 0 => /\ From(S, c) \in 1..Slots
                                           /\ Stamped(sh[a][c], s[src][From(S, c)], e.ld + 1)
                                           /\ LiveIn(e, s, src, From(S, c))
    BY <1>2, HalfMain
  <2>2. CASE From(S, c) = 0
    BY <1>2, <2>1, <2>2 DEF HalfOf, HalfBase
  <2>3. CASE From(S, c) # 0
    BY <2>1, <2>3 DEF LiveIn, Live, Stamped
  <2>4. QED
    BY <2>2, <2>3
<1>3. QED
  BY <1>1, <1>2

\* The half is in order.
LEMMA HalfOrdered ==
    ASSUME NEW e, NEW s, NEW base, NEW eh, NEW sh, NEW h, HalfOf(e, s, base, eh, sh, h)
    PROVE  Ordered(eh, sh)
<1>1. /\ e \in SegmentNode /\ eh \in SegmentNode /\ s \in Segment
      /\ e.ld \in Nat /\ e.off \in Region /\ eh.off \in Region /\ eh.ld = e.ld + 1
      /\ SlotsWritten(s) /\ NoneNewer(e, s) /\ FirstVersions(e, s)
      /\ LiveFirst(e, s) /\ InPlace(e, s)
  BY DEF HalfOf, SegmentNode, Ordered
<1>2. ASSUME NEW a \in Addr, a[1] = eh.off
      PROVE  \E old \in Addr : /\ old = OldPlace(e.off, h, a) /\ old[1] # e.off /\ sh[a] = s[old]
                               /\ \A c \in 1..Slots : LiveIn(eh, sh, a, c) <=> LiveIn(e, s, old, c)
  BY <1>2, HalfShared
<1>3. SlotsWritten(sh) /\ NoneNewer(eh, sh)
  <2>1. ASSUME NEW a \in Addr, NEW c \in 1..Slots
        PROVE  /\ sh[a][c].ver # 0 => sh[a][c].valid
               /\ sh[a][c].valid => sh[a][c].val \in Values
               /\ sh[a][c].valid => sh[a][c].ver <= Expected(eh, a[1])
    <3>1. CASE a[1] = eh.off
      <4>1. PICK old \in Addr : old[1] # e.off /\ sh[a] = s[old]
        BY <1>2, <3>1
      <4>2. Expected(eh, a[1]) = e.ld /\ Expected(e, old[1]) = e.ld
        BY <1>1, <3>1, <4>1 DEF Expected, SharedVersion, MainVersion
      <4>3. QED
        BY <1>1, <4>1, <4>2 DEF SlotsWritten, NoneNewer
    <3>2. CASE a[1] # eh.off
      <4>1. Expected(eh, a[1]) = e.ld + 1
        BY <1>1, <3>2 DEF Expected, SharedVersion, MainVersion
      <4>2. PICK S, src : /\ src \in Addr
                          /\ From(S, c) = 0 => sh[a][c] = base[a][c]
                          /\ From(S, c) # 0 => /\ From(S, c) \in 1..Slots
                                               /\ Stamped(sh[a][c], s[src][From(S, c)], e.ld + 1)
                                               /\ LiveIn(e, s, src, From(S, c))
        BY <3>2, HalfMain
      <4>3. CASE From(S, c) = 0
        <5>1. base[a][c].ver \in Int
          BY DEF HalfOf, Segment, Bucket, Slot
        <5>2. /\ base[a][c].ver # 0 => base[a][c].valid
              /\ base[a][c].valid => base[a][c].val \in Values /\ base[a][c].ver <= e.ld
          BY <3>2 DEF HalfOf, HalfBase
        <5>3. QED
          BY <1>1, <4>1, <4>2, <4>3, <5>1, <5>2
      <4>4. CASE From(S, c) # 0
        <5>1. s[src][From(S, c)].valid /\ s[src][From(S, c)].val \in Values
          BY <1>1, <4>2, <4>4 DEF LiveIn, Live, SlotsWritten
        <5>2. sh[a][c].valid /\ sh[a][c].val \in Values /\ sh[a][c].ver = e.ld + 1
          BY <4>2, <4>4, <5>1 DEF Stamped
        <5>3. QED
          BY <1>1, <4>1, <5>2
      <4>5. QED
        BY <4>3, <4>4
    <3>3. QED
      BY <3>1, <3>2
  <2>2. QED
    BY <2>1 DEF SlotsWritten, NoneNewer
<1>4. FirstVersions(eh, sh)
  <2>1. ASSUME NEW a \in Addr, NEW c \in 1..Slots, eh.ld = 1, a[1] = eh.off
        PROVE  sh[a][c].ver = 0
    <3>1. e.ld = 0
      BY <1>1, <2>1
    <3>2. PICK old \in Addr : old[1] # e.off /\ sh[a] = s[old]
      BY <1>2, <2>1
    <3>3. QED
      BY <1>1, <3>1, <3>2 DEF FirstVersions
  <2>2. eh.ld # 0
    BY <1>1
  <2>3. QED
    BY <2>1, <2>2 DEF FirstVersions
<1>5. LiveFirst(eh, sh)
  <2>1. ASSUME NEW a \in Addr, NEW c \in 1..Slots, LiveIn(eh, sh, a, c), NEW i \in 1..c
        PROVE  LiveIn(eh, sh, a, i)
    <3>1. i \in 1..Slots
      BY NodeAssumption
    <3>2. CASE a[1] = eh.off
      <4>1. PICK old \in Addr : \A d \in 1..Slots : LiveIn(eh, sh, a, d) <=> LiveIn(e, s, old, d)
        BY <1>2, <3>2
      <4>2. QED
        BY <1>1, <2>1, <3>1, <4>1 DEF LiveFirst
    <3>3. CASE a[1] # eh.off
      <4>1. PICK S : S = Movers(eh.off, s, e.off, e.ld, h, a)
        OBVIOUS
      <4>2. S \in SUBSET (1..Slots)
        BY <4>1, MigrantsType DEF Movers
      <4>3. From(S, c) # 0
        BY <2>1, <3>3, <4>1, HalfMain
      <4>4. From(S, i) # 0
        BY <4>2, <4>3, FromFacts
      <4>5. QED
        BY <3>1, <3>3, <4>1, <4>4, HalfMain
    <3>4. QED
      BY <3>2, <3>3
  <2>2. QED
    BY <2>1 DEF LiveFirst
<1>6. InPlace(eh, sh)
  BY HalfOrigin DEF InPlace
<1>7. QED
  BY <1>3, <1>4, <1>5, <1>6 DEF Ordered

\* A sub-key that counted once at most counts once at most in the half.
LEMMA HalfOnce ==
    ASSUME NEW e, NEW s, NEW base, NEW eh, NEW sh, NEW h, HalfOf(e, s, base, eh, sh, h),
           NEW k, Once(e, s, k)
    PROVE  Once(eh, sh, k)
<1>1. ASSUME NEW a \in Addr, NEW c \in 1..Slots, LiveIn(eh, sh, a, c)
      PROVE  \/ /\ a[1] = eh.off
                /\ \E old \in Addr : /\ old = OldPlace(e.off, h, a) /\ old[1] # e.off
                                     /\ LiveIn(e, s, old, c) /\ s[old][c].key = sh[a][c].key
             \/ /\ a[1] # eh.off
                /\ a = MainAddr(sh[a][c].key, eh)
                /\ \E src \in Addr :
                      LET j == From(Movers(eh.off, s, e.off, e.ld, h, a), c)
                      IN  /\ src[1] = e.off /\ src = Source(e.off, h, eh.off, a) /\ j # 0 /\ j \in 1..Slots
                          /\ LiveIn(e, s, src, j) /\ s[src][j].key = sh[a][c].key
  <2>1. CASE a[1] = eh.off
    BY <1>1, <2>1, HalfShared
  <2>2. CASE a[1] # eh.off
    <3>1. SharedAddr(sh[a][c].key, eh)[1] = eh.off
      BY DEF SharedAddr
    <3>2. a = MainAddr(sh[a][c].key, eh)
      BY <1>1, <2>2, <3>1, HalfOrigin
    <3>3. PICK j : j = From(Movers(eh.off, s, e.off, e.ld, h, a), c)
      OBVIOUS
    <3>4. PICK src : src = Source(e.off, h, eh.off, a)
      OBVIOUS
    <3>5. /\ src \in Addr /\ src[1] = e.off /\ j # 0 /\ j \in 1..Slots
          /\ Stamped(sh[a][c], s[src][j], e.ld + 1)
          /\ LiveIn(e, s, src, j)
      BY <1>1, <2>2, <3>3, <3>4, HalfMain
    <3>6. s[src][j].key = sh[a][c].key
      BY <3>5 DEF Stamped
    <3>7. QED
      BY <2>2, <3>2, <3>3, <3>4, <3>5, <3>6
  <2>3. QED
    BY <2>1, <2>2
<1>2. ASSUME NEW a \in Addr, NEW b \in Addr, NEW c \in 1..Slots, NEW d \in 1..Slots,
             LiveIn(eh, sh, a, c), LiveIn(eh, sh, b, d), sh[a][c].key = k, sh[b][d].key = k
      PROVE  a = b /\ c = d
  <2>1. CASE a[1] = eh.off /\ b[1] = eh.off
    <3>1. PICK old \in Addr : /\ old = OldPlace(e.off, h, a)
                              /\ LiveIn(e, s, old, c) /\ s[old][c].key = sh[a][c].key
      BY <1>1, <1>2, <2>1
    <3>2. PICK oldb \in Addr : /\ oldb = OldPlace(e.off, h, b)
                               /\ LiveIn(e, s, oldb, d) /\ s[oldb][d].key = sh[b][d].key
      BY <1>1, <1>2, <2>1
    <3>3. old = oldb /\ c = d
      BY <1>2, <3>1, <3>2 DEF Once
    <3>4. a[2] = b[2]
      BY <3>1, <3>2, <3>3 DEF OldPlace
    <3>5. QED
      BY <2>1, <3>3, <3>4 DEF Addr
  <2>2. CASE a[1] # eh.off /\ b[1] # eh.off
    <3>1. a = b
      BY <1>1, <1>2, <2>2
    <3>2. PICK S : S = Movers(eh.off, s, e.off, e.ld, h, a)
      OBVIOUS
    <3>3. S \in SUBSET (1..Slots)
      BY <3>2, MigrantsType DEF Movers
    <3>4. PICK src \in Addr : /\ src = Source(e.off, h, eh.off, a)
                              /\ From(S, c) # 0 /\ From(S, c) \in 1..Slots
                              /\ LiveIn(e, s, src, From(S, c)) /\ s[src][From(S, c)].key = sh[a][c].key
      BY <1>1, <1>2, <2>2, <3>2
    <3>5. PICK srcb \in Addr : /\ srcb = Source(e.off, h, eh.off, b)
                               /\ From(S, d) # 0 /\ From(S, d) \in 1..Slots
                               /\ LiveIn(e, s, srcb, From(S, d)) /\ s[srcb][From(S, d)].key = sh[b][d].key
      BY <1>1, <1>2, <2>2, <3>1, <3>2
    <3>6. From(S, c) = From(S, d)
      BY <1>2, <3>4, <3>5 DEF Once
    <3>7. QED
      BY <3>1, <3>3, <3>4, <3>6, FromFacts
  <2>3. ASSUME NEW x \in Addr, NEW y \in Addr, NEW i \in 1..Slots, NEW j \in 1..Slots,
               LiveIn(eh, sh, x, i), LiveIn(eh, sh, y, j), sh[x][i].key = k, sh[y][j].key = k,
               x[1] = eh.off, y[1] # eh.off
        PROVE  FALSE
    <3>1. PICK old \in Addr : /\ old[1] # e.off
                              /\ LiveIn(e, s, old, i) /\ s[old][i].key = sh[x][i].key
      BY <1>1, <2>3
    <3>2. PICK src \in Addr, n \in 1..Slots : /\ src[1] = e.off
                              /\ LiveIn(e, s, src, n) /\ s[src][n].key = sh[y][j].key
      BY <1>1, <2>3
    <3>3. QED
      BY <2>3, <3>1, <3>2 DEF Once
  <2>4. QED
    BY <1>2, <2>1, <2>2, <2>3
<1>3. QED
  BY <1>2 DEF Once

\* The half is in order, and has no sub-key twice, if the segment was and had.
LEMMA HalfInv ==
    ASSUME NEW e, NEW s, NEW base, NEW eh, NEW sh, NEW h, HalfOf(e, s, base, eh, sh, h), NoTwo(e, s)
    PROVE  SegInv(eh, sh)
<1>1. \A k : Once(e, s, k)
  BY DEF NoTwo, Once
<1>2. \A k : Once(eh, sh, k)
  BY <1>1, HalfOnce
<1>3. NoTwo(eh, sh)
  BY <1>2 DEF NoTwo, Once
<1>4. QED
  BY <1>3, HalfOrdered DEF SegInv

\* Both halves that a split makes of a segment are halves of it.
LEMMA Halves ==
    ASSUME NEW e \in SegmentNode, NEW s \in Segment, Ordered(e, s), NEW newOff \in Region,
           NEW lo \in SegmentNode, lo.ld = e.ld + 1, lo.off = (e.off + 1) % 3,
           NEW up \in SegmentNode, up.ld = e.ld + 1, up.off = newOff
    PROVE  /\ HalfOf(e, s, s, lo, LowerHalf(s, e.off, e.ld), 0)
           /\ \E copied : HalfOf(e, s, copied, up, UpperHalf(s, e.off, newOff, e.ld), 1)
<1>1. e.off \in Region /\ e.ld \in Nat
  BY DEF SegmentNode
<1>2. PICK copied : copied = [a \in Addr |-> IF a[1] = newOff THEN s[<<(e.off + 2) % 3, a[2]>>] ELSE FreshBucket]
  OBVIOUS
<1>3. copied \in Segment
  <2>1. (e.off + 2) % 3 \in Region
    BY <1>1 DEF Region
  <2>2. QED
    BY <1>2, <2>1, FreshTypes DEF Segment, Addr
<1>4. /\ HalfBase(s, (e.off + 1) % 3, s, e.off, e.ld, 0)
      /\ HalfBase(copied, newOff, s, e.off, e.ld, 1)
  BY <1>2, HalfBases DEF Ordered
<1>5. HalfOf(e, s, s, lo, LowerHalf(s, e.off, e.ld), 0)
  BY <1>1, <1>4 DEF HalfOf, LowerHalf, Bit
<1>6. HalfOf(e, s, copied, up, UpperHalf(s, e.off, newOff, e.ld), 1)
  BY <1>1, <1>2, <1>3, <1>4 DEF HalfOf, UpperHalf, Bit
<1>7. QED
  BY <1>5, <1>6

-----------------------------------------------------------------------------
(* What the scans of a segment in order find.                              *)

\* The shared bucket of a sub-key expects the shared version, the main one the
\* main version, and whatever counts for the sub-key lies in one of them.
LEMMA TwoBuckets ==
    ASSUME NEW e \in SegmentNode, NEW k \in BitString(W)
    PROVE  /\ SharedAddr(k, e) \in Addr /\ MainAddr(k, e) \in Addr
           /\ SharedAddr(k, e) # MainAddr(k, e)
           /\ SharedAddr(k, e)[1] = e.off /\ MainAddr(k, e)[1] # e.off
           /\ Expected(e, SharedAddr(k, e)[1]) = SharedVersion(e)
           /\ Expected(e, MainAddr(k, e)[1]) = MainVersion(e)
BY AddrTypes DEF Expected

\* insert's scan of a bucket reports exactly the slot that counts for the
\* sub-key.
LEMMA HitsExact ==
    ASSUME NEW e, NEW s, SegInv(e, s), NEW a \in Addr, NEW k, NEW j \in 1..Slots
    PROVE  j \in Hits(s[a], Expected(e, a[1]), k) <=> LiveIn(e, s, a, j) /\ s[a][j].key = k
<1>0. LiveFirst(e, s) /\ NoTwo(e, s) /\ Slots \in Nat
  BY NodeAssumption DEF SegInv, Ordered
<1>1. ASSUME j \in Hits(s[a], Expected(e, a[1]), k)
      PROVE  LiveIn(e, s, a, j) /\ s[a][j].key = k
  <2>1. PICK y \in j..Slots : Live(s[a][y], Expected(e, a[1]))
    BY <1>1 DEF Hits
  <2>2. y \in 1..Slots /\ j \in 1..y
    BY <1>0, <2>1
  <2>3. LiveIn(e, s, a, j)
    BY <1>0, <2>1, <2>2 DEF LiveFirst, LiveIn
  <2>4. QED
    BY <1>1, <2>3 DEF Hits
<1>2. ASSUME LiveIn(e, s, a, j), s[a][j].key = k
      PROVE  j \in Hits(s[a], Expected(e, a[1]), k)
  <2>1. ASSUME NEW i \in 1..(j-1)
        PROVE  Live(s[a][i], Expected(e, a[1])) /\ s[a][i].key # k
    <3>1. i \in 1..j /\ i \in 1..Slots /\ i # j
      BY <1>0
    <3>2. LiveIn(e, s, a, i)
      BY <1>0, <1>2, <3>1 DEF LiveFirst
    <3>3. s[a][i].key # k
      BY <1>0, <1>2, <3>1, <3>2 DEF NoTwo
    <3>4. QED
      BY <3>2, <3>3 DEF LiveIn
  <2>2. j \in j..Slots /\ Live(s[a][j], Expected(e, a[1]))
    BY <1>0, <1>2 DEF LiveIn
  <2>3. QED
    BY <1>2, <2>1, <2>2 DEF Hits
<1>3. QED
  BY <1>1, <1>2

\* Both rules for the slot an insert overwrites choose the first that does not
\* count: at putSegNode's the slots of an earlier version that were never
\* written cannot be mistaken for full ones.
LEMMA FreeIsFirstDead ==
    ASSUME NEW e \in SegmentNode, NEW s, Ordered(e, s), e.ld >= 1, NEW a \in Addr,
           NEW j, j \in FirstOther(s[a], Expected(e, a[1]))
    PROVE  j \in FirstDead(s[a], Expected(e, a[1]))
<1>1. j \in 1..Slots /\ s[a][j].ver # Expected(e, a[1])
      /\ \A i \in 1..(j-1) : s[a][i].ver = Expected(e, a[1])
  BY DEF FirstOther
<1>2. Expected(e, a[1]) # 0
  <2>1. e.ld \in Nat
    BY DEF SegmentNode
  <2>2. CASE a[1] # e.off
    BY <2>1, <2>2 DEF Expected, MainVersion
  <2>3. CASE a[1] = e.off
    <3>1. e.ld = 1 => s[a][j].ver = 0
      BY <1>1, <2>3 DEF Ordered, FirstVersions
    <3>2. Expected(e, a[1]) = e.ld - 1
      BY <2>3 DEF Expected, SharedVersion
    <3>3. QED
      BY <1>1, <2>1, <3>1, <3>2
  <2>4. QED
    BY <2>2, <2>3
<1>3. \A i \in 1..(j-1) : i \in 1..Slots
  BY <1>1, NodeAssumption
<1>4. \A i \in 1..(j-1) : Live(s[a][i], Expected(e, a[1]))
  BY <1>1, <1>2, <1>3 DEF Ordered, SlotsWritten, Live
<1>5. QED
  BY <1>1, <1>4 DEF FirstDead, Live

\* A bucket without a first slot that does not count is full.
LEMMA NoneDeadIsFull ==
    ASSUME NEW e, NEW s, NEW a, FirstDead(s[a], Expected(e, a[1])) = {}
    PROVE  \A j \in 1..Slots : LiveIn(e, s, a, j)
<1> DEFINE Dead == {j \in 1..Slots : ~LiveIn(e, s, a, j)}
<1>1. SUFFICES ASSUME Dead # {} PROVE FALSE
  OBVIOUS
<1>2. PICK x \in Dead : \A y \in Dead : x <= y
  BY <1>1, LeastSlot
<1>3. ASSUME NEW i \in 1..(x-1) PROVE i \in 1..Slots /\ i \notin Dead
  <2>1. x \in 1..Slots /\ Slots \in Nat
    BY NodeAssumption
  <2>2. i \in 1..Slots /\ ~(x <= i)
    BY <2>1
  <2>3. QED
    BY <1>2, <2>2
<1>4. \A i \in 1..(x-1) : Live(s[a][i], Expected(e, a[1]))
  BY <1>3 DEF LiveIn
<1>5. x \in FirstDead(s[a], Expected(e, a[1]))
  BY <1>4 DEF FirstDead, LiveIn
<1>6. QED
  BY <1>5

\* An insert that finds no slot to overwrite has a full main bucket before it.
LEMMA NoneFreeIsFull ==
    ASSUME NEW e \in SegmentNode, NEW s, SegInv(e, s), NEW a \in Addr, a[1] # e.off,
           \/ FirstDead(s[a], Expected(e, a[1])) = {}
           \/ e.ld >= 1 /\ FirstOther(s[a], Expected(e, a[1])) = {}
    PROVE  \A j \in 1..Slots : LiveIn(e, s, a, j)
<1>1. e.ld \in Nat /\ Expected(e, a[1]) = e.ld
  BY DEF SegmentNode, Expected, MainVersion
<1> DEFINE Other == {j \in 1..Slots : s[a][j].ver # e.ld}
<1>2. CASE FirstDead(s[a], Expected(e, a[1])) = {}
  BY <1>2, NoneDeadIsFull
<1>3. CASE e.ld >= 1 /\ FirstOther(s[a], Expected(e, a[1])) = {}
  <2>1. Other = {}
    <3>1. SUFFICES ASSUME Other # {} PROVE FALSE
      OBVIOUS
    <3>2. PICK x \in Other : \A y \in Other : x <= y
      BY <3>1, LeastSlot
    <3>3. ASSUME NEW i \in 1..(x-1) PROVE i \in 1..Slots /\ i \notin Other
      <4>1. x \in 1..Slots /\ Slots \in Nat
        BY NodeAssumption
      <4>2. i \in 1..Slots /\ ~(x <= i)
        BY <4>1
      <4>3. QED
        BY <3>2, <4>2
    <3>4. x \in FirstOther(s[a], Expected(e, a[1]))
      BY <1>1, <3>3 DEF FirstOther
    <3>5. QED
      BY <1>3, <3>4
  <2>2. \A j \in 1..Slots : s[a][j].ver = e.ld /\ e.ld # 0
    BY <1>1, <1>3, <2>1
  <2>3. QED
    BY <1>1, <2>2 DEF SegInv, Ordered, SlotsWritten, LiveIn, Live
<1>4. QED
  BY <1>2, <1>3

\* The segment binds sub-key k to value v.
Binds(e, s, k, v) ==
    \E a \in Addr, j \in 1..Slots : LiveIn(e, s, a, j) /\ s[a][j].key = k /\ s[a][j].val = v

\* getSegNode, in the segment s under entry e.
Lookup(e, s, k) ==
    LET shared == s[SharedAddr(k, e)]
        main == s[MainAddr(k, e)]
        inShared == Matches(shared, SharedVersion(e), k)
        inMain == Matches(main, MainVersion(e), k)
    IN  IF inShared # {} /\ \A j \in inMain : ChunkNo(Min(inShared)) <= ChunkNo(j)
        THEN shared[Min(inShared)].val
        ELSE IF inMain # {} THEN main[Min(inMain)].val ELSE None

\* A scan of a bucket matches the one slot that counts for the sub-key.
LEMMA MatchesOne ==
    ASSUME NEW e, NEW s, SegInv(e, s), NEW a \in Addr, NEW k
    PROVE  /\ \A j \in 1..Slots : LiveIn(e, s, a, j) /\ s[a][j].key = k =>
                 /\ Matches(s[a], Expected(e, a[1]), k) = {j}
                 /\ \A b \in Addr : b # a => Matches(s[b], Expected(e, b[1]), k) = {}
           /\ ~HasKey(e, s, k) => Matches(s[a], Expected(e, a[1]), k) = {}
<1>1. \A b \in Addr, i \in 1..Slots :
         i \in Matches(s[b], Expected(e, b[1]), k) <=> LiveIn(e, s, b, i) /\ s[b][i].key = k
  BY DEF Matches, LiveIn
<1>2. \A b \in Addr : Matches(s[b], Expected(e, b[1]), k) \subseteq 1..Slots
  BY DEF Matches
<1>3. NoTwo(e, s)
  BY DEF SegInv, Ordered
<1>4. QED
  BY <1>1, <1>2, <1>3 DEF NoTwo, HasKey

\* A lookup returns the value bound to the sub-key, None if there is none.
LEMMA LookupExact ==
    ASSUME NEW e \in SegmentNode, NEW s, SegInv(e, s), NEW k \in BitString(W)
    PROVE  /\ \A v : Binds(e, s, k, v) => Lookup(e, s, k) = v /\ v \in Values
           /\ ~HasKey(e, s, k) => Lookup(e, s, k) = None
<1> DEFINE sh == SharedAddr(k, e)
           mn == MainAddr(k, e)
           inShared == Matches(s[sh], SharedVersion(e), k)
           inMain == Matches(s[mn], MainVersion(e), k)
<1>1. /\ sh \in Addr /\ mn \in Addr /\ sh # mn
      /\ Expected(e, sh[1]) = SharedVersion(e) /\ Expected(e, mn[1]) = MainVersion(e)
  BY TwoBuckets
<1>2. Lookup(e, s, k) = IF inShared # {} /\ \A j \in inMain : ChunkNo(Min(inShared)) <= ChunkNo(j)
                        THEN s[sh][Min(inShared)].val
                        ELSE IF inMain # {} THEN s[mn][Min(inMain)].val ELSE None
  BY DEF Lookup
<1>3. \A j \in 1..Slots : Min({j}) = j
  BY NodeAssumption DEF Min
<1>4. ASSUME NEW v, Binds(e, s, k, v) PROVE Lookup(e, s, k) = v /\ v \in Values
  <2>1. PICK a \in Addr, j \in 1..Slots : LiveIn(e, s, a, j) /\ s[a][j].key = k /\ s[a][j].val = v
    BY <1>4 DEF Binds
  <2>2. a \in {sh, mn} /\ v \in Values
    BY <2>1 DEF SegInv, Ordered, InPlace, SlotsWritten, LiveIn, Live
  <2>3. CASE a = sh
    <3>1. inShared = {j} /\ inMain = {}
      BY <1>1, <2>1, <2>3, MatchesOne
    <3>2. QED
      BY <1>2, <1>3, <2>1, <2>2, <2>3, <3>1
  <2>4. CASE a = mn
    <3>1. inMain = {j} /\ inShared = {}
      BY <1>1, <2>1, <2>4, MatchesOne
    <3>2. QED
      BY <1>2, <1>3, <2>1, <2>2, <2>4, <3>1
  <2>5. QED
    BY <2>2, <2>3, <2>4
<1>5. ASSUME ~HasKey(e, s, k) PROVE Lookup(e, s, k) = None
  <2>1. inShared = {} /\ inMain = {}
    BY <1>1, <1>5, MatchesOne
  <2>2. QED
    BY <1>2, <2>1
<1>6. QED
  BY <1>4, <1>5

-----------------------------------------------------------------------------
(* Writing a slot.                                                         *)

\* A segment with one slot written differs in that slot only.
LEMMA SetSlot ==
    ASSUME NEW s \in Segment, NEW a \in Addr, NEW j \in 1..Slots, NEW slot,
           NEW t, t = [s EXCEPT ![a] = [@ EXCEPT ![j] = slot]]
    PROVE  \A b \in Addr, i \in 1..Slots : t[b][i] = IF b = a /\ i = j THEN slot ELSE s[b][i]
<1>1. DOMAIN s = Addr /\ \A b \in Addr : DOMAIN s[b] = 1..Slots
  BY DEF Segment, Bucket
<1>2. PICK y : y = [s[a] EXCEPT ![j] = slot]
  OBVIOUS
<1>3. t = [s EXCEPT ![a] = y]
  BY <1>2
<1>4. t[a] = y /\ \A b \in Addr : b # a => t[b] = s[b]
  BY <1>1, <1>3
<1>5. y[j] = slot /\ \A i \in 1..Slots : i # j => y[i] = s[a][i]
  BY <1>1, <1>2
<1>6. ASSUME NEW b \in Addr, NEW i \in 1..Slots
      PROVE  t[b][i] = IF b = a /\ i = j THEN slot ELSE s[b][i]
  <2>1. CASE b = a
    BY <1>4, <1>5, <2>1
  <2>2. CASE b # a
    BY <1>4, <2>2
  <2>3. QED
    BY <2>1, <2>2
<1>7. QED
  BY <1>6

\* Nothing before slot j of bucket a is free; nothing in all of bucket a.
Lead(e, s, a, j) == j \in 1..Slots /\ \A i \in 1..(j-1) : LiveIn(e, s, a, i)
Full(e, s, a) == \A j \in 1..Slots : LiveIn(e, s, a, j)

\* Segment t is segment s with sub-key k written to slot j of bucket a.
Writes(e, s, a, j, k, t) ==
    /\ \A b \in Addr, i \in 1..Slots : ~(b = a /\ i = j) => t[b][i] = s[b][i]
    /\ t[a][j].valid /\ t[a][j].ver = Expected(e, a[1]) /\ t[a][j].key = k /\ t[a][j].val \in Values

\* Then this slot counts, and what counted counts.
LEMMA WriteCounts ==
    ASSUME NEW e, NEW s, NEW a \in Addr, NEW j \in 1..Slots, NEW k, NEW t, Writes(e, s, a, j, k, t)
    PROVE  \A b \in Addr, i \in 1..Slots :
              LiveIn(e, t, b, i) <=> (b = a /\ i = j) \/ LiveIn(e, s, b, i)
<1> SUFFICES ASSUME NEW b \in Addr, NEW i \in 1..Slots
             PROVE  LiveIn(e, t, b, i) <=> (b = a /\ i = j) \/ LiveIn(e, s, b, i)
  OBVIOUS
<1>1. CASE b = a /\ i = j
  BY <1>1 DEF Writes, LiveIn, Live
<1>2. CASE ~(b = a /\ i = j)
  BY <1>2 DEF Writes, LiveIn
<1>3. QED
  BY <1>1, <1>2

\* Writing to a slot of a bucket of the sub-key, no free one being before it,
\* keeps the segment in order.
LEMMA WriteOrdered ==
    ASSUME NEW e \in SegmentNode, NEW s, Ordered(e, s), NEW a \in Addr, NEW j, Lead(e, s, a, j),
           NEW k, a \in {SharedAddr(k, e), MainAddr(k, e)}, NEW t, Writes(e, s, a, j, k, t)
    PROVE  Ordered(e, t)
<1>0. j \in 1..Slots
  BY DEF Lead
<1>1. /\ \A b \in Addr, i \in 1..Slots : ~(b = a /\ i = j) => t[b][i] = s[b][i]
      /\ t[a][j].valid /\ t[a][j].ver = Expected(e, a[1]) /\ t[a][j].key = k /\ t[a][j].val \in Values
  BY DEF Writes
<1>2. /\ SlotsWritten(s) /\ NoneNewer(e, s) /\ FirstVersions(e, s)
      /\ LiveFirst(e, s) /\ InPlace(e, s)
  BY DEF Ordered
<1>3. e.ld \in Nat /\ Expected(e, a[1]) \in Int
  BY DEF SegmentNode, Expected, SharedVersion, MainVersion
<1>4. \A b \in Addr, i \in 1..Slots :
         LiveIn(e, t, b, i) <=> (b = a /\ i = j) \/ LiveIn(e, s, b, i)
  BY <1>0, WriteCounts
<1>6. SlotsWritten(t) /\ NoneNewer(e, t)
  <2>1. SlotsWritten(t)
    <3>1. ASSUME NEW b \in Addr, NEW i \in 1..Slots
          PROVE  /\ t[b][i].ver # 0 => t[b][i].valid
                 /\ t[b][i].valid => t[b][i].val \in Values
      <4>1. CASE b = a /\ i = j
        BY <1>1, <4>1
      <4>2. CASE ~(b = a /\ i = j)
        BY <1>1, <1>2, <4>2 DEF SlotsWritten
      <4>3. QED
        BY <4>1, <4>2
    <3>2. QED
      BY <3>1 DEF SlotsWritten
  <2>2. ASSUME NEW b \in Addr, NEW i \in 1..Slots, t[b][i].valid
        PROVE  t[b][i].ver <= Expected(e, b[1])
    <3>1. CASE b = a /\ i = j
      BY <1>1, <1>3, <3>1
    <3>2. CASE ~(b = a /\ i = j)
      BY <1>1, <1>2, <2>2, <3>2 DEF NoneNewer
    <3>3. QED
      BY <3>1, <3>2
  <2>3. QED
    BY <2>1, <2>2 DEF NoneNewer
<1>7. FirstVersions(e, t)
  <2>1. (e.ld = 0 /\ a[1] # e.off) \/ (e.ld = 1 /\ a[1] = e.off) => t[a][j].ver = 0
    BY <1>1, <1>3 DEF Expected, SharedVersion, MainVersion
  <2>2. ASSUME NEW b \in Addr, NEW i \in 1..Slots,
               (e.ld = 0 /\ b[1] # e.off) \/ (e.ld = 1 /\ b[1] = e.off)
        PROVE  t[b][i].ver = 0
    <3>1. CASE b = a /\ i = j
      BY <2>1, <2>2, <3>1
    <3>2. CASE ~(b = a /\ i = j)
      BY <1>1, <1>2, <2>2, <3>2 DEF FirstVersions
    <3>3. QED
      BY <3>1, <3>2
  <2>3. QED
    BY <2>2 DEF FirstVersions
<1>8. LiveFirst(e, t)
  <2>1. ASSUME NEW b \in Addr, NEW i \in 1..Slots, LiveIn(e, t, b, i), NEW n \in 1..i
        PROVE  LiveIn(e, t, b, n)
    <3>1. n \in 1..Slots
      BY NodeAssumption
    <3>2. CASE b = a /\ i = j
      <4>1. n = j \/ n \in 1..(j-1)
        BY <3>2
      <4>2. QED
        BY <1>4, <3>1, <3>2, <4>1 DEF Lead
    <3>3. CASE ~(b = a /\ i = j)
      BY <1>2, <1>4, <2>1, <3>1, <3>3 DEF LiveFirst
    <3>4. QED
      BY <3>2, <3>3
  <2>2. QED
    BY <2>1 DEF LiveFirst
<1>9. InPlace(e, t)
  <2>1. ASSUME NEW b \in Addr, NEW i \in 1..Slots, LiveIn(e, t, b, i)
        PROVE  b \in {SharedAddr(t[b][i].key, e), MainAddr(t[b][i].key, e)}
    <3>1. CASE b = a /\ i = j
      BY <1>1, <3>1
    <3>2. CASE ~(b = a /\ i = j)
      BY <1>1, <1>2, <1>4, <2>1, <3>2 DEF InPlace
    <3>3. QED
      BY <3>1, <3>2
  <2>2. QED
    BY <2>1 DEF InPlace
<1>10. QED
  BY <1>6, <1>7, <1>8, <1>9 DEF Ordered

\* Slot j of bucket a is a place for sub-key k: the slot it has, or, when it
\* has none, the first that does not count of one of its buckets.
PlaceFor(e, s, k, a, j) ==
    /\ a \in {SharedAddr(k, e), MainAddr(k, e)}
    /\ \A i \in 1..(j-1) : LiveIn(e, s, a, i)
    /\ LiveIn(e, s, a, j) => s[a][j].key = k
    /\ \A b \in Addr, i \in 1..Slots :
          LiveIn(e, s, b, i) /\ s[b][i].key = k => b = a /\ i = j

\* What is written there.
SlotFor(e, a, k, v, slot) ==
    slot.valid /\ slot.ver = Expected(e, a[1]) /\ slot.key = k /\ slot.val = v
Stores(t, s, a, j, slot) == t = [s EXCEPT ![a] = [@ EXCEPT ![j] = slot]]

\* Writing sub-key k with value v to such a place keeps the segment in order
\* and changes what it binds to k, nothing else.
LEMMA PutSlot ==
    ASSUME NEW e \in SegmentNode, NEW s \in Segment, SegInv(e, s),
           NEW a \in Addr, NEW j \in 1..Slots, NEW k, NEW v \in Values,
           PlaceFor(e, s, k, a, j),
           NEW slot, SlotFor(e, a, k, v, slot), NEW t, Stores(t, s, a, j, slot)
    PROVE  /\ SegInv(e, t)
           /\ \A l, u : Binds(e, t, l, u) <=> IF l = k THEN u = v ELSE Binds(e, s, l, u)
           /\ \A b \in Addr, i \in 1..Slots :
                 t[b][i].valid => t[b][i].key = k \/ (s[b][i].valid /\ s[b][i].key = t[b][i].key)
<1> USE DEF SlotFor, Stores
<1>1. \A b \in Addr, i \in 1..Slots : t[b][i] = IF b = a /\ i = j THEN slot ELSE s[b][i]
  BY SetSlot
<1>2. Ordered(e, s) /\ NoTwo(e, s) /\ Lead(e, s, a, j)
  BY DEF SegInv, PlaceFor, Lead
<1>4. \A b \in Addr, i \in 1..Slots :
         LiveIn(e, t, b, i) <=> (b = a /\ i = j) \/ LiveIn(e, s, b, i)
  BY <1>1 DEF LiveIn, Live
<1>5. t[a][j] = slot
  BY <1>1
<1>6. Ordered(e, t)
  <2>1. Writes(e, s, a, j, k, t)
    BY <1>1, <1>5 DEF Writes
  <2>2. QED
    BY <1>2, <2>1, WriteOrdered DEF PlaceFor
<1>10. NoTwo(e, t)
  <2>1. ASSUME NEW b \in Addr, NEW i \in 1..Slots, LiveIn(e, t, b, i), t[b][i].key = k
        PROVE  b = a /\ i = j
    BY <1>1, <1>4, <2>1 DEF PlaceFor
  <2>2. ASSUME NEW b \in Addr, NEW c \in Addr, NEW i \in 1..Slots, NEW n \in 1..Slots,
               LiveIn(e, t, b, i), LiveIn(e, t, c, n), t[b][i].key = t[c][n].key
        PROVE  b = c /\ i = n
    <3>1. CASE t[b][i].key = k
      BY <2>1, <2>2, <3>1
    <3>2. CASE t[b][i].key # k
      <4>1. ~(b = a /\ i = j) /\ ~(c = a /\ n = j)
        BY <1>5, <2>2, <3>2
      <4>2. LiveIn(e, s, b, i) /\ LiveIn(e, s, c, n) /\ s[b][i].key = s[c][n].key
        BY <1>1, <1>4, <2>2, <4>1
      <4>3. QED
        BY <1>2, <4>2 DEF NoTwo
    <3>3. QED
      BY <3>1, <3>2
  <2>3. QED
    BY <2>2 DEF NoTwo
<1>11. ASSUME NEW l, NEW u PROVE Binds(e, t, l, u) <=> IF l = k THEN u = v ELSE Binds(e, s, l, u)
  <2>1. CASE l = k
    <3>1. Binds(e, t, k, v)
      BY <1>4, <1>5 DEF Binds
    <3>2. ASSUME Binds(e, t, k, u) PROVE u = v
      <4>1. PICK b \in Addr, i \in 1..Slots : LiveIn(e, t, b, i) /\ t[b][i].key = k /\ t[b][i].val = u
        BY <3>2 DEF Binds
      <4>2. b = a /\ i = j
        BY <1>1, <1>4, <4>1 DEF PlaceFor
      <4>3. QED
        BY <1>5, <4>1, <4>2
    <3>3. QED
      BY <2>1, <3>1, <3>2
  <2>2. CASE l # k
    <3>1. ASSUME NEW b \in Addr, NEW i \in 1..Slots
          PROVE  LiveIn(e, t, b, i) /\ t[b][i].key = l /\ t[b][i].val = u
                    <=> LiveIn(e, s, b, i) /\ s[b][i].key = l /\ s[b][i].val = u
      <4>1. CASE b = a /\ i = j
        BY <1>5, <2>2, <4>1 DEF PlaceFor
      <4>2. CASE ~(b = a /\ i = j)
        BY <1>1, <1>4, <4>2
      <4>3. QED
        BY <4>1, <4>2
    <3>2. QED
      BY <2>2, <3>1 DEF Binds
  <2>3. QED
    BY <2>1, <2>2
<1>12. SegInv(e, t)
  BY <1>6, <1>10 DEF SegInv
<1>13. ASSUME NEW b \in Addr, NEW i \in 1..Slots, t[b][i].valid
       PROVE  t[b][i].key = k \/ (s[b][i].valid /\ s[b][i].key = t[b][i].key)
  <2>1. CASE b = a /\ i = j
    BY <1>5, <2>1
  <2>2. CASE ~(b = a /\ i = j)
    <3>1. t[b][i] = s[b][i]
      BY <1>1, <2>2
    <3>2. QED
      BY ONLY <1>13, <3>1
  <2>3. QED
    BY <2>1, <2>2
<1>14. QED
  BY <1>11, <1>12, <1>13
-----------------------------------------------------------------------------
(* Several writers: what a thread of WRERTConcurrent knows of the segment   *)
(* of its sub-key while others write to it too.                            *)

\* Slot j of bucket a counts, and for sub-key k.
Counts(e, s, k, a, j) == LiveIn(e, s, a, j) /\ s[a][j].key = k

\* It counts for another one, which was faster.
Beaten(e, s, k, a, j) == LiveIn(e, s, a, j) /\ s[a][j].key # k

\* In the buckets A, k counts in no slot but that one, unless it is taken.
OnlyAt(e, s, k, A, a, j) ==
    \A b \in A, i \in 1..Slots : Counts(e, s, k, b, i) => (b = a /\ i = j) \/ Beaten(e, s, k, a, j)

\* After a scan of the shared bucket that missed k: the free slot found there,
\* if any.  What is said of k holds if k is safe.
SharedMissed(e, s, k, at, safe) ==
    LET a == SharedAddr(k, e)
    IN  \/ /\ at = <<>> /\ Full(e, s, a)
           /\ safe => \A i \in 1..Slots : ~Counts(e, s, k, a, i)
        \/ /\ at = <<a, at[2]>> /\ Lead(e, s, a, at[2])
           /\ safe => OnlyAt(e, s, k, {a}, a, at[2])

\* After both were missed: the free slot preferred, ...
Chosen(e, s, k, a, j, safe) ==
    /\ a \in {SharedAddr(k, e), MainAddr(k, e)} /\ Lead(e, s, a, j)
    /\ safe => OnlyAt(e, s, k, Addr, a, j)
Preferred(e, s, k, a, j) == a = MainAddr(k, e) => Full(e, s, SharedAddr(k, e))

\* ... or that there is none.
BothFull(e, s, k, safe) ==
    /\ Full(e, s, SharedAddr(k, e)) /\ Full(e, s, MainAddr(k, e))
    /\ safe => ~HasKey(e, s, k)

\* What counts, and is taken, after a slot has been written.
LEMMA CountsAfter ==
    ASSUME NEW e, NEW s, NEW a \in Addr, NEW j \in 1..Slots, NEW k, NEW t, Writes(e, s, a, j, k, t),
           NEW l, NEW b \in Addr, NEW i \in 1..Slots
    PROVE  Counts(e, t, l, b, i) <=> IF b = a /\ i = j THEN l = k ELSE Counts(e, s, l, b, i)
<1>1. LiveIn(e, t, b, i) <=> (b = a /\ i = j) \/ LiveIn(e, s, b, i)
  BY WriteCounts
<1>2. /\ ~(b = a /\ i = j) => t[b][i] = s[b][i]
      /\ t[a][j].key = k
  BY DEF Writes
<1>3. QED
  BY <1>1, <1>2 DEF Counts

\* A slot is taken from a sub-key when another one is put there.
LEMMA BeatenAfter ==
    ASSUME NEW e, NEW s, NEW a \in Addr, NEW j \in 1..Slots, NEW k, NEW t, Writes(e, s, a, j, k, t),
           NEW l, NEW b \in Addr, NEW i \in 1..Slots
    PROVE  Beaten(e, t, l, b, i) <=> IF b = a /\ i = j THEN l # k ELSE Beaten(e, s, l, b, i)
<1>1. LiveIn(e, t, b, i) <=> (b = a /\ i = j) \/ LiveIn(e, s, b, i)
  BY WriteCounts
<1>2. /\ ~(b = a /\ i = j) => t[b][i] = s[b][i]
      /\ t[a][j].key = k
  BY DEF Writes
<1>3. QED
  BY <1>1, <1>2 DEF Beaten

\* No bucket gets emptier.
LEMMA FullerAfter ==
    ASSUME NEW e, NEW s, NEW a \in Addr, NEW j \in 1..Slots, NEW k, NEW t, Writes(e, s, a, j, k, t),
           NEW b \in Addr
    PROVE  /\ \A i : Lead(e, s, b, i) => Lead(e, t, b, i)
           /\ Full(e, s, b) => Full(e, t, b)
<1>1. \A i \in 1..Slots : LiveIn(e, s, b, i) => LiveIn(e, t, b, i)
  BY WriteCounts
<1>2. \A i \in 1..Slots : \A n \in 1..(i-1) : n \in 1..Slots
  BY NodeAssumption
<1>3. QED
  BY <1>1, <1>2 DEF Lead, Full

\* A sub-key that counted once at most still does, if the one written had no
\* slot but this one.
LEMMA WriteOnce ==
    ASSUME NEW e, NEW s, NEW a \in Addr, NEW j \in 1..Slots, NEW k, NEW t, Writes(e, s, a, j, k, t),
           NEW l, Once(e, s, l), l = k => OnlyAt(e, s, k, Addr, a, j) /\ ~Beaten(e, s, k, a, j)
    PROVE  Once(e, t, l)
<1>1. ASSUME NEW b \in Addr, NEW c \in Addr, NEW i \in 1..Slots, NEW n \in 1..Slots,
             Counts(e, t, l, b, i), Counts(e, t, l, c, n)
      PROVE  b = c /\ i = n
  <2>1. CASE l = k
    <3>1. \A d \in Addr, m \in 1..Slots : Counts(e, t, k, d, m) => d = a /\ m = j
      BY <2>1, CountsAfter DEF OnlyAt
    <3>2. QED
      BY <1>1, <2>1, <3>1
  <2>2. CASE l # k
    <3>1. Counts(e, s, l, b, i) /\ Counts(e, s, l, c, n)
      BY <1>1, <2>2, CountsAfter
    <3>2. QED
      BY <3>1 DEF Once, Counts
  <2>3. QED
    BY <2>1, <2>2
<1>2. QED
  BY <1>1 DEF Once, Counts

\* Thread 0 writes sub-key k0 to its slot, j0 of bucket a0.  Another one that
\* has chosen slot j of bucket a for sub-key k then still knows that k counts
\* nowhere else, unless its slot is taken: of two slots chosen for one sub-key
\* one is full before the other is written.
LEMMA RaceKept ==
    ASSUME NEW e, NEW s, NEW t, NEW a0 \in Addr, NEW j0, NEW k0, Lead(e, s, a0, j0),
           Writes(e, s, a0, j0, k0, t),
           NEW A \in SUBSET Addr, NEW a \in A, NEW j, NEW k, Lead(e, s, a, j), OnlyAt(e, s, k, A, a, j),
           k = k0 /\ a0 \in A => /\ OnlyAt(e, s, k0, Addr, a0, j0) /\ ~Beaten(e, s, k0, a0, j0)
                                 /\ a0 # a => LiveIn(e, s, a, j) \/ LiveIn(e, s, a0, j0)
    PROVE  OnlyAt(e, t, k, A, a, j)
<1>1. j0 \in 1..Slots /\ j \in 1..Slots /\ a \in Addr
  BY DEF Lead
<1>2. Beaten(e, s, k, a, j) => Beaten(e, t, k, a, j) \/ (k = k0 /\ a = a0 /\ j = j0)
  <2>1. Beaten(e, t, k, a, j) <=> IF a = a0 /\ j = j0 THEN k # k0 ELSE Beaten(e, s, k, a, j)
    BY <1>1, BeatenAfter
  <2>2. QED
    BY <2>1
<1>3. CASE ~(k = k0 /\ a0 \in A)
  <2>1. ASSUME NEW b \in A, NEW i \in 1..Slots, Counts(e, t, k, b, i)
        PROVE  (b = a /\ i = j) \/ Beaten(e, t, k, a, j)
    <3>1. b \in Addr
      OBVIOUS
    <3>2. Counts(e, s, k, b, i)
      BY <1>1, <1>3, <2>1, <3>1, CountsAfter
    <3>3. CASE b = a /\ i = j
      BY <3>3
    <3>4. CASE Beaten(e, s, k, a, j)
      BY <1>2, <1>3, <3>4
    <3>5. QED
      BY <3>2, <3>3, <3>4 DEF OnlyAt
  <2>2. QED
    BY <2>1 DEF OnlyAt
<1>4. CASE k = k0 /\ a0 \in A
  <2>1. ASSUME NEW b \in A, NEW i \in 1..Slots, Counts(e, t, k, b, i) PROVE b = a0 /\ i = j0
    <3>1. b \in Addr /\ (Counts(e, s, k, b, i) => b = a0 /\ i = j0)
      BY <1>4 DEF OnlyAt
    <3>2. QED
      BY <1>1, <2>1, <3>1, CountsAfter
  <2>2. LiveIn(e, s, a, j) \/ LiveIn(e, s, a0, j0) \/ (a0 = a /\ j0 = j)
    <3>1. CASE a0 = a
      <4>1. j \in 1..(j0 - 1) \/ j0 \in 1..(j - 1) \/ j = j0
        BY <1>1, NodeAssumption
      <4>2. QED
        BY <3>1, <4>1 DEF Lead
    <3>2. CASE a0 # a
      BY <1>4, <3>2
    <3>3. QED
      BY <3>1, <3>2
  <2>3. (a0 = a /\ j0 = j) \/ Beaten(e, s, k, a, j)
    <3>1. CASE LiveIn(e, s, a, j)
      <4>1. Counts(e, s, k, a, j) => a = a0 /\ j = j0
        BY <1>1, <1>4 DEF OnlyAt
      <4>2. QED
        BY <3>1, <4>1 DEF Counts, Beaten
    <3>2. CASE LiveIn(e, s, a0, j0)
      <4>1. Counts(e, s, k, a0, j0)
        BY <1>4, <3>2 DEF Counts, Beaten
      <4>2. QED
        BY <1>1, <1>4, <4>1 DEF OnlyAt
    <3>3. QED
      BY <2>2, <3>1, <3>2
  <2>4. QED
    BY <1>2, <2>1, <2>3 DEF OnlyAt
<1>5. QED
  BY <1>3, <1>4

\* What is said of one sub-key is kept when another thread writes its own to
\* the slot it has chosen; if it is the same sub-key, and safe, the writer has
\* chosen by the same rule and has looked at the slot again.
Rivals(e, s, k0, a0, j0, safe0, k, safe) ==
    safe /\ k = k0 => safe0 /\ ~Beaten(e, s, k0, a0, j0) /\ Preferred(e, s, k0, a0, j0)

\* What an insert knows of the slot it chose stays true when another one puts
\* its sub-key.
LEMMA ChosenKept ==
    ASSUME NEW e \in SegmentNode, NEW s, NEW t, NEW k0 \in BitString(W), NEW a0, NEW j0,
           NEW safe0 \in BOOLEAN, Chosen(e, s, k0, a0, j0, safe0), Writes(e, s, a0, j0, k0, t),
           NEW k \in BitString(W), NEW safe \in BOOLEAN, Rivals(e, s, k0, a0, j0, safe0, k, safe),
           NEW a, NEW j, Chosen(e, s, k, a, j, safe), safe => Preferred(e, s, k, a, j)
    PROVE  /\ Chosen(e, t, k, a, j, safe)
           /\ Preferred(e, s, k, a, j) => Preferred(e, t, k, a, j)
<1>1. /\ a0 \in {SharedAddr(k0, e), MainAddr(k0, e)} /\ Lead(e, s, a0, j0)
      /\ safe0 => OnlyAt(e, s, k0, Addr, a0, j0)
      /\ a \in {SharedAddr(k, e), MainAddr(k, e)} /\ Lead(e, s, a, j)
      /\ safe => OnlyAt(e, s, k, Addr, a, j)
  BY DEF Chosen
<1>2. a0 \in Addr /\ a \in Addr /\ SharedAddr(k, e) \in Addr /\ j0 \in 1..Slots /\ j \in 1..Slots
  BY <1>1, TwoBuckets DEF Lead
<1>3. Lead(e, t, a, j) /\ (Full(e, s, SharedAddr(k, e)) => Full(e, t, SharedAddr(k, e)))
  BY <1>1, <1>2, FullerAfter
<1>4. ASSUME safe PROVE OnlyAt(e, t, k, Addr, a, j)
  <2>1. ASSUME k = k0, a0 # a PROVE LiveIn(e, s, a, j) \/ LiveIn(e, s, a0, j0)
    <3>1. Preferred(e, s, k, a0, j0) /\ Preferred(e, s, k, a, j)
      BY <1>4, <2>1 DEF Rivals
    <3>2. CASE a = MainAddr(k, e)
      <4>1. a0 = SharedAddr(k, e) /\ Full(e, s, SharedAddr(k, e))
        BY <1>1, <2>1, <3>1, <3>2 DEF Preferred
      <4>2. QED
        BY <1>2, <4>1 DEF Full
    <3>3. CASE a0 = MainAddr(k, e)
      <4>1. a = SharedAddr(k, e) /\ Full(e, s, SharedAddr(k, e))
        BY <1>1, <2>1, <3>1, <3>3 DEF Preferred
      <4>2. QED
        BY <1>2, <4>1 DEF Full
    <3>4. QED
      BY <1>1, <2>1, <3>2, <3>3
  <2>2. k = k0 => OnlyAt(e, s, k0, Addr, a0, j0) /\ ~Beaten(e, s, k0, a0, j0)
    BY <1>1, <1>4 DEF Rivals
  <2>3. QED
    BY <1>1, <1>2, <1>4, <2>1, <2>2, RaceKept
<1>5. QED
  BY <1>1, <1>3, <1>4 DEF Chosen, Preferred

\* The same after a scan of the shared bucket only, ...
LEMMA SharedMissedKept ==
    ASSUME NEW e \in SegmentNode, NEW s, NEW t, NEW k0 \in BitString(W), NEW a0, NEW j0,
           NEW safe0 \in BOOLEAN, Chosen(e, s, k0, a0, j0, safe0), Writes(e, s, a0, j0, k0, t),
           NEW k \in BitString(W), NEW safe \in BOOLEAN, Rivals(e, s, k0, a0, j0, safe0, k, safe),
           NEW at, SharedMissed(e, s, k, at, safe)
    PROVE  SharedMissed(e, t, k, at, safe)
<1>1. /\ a0 \in {SharedAddr(k0, e), MainAddr(k0, e)} /\ Lead(e, s, a0, j0)
      /\ safe0 => OnlyAt(e, s, k0, Addr, a0, j0)
  BY DEF Chosen
<1>2. PICK a : a = SharedAddr(k, e)
  OBVIOUS
<1>3. a0 \in Addr /\ a \in Addr /\ j0 \in 1..Slots
  BY <1>1, <1>2, TwoBuckets DEF Lead
<1>4. safe /\ k = k0 => safe0 /\ ~Beaten(e, s, k0, a0, j0)
  BY DEF Rivals
<1>5. CASE /\ at = <<>> /\ Full(e, s, a)
           /\ safe => \A i \in 1..Slots : ~Counts(e, s, k, a, i)
  <2>1. Full(e, t, a)
    BY <1>3, <1>5, FullerAfter
  <2>2. ASSUME safe, NEW i \in 1..Slots, Counts(e, t, k, a, i) PROVE FALSE
    <3>1. ~Counts(e, s, k, a, i)
      BY <1>5, <2>2
    <3>2. a = a0 /\ i = j0 /\ k = k0
      BY <1>3, <2>2, <3>1, CountsAfter
    <3>3. LiveIn(e, s, a0, j0) /\ ~Beaten(e, s, k0, a0, j0)
      BY <1>3, <1>4, <1>5, <2>2, <3>2 DEF Full
    <3>4. QED
      BY <3>1, <3>2, <3>3 DEF Counts, Beaten
  <2>3. QED
    BY <1>2, <1>5, <2>1, <2>2 DEF SharedMissed
<1>6. CASE /\ at = <<a, at[2]>> /\ Lead(e, s, a, at[2])
           /\ safe => OnlyAt(e, s, k, {a}, a, at[2])
  <2>1. PICK j : j = at[2]
    OBVIOUS
  <2>2. Lead(e, s, a, j) /\ Lead(e, t, a, j)
    BY <1>3, <1>6, <2>1, FullerAfter
  <2>3. ASSUME safe PROVE OnlyAt(e, t, k, {a}, a, j)
    <3>1. {a} \in SUBSET Addr /\ OnlyAt(e, s, k, {a}, a, j)
      BY <1>3, <1>6, <2>1, <2>3
    <3>2. k = k0 => OnlyAt(e, s, k0, Addr, a0, j0) /\ ~Beaten(e, s, k0, a0, j0)
      BY <1>1, <1>4, <2>3
    <3>3. a0 \in {a} => a0 = a
      OBVIOUS
    <3>4. QED
      BY <1>1, <1>3, <2>2, <3>1, <3>2, <3>3, RaceKept
  <2>4. QED
    BY <1>2, <1>6, <2>1, <2>2, <2>3 DEF SharedMissed
<1>7. QED
  BY <1>2, <1>5, <1>6 DEF SharedMissed

\* ... after both buckets were found full, ...
LEMMA BothFullKept ==
    ASSUME NEW e \in SegmentNode, NEW s, NEW t, NEW k0 \in BitString(W), NEW a0, NEW j0,
           NEW safe0 \in BOOLEAN, Chosen(e, s, k0, a0, j0, safe0), Writes(e, s, a0, j0, k0, t),
           NEW k \in BitString(W), NEW safe \in BOOLEAN, Rivals(e, s, k0, a0, j0, safe0, k, safe),
           BothFull(e, s, k, safe)
    PROVE  BothFull(e, t, k, safe)
<1>1. a0 \in {SharedAddr(k0, e), MainAddr(k0, e)} /\ Lead(e, s, a0, j0)
  BY DEF Chosen
<1>2. a0 \in Addr /\ j0 \in 1..Slots /\ SharedAddr(k, e) \in Addr /\ MainAddr(k, e) \in Addr
  BY <1>1, TwoBuckets DEF Lead
<1>3. Full(e, t, SharedAddr(k, e)) /\ Full(e, t, MainAddr(k, e))
  BY <1>2, FullerAfter DEF BothFull
<1>4. ASSUME safe, HasKey(e, t, k) PROVE FALSE
  <2>1. PICK b \in Addr, i \in 1..Slots : Counts(e, t, k, b, i)
    BY <1>4 DEF HasKey, Counts
  <2>2. ~Counts(e, s, k, b, i) /\ ~Counts(e, s, k, a0, j0)
    BY <1>2, <1>4 DEF BothFull, HasKey, Counts
  <2>3. k = k0
    BY <1>2, <2>1, <2>2, CountsAfter
  <2>4. LiveIn(e, s, a0, j0) /\ ~Beaten(e, s, k0, a0, j0)
    BY <1>1, <1>2, <1>4, <2>3 DEF BothFull, Full, Rivals
  <2>5. QED
    BY <2>2, <2>3, <2>4 DEF Counts, Beaten
<1>5. QED
  BY <1>3, <1>4 DEF BothFull

\* Writing a value changes nothing of that.
SameHeaders(s, t) ==
    \A b \in Addr, i \in 1..Slots :
        /\ t[b][i].valid = s[b][i].valid /\ t[b][i].ver = s[b][i].ver /\ t[b][i].key = s[b][i].key
        /\ t[b][i].val = s[b][i].val \/ t[b][i].val \in Values

\* Then the same slots count, for the same sub-keys.
LEMMA HeadersCount ==
    ASSUME NEW s, NEW t, SameHeaders(s, t), NEW e, NEW b \in Addr, NEW i \in 1..Slots, NEW k
    PROVE  /\ LiveIn(e, t, b, i) <=> LiveIn(e, s, b, i)
           /\ Counts(e, t, k, b, i) <=> Counts(e, s, k, b, i)
           /\ Beaten(e, t, k, b, i) <=> Beaten(e, s, k, b, i)
<1>1. t[b][i].valid = s[b][i].valid /\ t[b][i].ver = s[b][i].ver /\ t[b][i].key = s[b][i].key
  BY DEF SameHeaders
<1>2. LiveIn(e, t, b, i) <=> LiveIn(e, s, b, i)
  BY <1>1 DEF LiveIn, Live
<1>3. QED
  BY <1>1, <1>2 DEF Counts, Beaten

\* The segment stays in order, with no more copies.
LEMMA HeadersOrdered ==
    ASSUME NEW s, NEW t, SameHeaders(s, t), NEW e, Ordered(e, s)
    PROVE  /\ Ordered(e, t)
           /\ \A k : Once(e, s, k) => Once(e, t, k)
<1>1. \A b \in Addr, i \in 1..Slots : LiveIn(e, t, b, i) <=> LiveIn(e, s, b, i)
  BY HeadersCount
<1>2. \A b \in Addr, i \in 1..Slots :
        /\ t[b][i].valid = s[b][i].valid /\ t[b][i].ver = s[b][i].ver /\ t[b][i].key = s[b][i].key
        /\ t[b][i].val = s[b][i].val \/ t[b][i].val \in Values
  BY DEF SameHeaders
<1>3. SlotsWritten(t) /\ NoneNewer(e, t) /\ FirstVersions(e, t)
  BY <1>2 DEF Ordered, SlotsWritten, NoneNewer, FirstVersions
<1>4. LiveFirst(e, t)
  <2>1. \A i \in 1..Slots : \A n \in 1..i : n \in 1..Slots
    BY NodeAssumption
  <2>2. QED
    BY <1>1, <2>1 DEF Ordered, LiveFirst
<1>5. InPlace(e, t)
  BY <1>1, <1>2 DEF Ordered, InPlace
<1>6. ASSUME NEW k, Once(e, s, k) PROVE Once(e, t, k)
  BY <1>1, <1>2, <1>6 DEF Once
<1>7. QED
  BY <1>3, <1>4, <1>5, <1>6 DEF Ordered

\* And what an insert knows of it stays true.
LEMMA HeadersKeep ==
    ASSUME NEW s, NEW t, SameHeaders(s, t), NEW e \in SegmentNode, NEW k \in BitString(W),
           NEW safe \in BOOLEAN
    PROVE  /\ \A a, j : Chosen(e, s, k, a, j, safe) => /\ Chosen(e, t, k, a, j, safe)
                                                       /\ Beaten(e, t, k, a, j) => Beaten(e, s, k, a, j)
           /\ \A a, j : Preferred(e, s, k, a, j) => Preferred(e, t, k, a, j)
           /\ \A at : SharedMissed(e, s, k, at, safe) => SharedMissed(e, t, k, at, safe)
           /\ BothFull(e, s, k, safe) => BothFull(e, t, k, safe)
           /\ HasKey(e, t, k) => HasKey(e, s, k)
<1> DEFINE sh == SharedAddr(k, e)
<1>1. sh \in Addr /\ MainAddr(k, e) \in Addr
  BY TwoBuckets
<1>2. ASSUME NEW b \in Addr
      PROVE  /\ \A i \in 1..Slots : Counts(e, t, k, b, i) <=> Counts(e, s, k, b, i)
             /\ \A i \in 1..Slots : Beaten(e, t, k, b, i) <=> Beaten(e, s, k, b, i)
             /\ Full(e, s, b) => Full(e, t, b)
             /\ \A i : Lead(e, s, b, i) => Lead(e, t, b, i) /\ i \in 1..Slots
  <2>1. \A i \in 1..Slots : LiveIn(e, t, b, i) <=> LiveIn(e, s, b, i)
    BY HeadersCount
  <2>2. \A i \in 1..Slots : \A n \in 1..(i-1) : n \in 1..Slots
    BY NodeAssumption
  <2>3. QED
    BY <2>1, <2>2, HeadersCount DEF Full, Lead
<1>3. ASSUME NEW A \in SUBSET Addr, NEW a \in Addr, NEW j \in 1..Slots, OnlyAt(e, s, k, A, a, j)
      PROVE  OnlyAt(e, t, k, A, a, j)
  BY <1>2, <1>3 DEF OnlyAt
<1>4. ASSUME NEW a, NEW j, Chosen(e, s, k, a, j, safe)
      PROVE  /\ Chosen(e, t, k, a, j, safe)
             /\ Beaten(e, t, k, a, j) => Beaten(e, s, k, a, j)
  <2>1. a \in Addr /\ Lead(e, s, a, j)
    BY <1>1, <1>4 DEF Chosen
  <2>2. j \in 1..Slots /\ Lead(e, t, a, j)
    BY <1>2, <2>1
  <2>3. QED
    BY <1>2, <1>3, <1>4, <2>1, <2>2 DEF Chosen
<1>5. ASSUME NEW at, SharedMissed(e, s, k, at, safe) PROVE SharedMissed(e, t, k, at, safe)
  <2>1. CASE at = <<>> /\ Full(e, s, sh) /\ (safe => \A i \in 1..Slots : ~Counts(e, s, k, sh, i))
    BY <1>1, <1>2, <2>1 DEF SharedMissed
  <2>2. CASE /\ at = <<sh, at[2]>> /\ Lead(e, s, sh, at[2])
             /\ safe => OnlyAt(e, s, k, {sh}, sh, at[2])
    <3>1. {sh} \in SUBSET Addr /\ Lead(e, t, sh, at[2]) /\ at[2] \in 1..Slots
      BY <1>1, <1>2, <2>2
    <3>2. QED
      BY <1>1, <1>3, <2>2, <3>1 DEF SharedMissed
  <2>3. QED
    BY <1>5, <2>1, <2>2 DEF SharedMissed
<1>6. HasKey(e, t, k) => HasKey(e, s, k)
  BY <1>2 DEF HasKey, Counts
<1>7. QED
  BY <1>1, <1>2, <1>4, <1>5, <1>6 DEF BothFull, Preferred

\* A scan of a bucket that reports nothing has missed nothing.
LEMMA NoHit ==
    ASSUME NEW e, NEW s, Ordered(e, s), NEW a \in Addr, NEW k,
           Hits(s[a], Expected(e, a[1]), k) = {}
    PROVE  \A i \in 1..Slots : ~Counts(e, s, k, a, i)
<1> DEFINE Here == {i \in 1..Slots : Counts(e, s, k, a, i)}
<1>1. SUFFICES ASSUME Here # {} PROVE FALSE
  OBVIOUS
<1>2. PICK j \in Here : \A i \in Here : j <= i
  BY <1>1, LeastSlot
<1>3. j \in 1..Slots /\ LiveIn(e, s, a, j) /\ s[a][j].key = k
  BY DEF Counts
<1>4. ASSUME NEW i \in 1..(j-1)
      PROVE  Live(s[a][i], Expected(e, a[1])) /\ s[a][i].key # k
  <2>1. i \in 1..Slots /\ i \in 1..j /\ ~(j <= i)
    BY <1>3, NodeAssumption
  <2>2. LiveIn(e, s, a, i)
    BY <1>3, <2>1 DEF Ordered, LiveFirst
  <2>3. QED
    BY <1>2, <2>1, <2>2 DEF Counts, LiveIn
<1>5. j \in j..Slots /\ Live(s[a][j], Expected(e, a[1]))
  BY <1>3, NodeAssumption DEF LiveIn
<1>6. j \in Hits(s[a], Expected(e, a[1]), k)
  BY <1>3, <1>4, <1>5 DEF Hits
<1>7. QED
  BY <1>6

\* The first slot of a bucket that does not count.
LEMMA DeadLead ==
    ASSUME NEW e, NEW s, NEW a, NEW j \in FirstDead(s[a], Expected(e, a[1]))
    PROVE  Lead(e, s, a, j) /\ ~LiveIn(e, s, a, j)
BY DEF FirstDead, Lead, LiveIn

\* What insert knows after it has missed its sub-key in the shared bucket, ...
LEMMA SharedScanned ==
    ASSUME NEW e \in SegmentNode, NEW s, Ordered(e, s), NEW k \in BitString(W), NEW safe \in BOOLEAN,
           Hits(s[SharedAddr(k, e)], SharedVersion(e), k) = {},
           NEW at, IF FirstDead(s[SharedAddr(k, e)], SharedVersion(e)) = {} THEN at = <<>>
                   ELSE at \in {SharedAddr(k, e)} \X FirstDead(s[SharedAddr(k, e)], SharedVersion(e))
    PROVE  SharedMissed(e, s, k, at, safe)
<1>1. PICK a : a = SharedAddr(k, e)
  OBVIOUS
<1>2. a \in Addr /\ Expected(e, a[1]) = SharedVersion(e)
  BY <1>1, TwoBuckets
<1>3. \A i \in 1..Slots : ~Counts(e, s, k, a, i)
  BY <1>1, <1>2, NoHit
<1>4. CASE FirstDead(s[a], SharedVersion(e)) = {}
  <2>1. Full(e, s, a)
    BY <1>2, <1>4, NoneDeadIsFull DEF Full
  <2>2. QED
    BY <1>1, <1>3, <1>4, <2>1 DEF SharedMissed
<1>5. CASE FirstDead(s[a], SharedVersion(e)) # {}
  <2>1. PICK j : j = at[2]
    OBVIOUS
  <2>2. at = <<a, j>> /\ j \in FirstDead(s[a], Expected(e, a[1]))
    BY <1>1, <1>2, <1>5, <2>1
  <2>3. Lead(e, s, a, j)
    BY <2>2, DeadLead
  <2>4. OnlyAt(e, s, k, {a}, a, j)
    BY <1>3 DEF OnlyAt
  <2>5. QED
    BY <1>1, <2>1, <2>2, <2>3, <2>4 DEF SharedMissed
<1>6. QED
  BY <1>4, <1>5

\* ... and then in the main one.
LEMMA MainScanned ==
    ASSUME NEW e \in SegmentNode, NEW s, Ordered(e, s), NEW k \in BitString(W), NEW safe \in BOOLEAN,
           Hits(s[MainAddr(k, e)], MainVersion(e), k) = {},
           NEW at, SharedMissed(e, s, k, at, safe)
    PROVE  /\ at # <<>> => Chosen(e, s, k, at[1], at[2], safe) /\ Preferred(e, s, k, at[1], at[2])
           /\ at = <<>> =>
                /\ \A x \in {MainAddr(k, e)} \X FirstDead(s[MainAddr(k, e)], MainVersion(e)) :
                      Chosen(e, s, k, x[1], x[2], safe) /\ Preferred(e, s, k, x[1], x[2])
                /\ FirstDead(s[MainAddr(k, e)], MainVersion(e)) = {} => BothFull(e, s, k, safe)
<1>1. PICK a, m : a = SharedAddr(k, e) /\ m = MainAddr(k, e)
  OBVIOUS
<1>2. a \in Addr /\ m \in Addr /\ a # m /\ Expected(e, m[1]) = MainVersion(e)
  BY <1>1, TwoBuckets
<1>3. \A i \in 1..Slots : ~Counts(e, s, k, m, i)
  BY <1>1, <1>2, NoHit
<1>4. \A b \in Addr, i \in 1..Slots : Counts(e, s, k, b, i) => b = a
  BY <1>1, <1>3 DEF Ordered, InPlace, Counts
<1>5. CASE at # <<>>
  <2>1. PICK j : j = at[2]
    OBVIOUS
  <2>2. at = <<a, j>> /\ Lead(e, s, a, j) /\ (safe => OnlyAt(e, s, k, {a}, a, j))
    BY <1>1, <1>5, <2>1 DEF SharedMissed
  <2>3. safe => OnlyAt(e, s, k, Addr, a, j)
    BY <1>4, <2>2 DEF OnlyAt
  <2>4. Chosen(e, s, k, a, j, safe) /\ Preferred(e, s, k, a, j)
    BY <1>1, <1>2, <2>2, <2>3 DEF Chosen, Preferred
  <2>5. QED
    BY <1>5, <2>2, <2>4
<1>6. CASE at = <<>>
  <2>1. at # <<a, at[2]>>
    BY <1>6
  <2>2. Full(e, s, a) /\ (safe => \A i \in 1..Slots : ~Counts(e, s, k, a, i))
    BY <1>1, <1>6, <2>1 DEF SharedMissed
  <2>3. safe => \A b \in Addr, i \in 1..Slots : ~Counts(e, s, k, b, i)
    BY <1>4, <2>2
  <2>4. ASSUME NEW j \in FirstDead(s[m], MainVersion(e))
        PROVE  Chosen(e, s, k, m, j, safe) /\ Preferred(e, s, k, m, j)
    <3>1. Lead(e, s, m, j)
      BY <1>2, DeadLead
    <3>2. safe => OnlyAt(e, s, k, Addr, m, j)
      BY <2>3 DEF OnlyAt
    <3>3. QED
      BY <1>1, <2>2, <3>1, <3>2 DEF Chosen, Preferred
  <2>5. FirstDead(s[m], MainVersion(e)) = {} => BothFull(e, s, k, safe)
    <3>1. FirstDead(s[m], MainVersion(e)) = {} => Full(e, s, m)
      BY <1>2, NoneDeadIsFull DEF Full
    <3>2. safe => ~HasKey(e, s, k)
      BY <2>3 DEF HasKey, Counts
    <3>3. QED
      BY <1>1, <2>2, <3>1, <3>2 DEF BothFull
  <2>6. QED
    BY <1>1, <1>6, <2>4, <2>5
<1>7. QED
  BY <1>5, <1>6

\* putSegNode's choice, for a sub-key the segment does not have.
LEMMA PutChosen ==
    ASSUME NEW e \in SegmentNode, NEW s, Ordered(e, s), e.ld >= 1, NEW k \in BitString(W),
           NEW safe \in BOOLEAN, safe => ~HasKey(e, s, k),
           NEW a \in {SharedAddr(k, e), MainAddr(k, e)}, NEW j \in FirstOther(s[a], Expected(e, a[1]))
    PROVE  Chosen(e, s, k, a, j, safe) /\ ~Beaten(e, s, k, a, j)
<1>1. a \in Addr
  BY TwoBuckets
<1>2. Lead(e, s, a, j) /\ ~LiveIn(e, s, a, j)
  BY <1>1, FreeIsFirstDead, DeadLead
<1>3. safe => OnlyAt(e, s, k, Addr, a, j)
  BY DEF HasKey, OnlyAt, Counts
<1>4. QED
  BY <1>2, <1>3 DEF Chosen, Beaten

\* A sub-key that counts once at most is matched once at most.
LEMMA CopiesOnce ==
    ASSUME NEW e, NEW s, NEW k, Once(e, s, k), NEW a \in Addr, NEW b \in Addr, a # b
    PROVE  Cardinality(Matches(s[a], Expected(e, a[1]), k))
              + Cardinality(Matches(s[b], Expected(e, b[1]), k)) <= 1
<1>1. PICK A, B : A = Matches(s[a], Expected(e, a[1]), k) /\ B = Matches(s[b], Expected(e, b[1]), k)
  OBVIOUS
<1>2. /\ \A i \in A : i \in 1..Slots /\ LiveIn(e, s, a, i) /\ s[a][i].key = k
      /\ \A i \in B : i \in 1..Slots /\ LiveIn(e, s, b, i) /\ s[b][i].key = k
  BY <1>1 DEF Matches, LiveIn
<1>3. /\ \A i, n \in A : i = n
      /\ \A i, n \in B : i = n
      /\ A = {} \/ B = {}
  BY <1>2 DEF Once
<1>4. A = {} \/ \E i : A = {i}
  BY <1>3
<1>5. B = {} \/ \E i : B = {i}
  BY <1>3
<1>6. Cardinality({}) = 0 /\ \A i : Cardinality({i}) = 1
  BY FS_EmptySet, FS_Singleton
<1>7. Cardinality(A) \in {0, 1} /\ Cardinality(B) \in {0, 1} /\ (Cardinality(A) = 0 \/ Cardinality(B) = 0)
  BY <1>3, <1>4, <1>5, <1>6
<1>8. QED
  BY <1>1, <1>7

-----------------------------------------------------------------------------
(* Directories of several segments.                                        *)

\* Directory d of depth g over the first n segments is aligned.
Directed(g, d, n) ==
    /\ g \in Nat /\ d \in [BitString(g) -> SegmentNode]
    /\ \A p \in BitString(g) : d[p].seg \in 1..n /\ d[p].ld <= g
    /\ \A p, q \in BitString(g) :
          /\ (d[p].seg = d[q].seg) <=> (\A i \in 1..d[p].ld : p[i] = q[i])
          /\ d[p].seg = d[q].seg => d[p] = d[q]

\* Its segments ss are in order and have none of the sub-keys K twice.
SegmentsOrdered(g, d, ss, K) ==
    \A p \in BitString(g) : /\ Ordered(d[p], ss[d[p].seg])
                            /\ \A k \in K : Once(d[p], ss[d[p].seg], k)

\* After a split or a doubling: the entries that have the first bits of num,
\* those of the segment of entry e, are up and lo, by their next bit; the
\* others are kept.
Prefix(p, g) == [i \in 1..g |-> p[i]]
Halved(g2, g, d, num, e, up, lo) ==
    [p \in BitString(g2) |->
        IF \E i \in 1..e.ld : p[i] # num[i] THEN d[Prefix(p, g)]
        ELSE IF p[e.ld + 1] = 1 THEN up ELSE lo]

\* Entry e of the directory, that of num, is replaced by up and lo, up being of
\* a new segment.
Halving(g2, g, d, n, num, e, up, lo) ==
    /\ n \in Nat /\ Directed(g, d, n) /\ num \in BitString(g) /\ e = d[num]
    /\ g2 \in Nat /\ g <= g2 /\ e.ld < g2
    /\ up \in SegmentNode /\ up.ld = e.ld + 1 /\ up.seg = n + 1
    /\ lo \in SegmentNode /\ lo.ld = e.ld + 1 /\ lo.seg = e.seg

\* What the new entries are.
LEMMA HalvedEntry ==
    ASSUME NEW g2, NEW g, NEW d, NEW n, NEW num, NEW e, NEW up, NEW lo,
           Halving(g2, g, d, n, num, e, up, lo), NEW p \in BitString(g2)
    PROVE  LET o == Prefix(p, g)
               G == \A i \in 1..e.ld : p[i] = num[i]
               f == Halved(g2, g, d, num, e, up, lo)[p]
           IN  /\ o \in BitString(g) /\ d[o] \in SegmentNode
               /\ d[o].seg \in 1..n /\ d[o].ld \in Nat /\ d[o].ld <= g
               /\ \A i \in 1..g : o[i] = p[i]
               /\ G => d[o] = e
               /\ ~G => d[o].seg # e.seg /\ f = d[o]
               /\ G /\ p[e.ld + 1] = 1 => f = up
               /\ G /\ p[e.ld + 1] = 0 => f = lo
               /\ p[e.ld + 1] \in {0, 1}
<1> DEFINE G == \A i \in 1..e.ld : p[i] = num[i]
<1>1. /\ n \in Nat /\ g \in Nat /\ g2 \in Nat /\ g <= g2 /\ num \in BitString(g) /\ e = d[num]
      /\ d \in [BitString(g) -> SegmentNode] /\ e \in SegmentNode /\ e.ld \in Nat
      /\ e.ld < g2 /\ e.ld <= g
  BY DEF Halving, Directed, SegmentNode
<1>2. PICK o : o = Prefix(p, g)
  OBVIOUS
<1>3. o \in BitString(g) /\ \A i \in 1..g : o[i] = p[i]
  BY <1>1, <1>2 DEF Prefix, BitString
<1>4. p[e.ld + 1] \in {0, 1}
  BY <1>1 DEF BitString, Bit
<1>5. d[o] \in SegmentNode /\ d[o].ld \in Nat /\ d[o].seg \in 1..n /\ d[o].ld <= g
  BY <1>1, <1>3 DEF Halving, Directed, SegmentNode
<1>6. /\ (e.seg = d[o].seg) <=> (\A i \in 1..e.ld : num[i] = o[i])
      /\ e.seg = d[o].seg => e = d[o]
  BY <1>1, <1>3 DEF Halving, Directed
<1>7. (\A i \in 1..e.ld : num[i] = o[i]) <=> G
  <2>1. \A i \in 1..e.ld : i \in 1..g
    BY <1>1
  <2>2. QED
    BY <1>3, <2>1
<1>8. Halved(g2, g, d, num, e, up, lo)[p] = IF ~G THEN d[o] ELSE IF p[e.ld + 1] = 1 THEN up ELSE lo
  BY <1>2 DEF Halved
<1> HIDE DEF G
<1>9. QED
  BY <1>2, <1>3, <1>4, <1>5, <1>6, <1>7, <1>8 DEF G

\* The new directory is aligned.
LEMMA HalvedDirected ==
    ASSUME NEW g2, NEW g, NEW d, NEW n, NEW num, NEW e, NEW up, NEW lo,
           Halving(g2, g, d, n, num, e, up, lo)
    PROVE  Directed(g2, Halved(g2, g, d, num, e, up, lo), n + 1)
<1> DEFINE G(p) == \A i \in 1..e.ld : p[i] = num[i]
<1>1. PICK h : h = Halved(g2, g, d, num, e, up, lo)
  OBVIOUS
<1>2. /\ n \in Nat /\ g \in Nat /\ g2 \in Nat /\ g <= g2 /\ e.ld < g2 /\ e.ld \in Nat
      /\ e.seg \in 1..n /\ up.ld = e.ld + 1 /\ up.seg = n + 1
      /\ lo.ld = e.ld + 1 /\ lo.seg = e.seg /\ up \in SegmentNode /\ lo \in SegmentNode
  BY DEF Halving, Directed, SegmentNode
<1>3. ASSUME NEW p \in BitString(g2)
      PROVE  /\ Prefix(p, g) \in BitString(g) /\ d[Prefix(p, g)] \in SegmentNode
             /\ d[Prefix(p, g)].seg \in 1..n /\ d[Prefix(p, g)].ld \in Nat /\ d[Prefix(p, g)].ld <= g
             /\ \A i \in 1..g : Prefix(p, g)[i] = p[i]
             /\ G(p) => d[Prefix(p, g)] = e
             /\ ~G(p) => d[Prefix(p, g)].seg # e.seg /\ h[p] = d[Prefix(p, g)]
             /\ G(p) /\ p[e.ld + 1] = 1 => h[p] = up
             /\ G(p) /\ p[e.ld + 1] = 0 => h[p] = lo
             /\ p[e.ld + 1] \in {0, 1}
  BY <1>1, HalvedEntry
<1> DEFINE O(p) == d[Prefix(p, g)]
<1>4. h \in [BitString(g2) -> SegmentNode]
  <2>1. \A p \in BitString(g2) : h[p] \in SegmentNode
    BY <1>2, <1>3
  <2>2. h = [p \in BitString(g2) |-> h[p]]
    BY <1>1 DEF Halved
  <2>3. QED
    BY <2>1, <2>2
<1>5. ASSUME NEW p \in BitString(g2)
      PROVE  h[p].seg \in 1..(n + 1) /\ h[p].ld <= g2
  BY <1>2, <1>3
<1>6. ASSUME NEW p \in BitString(g2), NEW q \in BitString(g2)
      PROVE  (O(p).seg = O(q).seg) <=> (\A i \in 1..O(p).ld : p[i] = q[i])
  <2>1. (O(p).seg = O(q).seg) <=> (\A i \in 1..O(p).ld : Prefix(p, g)[i] = Prefix(q, g)[i])
    BY <1>3 DEF Halving, Directed
  <2>2. \A i \in 1..O(p).ld : i \in 1..g
    BY <1>2, <1>3
  <2>3. QED
    BY <1>3, <2>1, <2>2
<1>7. ASSUME NEW p \in BitString(g2), NEW q \in BitString(g2)
      PROVE  O(p).seg = O(q).seg => O(p) = O(q)
  BY <1>3 DEF Halving, Directed
<1>8. ASSUME NEW p \in BitString(g2), NEW q \in BitString(g2)
      PROVE  /\ (h[p].seg = h[q].seg) <=> (\A i \in 1..h[p].ld : p[i] = q[i])
             /\ h[p].seg = h[q].seg => h[p] = h[q]
  <2>1. CASE G(p) /\ G(q)
    <3>1. h[p].ld = e.ld + 1
      BY <1>2, <1>3, <2>1
    <3>2. (h[p].seg = h[q].seg) <=> p[e.ld + 1] = q[e.ld + 1]
      BY <1>2, <1>3, <2>1
    <3>3. p[e.ld + 1] = q[e.ld + 1] => h[p] = h[q]
      BY <1>3, <2>1
    <3>4. (\A i \in 1..(e.ld + 1) : p[i] = q[i]) <=> p[e.ld + 1] = q[e.ld + 1]
      BY <1>2, <2>1
    <3>5. QED
      BY <3>1, <3>2, <3>3, <3>4
  <2>2. CASE G(p) /\ ~G(q)
    <3>1. h[p].ld = e.ld + 1 /\ h[p].seg \in {n + 1, e.seg}
      BY <1>2, <1>3, <2>2
    <3>2. h[q].seg \in 1..n /\ h[q].seg # e.seg
      BY <1>3, <2>2
    <3>3. h[p].seg # h[q].seg
      BY <1>2, <3>1, <3>2
    <3>4. ~\A i \in 1..(e.ld + 1) : p[i] = q[i]
      BY <1>2, <2>2
    <3>5. QED
      BY <3>1, <3>3, <3>4
  <2>3. CASE ~G(p) /\ G(q)
    <3>1. h[p] = O(p) /\ O(p).seg # e.seg /\ O(p).seg \in 1..n /\ O(q).seg = e.seg
      BY <1>3, <2>3
    <3>2. h[q].seg \in {n + 1, e.seg}
      BY <1>2, <1>3, <2>3
    <3>3. ~\A i \in 1..O(p).ld : p[i] = q[i]
      BY <1>6, <3>1
    <3>4. QED
      BY <1>2, <3>1, <3>2, <3>3
  <2>4. CASE ~G(p) /\ ~G(q)
    <3>1. h[p] = O(p) /\ h[q] = O(q)
      BY <1>3, <2>4
    <3>2. QED
      BY <1>6, <1>7, <3>1
  <2>5. QED
    BY <2>1, <2>2, <2>3, <2>4
<1>9. QED
  BY <1>1, <1>2, <1>4, <1>5, <1>8 DEF Directed

\* Its segments are in order, if the two halves are.
LEMMA HalvedOrdered ==
    ASSUME NEW g2, NEW g, NEW d, NEW n, NEW num, NEW e, NEW up, NEW lo,
           Halving(g2, g, d, n, num, e, up, lo),
           NEW ss, NEW K, SegmentsOrdered(g, d, ss, K),
           NEW tt, \A m \in 1..n : m # e.seg => tt[m] = ss[m],
           Ordered(lo, tt[e.seg]), \A k \in K : Once(lo, tt[e.seg], k),
           Ordered(up, tt[n + 1]), \A k \in K : Once(up, tt[n + 1], k)
    PROVE  SegmentsOrdered(g2, Halved(g2, g, d, num, e, up, lo), tt, K)
<1>1. PICK h : h = Halved(g2, g, d, num, e, up, lo)
  OBVIOUS
<1>2. ASSUME NEW p \in BitString(g2)
      PROVE  Ordered(h[p], tt[h[p].seg]) /\ \A k \in K : Once(h[p], tt[h[p].seg], k)
  <2>1. PICK o : o = Prefix(p, g)
    OBVIOUS
  <2>2. h[p] = up \/ h[p] = lo \/ (o \in BitString(g) /\ h[p] = d[o] /\ d[o].seg \in 1..n /\ d[o].seg # e.seg)
    BY <1>1, <2>1, HalvedEntry
  <2>3. up.seg = n + 1 /\ lo.seg = e.seg
    BY DEF Halving
  <2>4. CASE o \in BitString(g) /\ h[p] = d[o] /\ d[o].seg \in 1..n /\ d[o].seg # e.seg
    BY <2>4 DEF SegmentsOrdered
  <2>5. QED
    BY <2>2, <2>3, <2>4
<1>3. QED
  BY <1>1, <1>2 DEF SegmentsOrdered

\* Both halves of a segment in order are, and have no sub-key it has not, nor
\* one twice that it has not twice.
LEMMA HalvesKeep ==
    ASSUME NEW e \in SegmentNode, NEW s \in Segment, Ordered(e, s), NEW newOff \in Region,
           NEW lo \in SegmentNode, lo.ld = e.ld + 1, lo.off = (e.off + 1) % 3,
           NEW up \in SegmentNode, up.ld = e.ld + 1, up.off = newOff
    PROVE  LET low == LowerHalf(s, e.off, e.ld)
               high == UpperHalf(s, e.off, newOff, e.ld)
           IN  /\ low \in Segment /\ Ordered(lo, low) /\ high \in Segment /\ Ordered(up, high)
               /\ \A k : Once(e, s, k) => Once(lo, low, k) /\ Once(up, high, k)
               /\ \A k : HasKey(lo, low, k) \/ HasKey(up, high, k) => HasKey(e, s, k)
<1>1. PICK low, high : low = LowerHalf(s, e.off, e.ld) /\ high = UpperHalf(s, e.off, newOff, e.ld)
  OBVIOUS
<1>2. PICK copied : HalfOf(e, s, s, lo, low, 0) /\ HalfOf(e, s, copied, up, high, 1)
  BY <1>1, Halves
<1>3. low \in Segment /\ high \in Segment
  BY <1>1, HalvesType DEF SegmentNode
<1>4. Ordered(lo, low) /\ Ordered(up, high)
  BY <1>2, HalfOrdered
<1>5. \A k : Once(e, s, k) => Once(lo, low, k) /\ Once(up, high, k)
  BY <1>2, HalfOnce
<1>6. ASSUME NEW base, NEW eh, NEW sh, NEW h, HalfOf(e, s, base, eh, sh, h), NEW k, HasKey(eh, sh, k)
      PROVE  HasKey(e, s, k)
  <2>1. PICK a \in Addr, c \in 1..Slots : LiveIn(eh, sh, a, c) /\ sh[a][c].key = k
    BY <1>6 DEF HasKey
  <2>2. PICK b \in Addr, j \in 1..Slots : LiveIn(e, s, b, j) /\ s[b][j].key = sh[a][c].key
    BY <1>6, <2>1, HalfOrigin
  <2>3. QED
    BY <2>1, <2>2 DEF HasKey
<1>7. \A k : HasKey(lo, low, k) \/ HasKey(up, high, k) => HasKey(e, s, k)
  BY <1>2, <1>6
<1>8. QED
  BY <1>1, <1>3, <1>4, <1>5, <1>7
=============================================================================
