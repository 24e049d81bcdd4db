------------------------- MODULE WRERTNodeMapProofs -------------------------
(***************************************************************************)
(* A WRERT node is a map: the invariant that makes every insert, through   *)
(* splits and growths of the directory, visible at once, exactly once and  *)
(* to the lookups of its sub-key only, and the theorems that follow.       *)
(***************************************************************************)
EXTENDS WRERTSegmentProofs

-----------------------------------------------------------------------------
(* The inductive invariant.                                                *)

\* The segment an entry points at, and what the index binds to sub-key k.
Seg(e) == segs[e.seg]
Bound(k, v) == Binds(EntryOf(k), Seg(EntryOf(k)), k, v)
Present(k) == HasKey(EntryOf(k), Seg(EntryOf(k)), k)

\* Every segment in use is in order.
SegmentsInv == \A p \in DOMAIN dir : SegInv(dir[p], segs[dir[p].seg])

\* What counts in a segment is looked up there.
KeysAtHome ==
    \A p \in DOMAIN dir : \A a \in Addr, j \in 1..Slots :
        LiveIn(dir[p], segs[dir[p].seg], a, j) => EntryOf(segs[dir[p].seg][a][j].key) = dir[p]

\* Nothing valid, live or stale, is of a sub-key the index does not have.
ValidPresent ==
    \A n \in 1..Len(segs) : \A a \in Addr, j \in 1..Slots :
        segs[n][a][j].valid => Present(segs[n][a][j].key)

\* The sub-key an insert puts after a split is still to be written, and its
\* segment is one a split has made.
RetryAbsent ==
    op.pc = "retry" => EntryOf(op.key).ld >= 1 /\ ~Present(op.key)

\* Bucket numbers of the deepest segment are bits the sub-key has.
DepthInv == gd + M <= W

MapInv == DepthInv /\ SegmentsInv /\ KeysAtHome /\ ValidPresent /\ RetryAbsent

NodeInv == TypeOK /\ DirInv /\ MapInv

-----------------------------------------------------------------------------
(* Consequences of the invariant.                                          *)

\* A sub-key is present exactly when a value is bound to it.
LEMMA PresentBound ==
    ASSUME NEW k
    PROVE  Present(k) <=> \E v : Bound(k, v)
BY DEF Present, Bound, HasKey, Binds

\* The segment of a sub-key is in order and no deeper than the directory, and
\* it is the segment of just the sub-keys with its leading bits.
LEMMA EntryFacts ==
    ASSUME NodeInv, NEW k \in BitString(W)
    PROVE  /\ EntryOf(k) \in SegmentNode /\ EntryOf(k).seg \in 1..Len(segs)
           /\ Seg(EntryOf(k)) \in Segment
           /\ SegInv(EntryOf(k), Seg(EntryOf(k)))
           /\ EntryOf(k).ld \in Nat /\ EntryOf(k).ld <= gd /\ EntryOf(k).ld + M <= W
           /\ \E p \in DOMAIN dir : dir[p] = EntryOf(k)
           /\ \A p \in DOMAIN dir : dir[p].seg = EntryOf(k).seg => dir[p] = EntryOf(k)
           /\ \A l \in BitString(W) : EntryOf(l).seg = EntryOf(k).seg =>
                 \A i \in 1..EntryOf(k).ld : l[i] = k[i]
           /\ \A a \in Addr, j \in 1..Slots :
                 LiveIn(EntryOf(k), Seg(EntryOf(k)), a, j) =>
                    EntryOf(Seg(EntryOf(k))[a][j].key) = EntryOf(k)
<1>1. PICK p : p = SegmentNumber(k, gd)
  OBVIOUS
<1>2. p \in DOMAIN dir /\ EntryOf(k) = dir[p] /\ segs[dir[p].seg] \in Segment
  BY <1>1, EntryType DEF NodeInv, EntryOf
<1>3. /\ dir[p] \in SegmentNode /\ dir[p].ld \in Nat /\ dir[p].seg \in 1..Len(segs)
      /\ dir[p].ld <= gd /\ gd \in Nat
  BY <1>2, EntryType DEF NodeInv, DirInv, TypeOK, SegmentNode
<1>4. dir[p].ld + M <= W
  BY <1>3, BitsAssumption DEF NodeInv, MapInv, DepthInv
<1>5. SegInv(dir[p], segs[dir[p].seg])
  BY <1>2 DEF NodeInv, MapInv, SegmentsInv
<1>6. \A q \in DOMAIN dir : dir[q].seg = dir[p].seg => dir[q] = dir[p]
  BY <1>2 DEF NodeInv, DirInv, DirectoryAligned
<1>7. ASSUME NEW l \in BitString(W), EntryOf(l).seg = dir[p].seg, NEW i \in 1..dir[p].ld
      PROVE  l[i] = k[i]
  <2>1. PICK q \in DOMAIN dir : q = SegmentNumber(l, gd) /\ dir[q].seg = dir[p].seg
    BY <1>7, EntryType DEF NodeInv, EntryOf
  <2>2. p[i] = q[i]
    BY <1>2, <2>1 DEF NodeInv, DirInv, DirectoryAligned
  <2>3. i \in 1..gd /\ 0 + i = i /\ i <= W
    BY <1>3, <1>4, BitsAssumption
  <2>4. QED
    BY <1>1, <2>1, <2>2, <2>3 DEF SegmentNumber, Slice
<1>8. \A a \in Addr, j \in 1..Slots :
         LiveIn(dir[p], segs[dir[p].seg], a, j) => EntryOf(segs[dir[p].seg][a][j].key) = dir[p]
  BY <1>2 DEF NodeInv, MapInv, KeysAtHome
<1>9. QED
  BY <1>2, <1>3, <1>4, <1>5, <1>6, <1>7, <1>8 DEF Seg

\* A lookup returns the value bound to the sub-key, or None.
LEMMA GetExact ==
    ASSUME NodeInv, NEW k \in BitString(W)
    PROVE  /\ \A v : Bound(k, v) => GetSegNode(k) = v /\ v \in Values
           /\ ~Present(k) => GetSegNode(k) = None
<1>1. PICK e, s : e = EntryOf(k) /\ s = Seg(EntryOf(k))
  OBVIOUS
<1>2. e \in SegmentNode /\ SegInv(e, s)
  BY <1>1, EntryFacts
<1>3. GetSegNode(k) = Lookup(e, s, k)
  BY <1>1 DEF GetSegNode, Lookup, Seg
<1>4. QED
  BY <1>1, <1>2, <1>3, LookupExact DEF Bound, Present

\* A sub-key is found exactly where it counts.
LEMMA FoundExact ==
    ASSUME NodeInv, NEW k \in BitString(W)
    PROVE  /\ \A at \in Found(k) : /\ LiveIn(EntryOf(k), Seg(EntryOf(k)), at[1], at[2])
                                   /\ Seg(EntryOf(k))[at[1]][at[2]].key = k
           /\ Found(k) = {} => ~Present(k)
<1>1. PICK e, s : e = EntryOf(k) /\ s = Seg(EntryOf(k))
  OBVIOUS
<1>2. e \in SegmentNode /\ SegInv(e, s)
  BY <1>1, EntryFacts
<1> DEFINE sh == SharedAddr(k, e)
           mn == MainAddr(k, e)
           InBucket(a) == {a} \X Hits(s[a], Expected(e, a[1]), k)
<1>3. /\ sh \in Addr /\ mn \in Addr
      /\ Expected(e, sh[1]) = SharedVersion(e) /\ Expected(e, mn[1]) = MainVersion(e)
  BY <1>2, TwoBuckets
<1>4. Found(k) = IF InBucket(sh) # {} THEN InBucket(sh) ELSE InBucket(mn)
  BY <1>1, <1>3 DEF Found, Seg
<1>5. ASSUME NEW a \in Addr, NEW at \in InBucket(a)
      PROVE  LiveIn(e, s, at[1], at[2]) /\ s[at[1]][at[2]].key = k
  <2>1. at[1] = a /\ at[2] \in Hits(s[a], Expected(e, a[1]), k) /\ at[2] \in 1..Slots
    BY DEF Hits
  <2>2. QED
    BY <1>2, <2>1, HitsExact
<1>6. ASSUME HasKey(e, s, k) PROVE Found(k) # {}
  <2>1. PICK a \in Addr, j \in 1..Slots : LiveIn(e, s, a, j) /\ s[a][j].key = k
    BY <1>6 DEF HasKey
  <2>2. a \in {sh, mn}
    BY <1>2, <2>1 DEF SegInv, Ordered, InPlace
  <2>3. <<a, j>> \in InBucket(a)
    BY <1>2, <2>1, HitsExact
  <2>4. QED
    BY <1>4, <2>2, <2>3
<1> HIDE DEF InBucket
<1>7. QED
  BY <1>1, <1>3, <1>4, <1>5, <1>6 DEF Present

\* A pending insert of a sub-key not found is of a sub-key the index does not
\* have; the slot it may overwrite is the first of a bucket of that sub-key
\* that does not count; and if there is none, there are bits left to split on:
\* a full main bucket cannot hold sub-keys that agree on all of them.
LEMMA FreeFacts ==
    ASSUME NodeInv, Absent
    PROVE  LET k == op.key
               e == EntryOf(k)
           IN  /\ k \in BitString(W) /\ op.val \in Values
               /\ ~Present(k)
               /\ \A at \in Free(k) : /\ at[1] \in {SharedAddr(k, e), MainAddr(k, e)}
                                      /\ at[1] \in Addr /\ at[2] \in 1..Slots
                                      /\ at[2] \in FirstDead(Seg(e)[at[1]], Expected(e, at[1][1]))
               /\ Free(k) = {} => e.ld + M < W
<1>1. PICK k : k = op.key
  OBVIOUS
<1>2. op.pc \in {"insert", "retry"} /\ k \in BitString(W) /\ op.val \in Values
  <2>1. op.pc # "idle"
    BY DEF Absent
  <2>2. QED
    BY <1>1, <2>1, PendingType DEF NodeInv
<1>3. PICK e, s : e = EntryOf(k) /\ s = Seg(EntryOf(k))
  OBVIOUS
<1>4. e \in SegmentNode /\ SegInv(e, s) /\ e.ld \in Nat /\ e.ld + M <= W
  BY <1>2, <1>3, EntryFacts
<1>5. ~Present(k)
  BY <1>1, <1>2, FoundExact DEF Absent, NodeInv, MapInv, RetryAbsent
<1>6. op.pc # "insert" => e.ld >= 1
  BY <1>1, <1>2, <1>3 DEF NodeInv, MapInv, RetryAbsent
<1> DEFINE sh == SharedAddr(k, e)
           mn == MainAddr(k, e)
           FreeOf(a) == FreeIn(s[a], Expected(e, a[1]))
<1>7. /\ sh \in Addr /\ mn \in Addr /\ mn[1] # e.off
      /\ Expected(e, sh[1]) = SharedVersion(e) /\ Expected(e, mn[1]) = MainVersion(e)
  BY <1>2, <1>4, TwoBuckets
<1>8. Free(k) = IF {sh} \X FreeOf(sh) # {} THEN {sh} \X FreeOf(sh) ELSE {mn} \X FreeOf(mn)
  BY <1>3, <1>7 DEF Free, Seg
<1>9. ASSUME NEW a \in Addr, NEW j \in FreeOf(a)
      PROVE  j \in 1..Slots /\ j \in FirstDead(s[a], Expected(e, a[1]))
  <2>1. j \in FirstDead(s[a], Expected(e, a[1]))
    <3>1. CASE op.pc = "insert"
      BY <3>1 DEF FreeIn
    <3>2. CASE op.pc # "insert"
      BY <1>4, <1>6, <3>2, FreeIsFirstDead DEF FreeIn, SegInv
    <3>3. QED
      BY <3>1, <3>2
  <2>2. QED
    BY <2>1 DEF FirstDead
<1>10. ASSUME NEW at \in Free(k)
       PROVE  /\ at[1] \in {sh, mn} /\ at[1] \in Addr /\ at[2] \in 1..Slots
              /\ at[2] \in FirstDead(s[at[1]], Expected(e, at[1][1]))
  <2>1. PICK a \in {sh, mn} : at \in {a} \X FreeOf(a)
    <3>1. CASE {sh} \X FreeOf(sh) # {}
      BY ONLY <1>8, <1>10, <3>1
    <3>2. CASE {sh} \X FreeOf(sh) = {}
      BY ONLY <1>8, <1>10, <3>2
    <3>3. QED
      BY <3>1, <3>2
  <2>2. at[1] = a /\ at[2] \in FreeOf(a) /\ a \in Addr
    BY <1>7, <2>1
  <2>3. at[2] \in 1..Slots /\ at[2] \in FirstDead(s[a], Expected(e, a[1]))
    BY ONLY <1>9, <2>2
  <2>4. QED
    BY ONLY <2>2, <2>3
<1>11. ASSUME Free(k) = {} PROVE e.ld + M < W
  <2>1. FreeOf(mn) = {}
    <3>1. {mn} \X FreeOf(mn) = {}
      BY ONLY <1>8, <1>11
    <3>2. \A j \in FreeOf(mn) : <<mn, j>> \in {mn} \X FreeOf(mn)
      OBVIOUS
    <3>3. QED
      BY <3>1, <3>2
  <2>2. \/ FirstDead(s[mn], Expected(e, mn[1])) = {}
        \/ e.ld >= 1 /\ FirstOther(s[mn], Expected(e, mn[1])) = {}
    BY <1>6, <2>1 DEF FreeIn
  <2>3. LiveIn(e, s, mn, 1)
    <3>1. \A j \in 1..Slots : LiveIn(e, s, mn, j)
      BY <1>4, <1>7, <2>2, NoneFreeIsFull
    <3>2. 1 \in 1..Slots
      BY NodeAssumption
    <3>3. QED
      BY <3>1, <3>2
  <2>4. PICK l : l = s[mn][1].key
    OBVIOUS
  <2>5. l \in BitString(W)
    <3>1. s \in Segment /\ 1 \in 1..Slots
      BY <1>2, <1>3, EntryFacts, NodeAssumption
    <3>2. QED
      BY <1>7, <2>4, <3>1 DEF Segment, Bucket, Slot
  <2>6. l # k
    <3>1. 1 \in 1..Slots
      BY NodeAssumption
    <3>2. QED
      BY <1>3, <1>5, <1>7, <2>3, <2>4, <3>1 DEF Present, HasKey
  <2>7. \A i \in 1..e.ld : l[i] = k[i]
    <3>1. EntryOf(l) = e
      BY <1>2, <1>3, <1>7, <2>3, <2>4, EntryFacts, NodeAssumption
    <3>2. QED
      BY <1>2, <1>3, <2>5, <3>1, EntryFacts
  <2>8. MainIndex(l, e.ld) = MainIndex(k, e.ld)
    <3>1. mn = MainAddr(l, e)
      <4>1. mn \in {SharedAddr(l, e), MainAddr(l, e)} /\ 1 \in 1..Slots
        BY <1>4, <1>7, <2>3, <2>4, NodeAssumption DEF SegInv, Ordered, InPlace
      <4>2. SharedAddr(l, e)[1] = e.off
        BY DEF SharedAddr
      <4>3. QED
        BY <1>7, <4>1, <4>2
    <3>2. MainIndex(l, e.ld) \in BitString(M) /\ MainIndex(k, e.ld) \in BitString(M) /\ e.off \in Region
      BY <1>2, <1>4, <2>5, IndexTypes DEF SegmentNode
    <3>3. QED
      BY <3>1, <3>2, BucketPlaces DEF MainAddr
  <2>9. \A i \in 1..M : e.ld + i <= W => l[e.ld + i] = k[e.ld + i]
    <3>1. ASSUME NEW i \in 1..M, e.ld + i <= W PROVE l[e.ld + i] = k[e.ld + i]
      <4>1. MainIndex(l, e.ld)[i] = l[e.ld + i] /\ MainIndex(k, e.ld)[i] = k[e.ld + i]
        BY <3>1 DEF MainIndex, Slice
      <4>2. QED
        BY <2>8, <4>1
    <3>2. QED
      BY <3>1
  <2>10. ASSUME e.ld + M = W PROVE FALSE
    <3>1. ASSUME NEW i \in 1..W PROVE l[i] = k[i]
      <4>1. CASE i <= e.ld
        BY <1>4, <2>7, <4>1, BitsAssumption
      <4>2. CASE i > e.ld
        <5>1. i - e.ld \in 1..M /\ e.ld + (i - e.ld) = i /\ i <= W
          BY <1>4, <2>10, <4>2, BitsAssumption
        <5>2. QED
          BY <2>9, <5>1
      <4>3. QED
        BY <1>4, <4>1, <4>2, BitsAssumption
    <3>2. l = [i \in 1..W |-> l[i]] /\ k = [i \in 1..W |-> k[i]]
      BY <1>2, <2>5 DEF BitString
    <3>3. QED
      BY <2>6, <3>1, <3>2
  <2>11. QED
    BY <1>4, <2>10, BitsAssumption
<1> HIDE DEF FreeOf
<1>12. QED
  BY <1>1, <1>2, <1>3, <1>5, <1>10, <1>11

-----------------------------------------------------------------------------
(* Steps that write a slot.                                                *)

\* Writing the pending sub-key to a place for it keeps the invariant and binds
\* that sub-key to its value, disturbing no other.
LEMMA PutStep ==
    ASSUME NodeInv, op.key \in BitString(W), op.val \in Values,
           NEW e, e = EntryOf(op.key), NEW s, s = segs[e.seg],
           NEW a \in Addr, NEW j \in 1..Slots, PlaceFor(e, s, op.key, a, j),
           NEW slot, slot.valid, slot.ver = Expected(e, a[1]), slot.key = op.key, slot.val = op.val,
           segs' = [segs EXCEPT ![e.seg] = [s EXCEPT ![a] = [@ EXCEPT ![j] = slot]]],
           gd' = gd, dir' = dir, op' = IdleOp
    PROVE  /\ MapInv'
           /\ \A k \in BitString(W) : \A v :
                 Bound(k, v)' <=> IF k = op.key THEN v = op.val ELSE Bound(k, v)
<1>1. PICK k0, v0 : k0 = op.key /\ v0 = op.val
  OBVIOUS
<1>2. PICK t : t = [s EXCEPT ![a] = [@ EXCEPT ![j] = slot]]
  OBVIOUS
<1>3. /\ e \in SegmentNode /\ e.seg \in 1..Len(segs) /\ s \in Segment /\ SegInv(e, s)
      /\ \A p \in DOMAIN dir : dir[p].seg = e.seg => dir[p] = e
  BY EntryFacts DEF Seg
<1>4. /\ SegInv(e, t)
      /\ \A l, u : Binds(e, t, l, u) <=> IF l = k0 THEN u = v0 ELSE Binds(e, s, l, u)
      /\ \A b \in Addr, i \in 1..Slots :
            t[b][i].valid => t[b][i].key = k0 \/ (s[b][i].valid /\ s[b][i].key = t[b][i].key)
  <2>1. /\ a \in Addr /\ j \in 1..Slots /\ v0 \in Values /\ PlaceFor(e, s, k0, a, j)
        /\ SlotFor(e, a, k0, v0, slot) /\ Stores(t, s, a, j, slot)
    BY <1>1, <1>2 DEF SlotFor, Stores
  <2>2. QED
    BY ONLY <1>3, <2>1, PutSlot
<1>5. /\ Len(segs') = Len(segs)
      /\ \A n \in 1..Len(segs) : segs'[n] = IF n = e.seg THEN t ELSE segs[n]
  <2>1. segs' = [segs EXCEPT ![e.seg] = t] /\ segs \in Seq(Segment)
    BY <1>2 DEF NodeInv, TypeOK
  <2>2. QED
    BY <1>3, <2>1
<1>6. \A k : EntryOf(k)' = EntryOf(k)
  BY DEF EntryOf
<1>7. ASSUME NEW k \in BitString(W), NEW v
      PROVE  Bound(k, v)' <=> IF k = k0 THEN v = v0 ELSE Bound(k, v)
  <2>1. PICK f : f = EntryOf(k) /\ f = EntryOf(k)'
    BY <1>6
  <2>2. Bound(k, v) = Binds(f, segs[f.seg], k, v) /\ Bound(k, v)' = Binds(f, segs'[f.seg], k, v)
    BY <2>1 DEF Bound, Seg
  <2>3. f.seg \in 1..Len(segs)
    BY <2>1, EntryFacts
  <2>4. CASE f.seg = e.seg
    <3>1. PICK p \in DOMAIN dir : dir[p] = f
      BY <2>1, EntryFacts
    <3>2. f = e
      BY <1>3, <2>4, <3>1
    <3>3. segs'[f.seg] = t /\ segs[f.seg] = s
      BY <1>3, <1>5, <2>4 DEF Seg
    <3>4. QED
      BY ONLY <1>4, <2>2, <3>2, <3>3
  <2>5. CASE f.seg # e.seg
    <3>1. k # k0
      BY <1>1, <2>1, <2>5
    <3>2. QED
      BY <1>5, <2>2, <2>3, <2>5, <3>1
  <2>6. QED
    BY <2>4, <2>5
<1>8. \A k \in BitString(W) : Present(k) => Present(k)'
  <2>1. ASSUME NEW k \in BitString(W), Present(k) PROVE Present(k)'
    <3>1. \E v : Bound(k, v)'
      BY <1>7, <2>1, PresentBound
    <3>2. QED
      BY <3>1 DEF Present, Bound, HasKey, Binds
  <2>2. QED
    BY <2>1
<1>9. SegmentsInv'
  <2>1. ASSUME NEW p \in DOMAIN dir PROVE SegInv(dir[p], segs'[dir[p].seg])
    <3>1. dir[p].seg \in 1..Len(segs) /\ SegInv(dir[p], segs[dir[p].seg])
      BY DEF NodeInv, TypeOK, MapInv, SegmentsInv
    <3>2. CASE dir[p].seg = e.seg
      BY ONLY <1>3, <1>4, <1>5, <3>2
    <3>3. CASE dir[p].seg # e.seg
      BY ONLY <1>5, <3>1, <3>3
    <3>4. QED
      BY <3>2, <3>3
  <2>2. QED
    BY <2>1 DEF SegmentsInv
<1>10. KeysAtHome'
  <2>1. ASSUME NEW p \in DOMAIN dir, NEW b \in Addr, NEW i \in 1..Slots,
               LiveIn(dir[p], segs'[dir[p].seg], b, i)
        PROVE  EntryOf(segs'[dir[p].seg][b][i].key) = dir[p]
    <3>1. dir[p].seg \in 1..Len(segs)
      BY DEF NodeInv, TypeOK
    <3>2. CASE dir[p].seg # e.seg
      BY <1>5, <2>1, <3>1, <3>2 DEF NodeInv, MapInv, KeysAtHome
    <3>3. CASE dir[p].seg = e.seg
      <4>1. dir[p] = e /\ segs'[dir[p].seg] = t
        BY <1>3, <1>5, <3>3
      <4>2. PICK l, u : l = t[b][i].key /\ u = t[b][i].val
        OBVIOUS
      <4>3. Binds(e, t, l, u)
        BY <2>1, <4>1, <4>2 DEF Binds
      <4>4. CASE l = k0
        BY <1>1, <4>1, <4>2, <4>4
      <4>5. CASE l # k0
        <5>1. Binds(e, s, l, u)
          BY <1>4, <4>3, <4>5
        <5>2. PICK c \in Addr, n \in 1..Slots : LiveIn(e, s, c, n) /\ s[c][n].key = l
          BY <5>1 DEF Binds
        <5>3. EntryOf(l) = e
          BY <1>3, <5>2, EntryFacts DEF Seg
        <5>4. QED
          BY <4>1, <4>2, <5>3
      <4>6. QED
        BY <4>4, <4>5
    <3>4. QED
      BY <3>2, <3>3
  <2>2. \A p \in DOMAIN dir : \A b \in Addr, i \in 1..Slots :
           LiveIn(dir[p], segs'[dir[p].seg], b, i) =>
              dir[SegmentNumber(segs'[dir[p].seg][b][i].key, gd)] = dir[p]
    BY ONLY <2>1 DEF EntryOf
  <2>3. dir' = dir /\ gd' = gd
    OBVIOUS
  <2>4. QED
    BY ONLY <2>2, <2>3 DEF KeysAtHome, EntryOf
<1>11. ValidPresent'
  <2>1. ASSUME NEW n \in 1..Len(segs), NEW b \in Addr, NEW i \in 1..Slots, segs'[n][b][i].valid
        PROVE  Present(segs[n][b][i].key)'
    <3>1. PICK l : l = segs'[n][b][i].key
      OBVIOUS
    <3>2. Present(k0)'
      <4>1. Bound(k0, v0)'
        BY <1>1, <1>7
      <4>2. QED
        BY <4>1 DEF Present, Bound, HasKey, Binds
    <3>3. l = k0 \/ (segs[n][b][i].valid /\ segs[n][b][i].key = l)
      <4>1. CASE n = e.seg
        <5>1. t[b][i].valid /\ t[b][i].key = l
          BY ONLY <1>5, <2>1, <3>1, <4>1
        <5>2. s = segs[n]
          BY <4>1
        <5>3. QED
          BY ONLY <1>4, <5>1, <5>2
      <4>2. CASE n # e.seg
        BY ONLY <1>5, <2>1, <3>1, <4>2
      <4>3. QED
        BY <4>1, <4>2
    <3>4. CASE segs[n][b][i].valid /\ segs[n][b][i].key = l
      <4>1. segs[n] \in Segment
        BY ElementOfSeq DEF NodeInv, TypeOK
      <4>2. l \in BitString(W)
        BY <3>4, <4>1 DEF Segment, Bucket, Slot
      <4>3. Present(l)
        BY <3>4 DEF NodeInv, MapInv, ValidPresent
      <4>4. Present(l)'
        BY <1>8, <4>2, <4>3
      <4>5. QED
        BY <3>1, <4>4
    <3>5. QED
      BY <3>1, <3>2, <3>3, <3>4
  <2>2. QED
    BY <1>5, <2>1 DEF ValidPresent
<1>12. DepthInv' /\ RetryAbsent'
  BY DEF NodeInv, MapInv, DepthInv, RetryAbsent, IdleOp
<1>13. QED
  BY <1>1, <1>7, <1>9, <1>10, <1>11, <1>12 DEF MapInv

\* What an insert that writes does to the node: its sub-key is bound to its
\* value, no other sub-key is disturbed.
LEMMA UpdateBinds ==
    NodeInv /\ Update =>
        /\ MapInv'
        /\ \A k \in BitString(W) : \A v :
              Bound(k, v)' <=> IF k = op.key THEN v = op.val ELSE Bound(k, v)
<1> SUFFICES ASSUME NodeInv, Update
             PROVE  /\ MapInv'
                    /\ \A k \in BitString(W) : \A v :
                          Bound(k, v)' <=> IF k = op.key THEN v = op.val ELSE Bound(k, v)
  OBVIOUS
<1>1. op.key \in BitString(W) /\ op.val \in Values
  BY PendingType DEF Update, NodeInv
<1>2. PICK e, s : e = EntryOf(op.key) /\ s = segs[e.seg]
  OBVIOUS
<1>3. e \in SegmentNode /\ e.seg \in 1..Len(segs) /\ s \in Segment /\ SegInv(e, s)
  BY <1>1, <1>2, EntryFacts DEF Seg
<1>4. PICK at \in Found(op.key) : segs' = [segs EXCEPT ![e.seg][at[1]][at[2]].val = op.val]
  BY <1>2 DEF Update
<1>5. PICK a, j : a = at[1] /\ j = at[2]
  OBVIOUS
<1>6. a \in Addr /\ j \in 1..Slots
  BY <1>1, <1>4, <1>5, SlotChoice DEF NodeInv
<1>7. LiveIn(e, s, a, j) /\ s[a][j].key = op.key
  BY <1>1, <1>2, <1>4, <1>5, FoundExact DEF Seg
<1>8. PICK slot : slot = [s[a][j] EXCEPT !.val = op.val]
  OBVIOUS
<1>9. slot.valid /\ slot.ver = Expected(e, a[1]) /\ slot.key = op.key /\ slot.val = op.val
  <2>1. PICK y : y = s[a][j]
    OBVIOUS
  <2>2. y \in Slot /\ y.valid /\ y.ver = Expected(e, a[1]) /\ y.key = op.key
    BY <1>3, <1>6, <1>7, <2>1 DEF Segment, Bucket, LiveIn, Live
  <2>3. slot = [y EXCEPT !.val = op.val]
    BY <1>8, <2>1
  <2>4. QED
    BY ONLY <2>2, <2>3 DEF Slot
<1>10. PlaceFor(e, s, op.key, a, j)
  <2>1. a \in {SharedAddr(op.key, e), MainAddr(op.key, e)}
    BY <1>3, <1>6, <1>7 DEF SegInv, Ordered, InPlace
  <2>2. \A i \in 1..(j-1) : i \in 1..j
    BY <1>6, NodeAssumption
  <2>3. QED
    BY <1>3, <1>6, <1>7, <2>1, <2>2 DEF PlaceFor, SegInv, Ordered, LiveFirst, NoTwo
<1>11. segs' = [segs EXCEPT ![e.seg] = [s EXCEPT ![a] = [@ EXCEPT ![j] = slot]]]
  BY <1>2, <1>4, <1>5, <1>8
<1>12. gd' = gd /\ dir' = dir /\ op' = IdleOp
  BY DEF Update
<1>13. QED
  BY <1>1, <1>2, <1>6, <1>9, <1>10, <1>11, <1>12, PutStep

\* The slot that put is given for an absent sub-key never holds that sub-key
\* already, live or stale: the whole slot is written, with the version that
\* makes it count.
LEMMA WriteBinds ==
    NodeInv /\ Write =>
        /\ MapInv'
        /\ \A k \in BitString(W) : \A v :
              Bound(k, v)' <=> IF k = op.key THEN v = op.val ELSE Bound(k, v)
<1> SUFFICES ASSUME NodeInv, Write
             PROVE  /\ MapInv'
                    /\ \A k \in BitString(W) : \A v :
                          Bound(k, v)' <=> IF k = op.key THEN v = op.val ELSE Bound(k, v)
  OBVIOUS
<1>1. Absent
  BY DEF Write
<1>2. op.key \in BitString(W) /\ op.val \in Values /\ ~Present(op.key)
  BY <1>1, FreeFacts
<1>3. PICK e, s : e = EntryOf(op.key) /\ s = segs[e.seg]
  OBVIOUS
<1>4. e \in SegmentNode /\ e.seg \in 1..Len(segs) /\ s \in Segment /\ SegInv(e, s)
  BY <1>2, <1>3, EntryFacts DEF Seg
<1>5. PICK at \in Free(op.key) :
         segs' = [segs EXCEPT ![e.seg][at[1]][at[2]] = WriteSlot(@, Expected(e, at[1][1]))]
  BY <1>3 DEF Write
<1>6. PICK a, j : a = at[1] /\ j = at[2]
  OBVIOUS
<1>7. /\ a \in {SharedAddr(op.key, e), MainAddr(op.key, e)}
      /\ a \in Addr /\ j \in 1..Slots /\ j \in FirstDead(s[a], Expected(e, a[1]))
  BY <1>1, <1>3, <1>5, <1>6, FreeFacts DEF Seg
<1>8. ~LiveIn(e, s, a, j) /\ \A i \in 1..(j-1) : LiveIn(e, s, a, i)
  BY <1>7 DEF FirstDead, LiveIn
<1>9. ~(s[a][j].key = op.key /\ s[a][j].valid)
  BY <1>2, <1>3, <1>4, <1>7 DEF NodeInv, MapInv, ValidPresent
<1>10. PICK slot : slot = [valid |-> TRUE, ver |-> Expected(e, a[1]), key |-> op.key, val |-> op.val]
  OBVIOUS
<1>11. WriteSlot(s[a][j], Expected(e, a[1])) = slot
  BY <1>9, <1>10 DEF WriteSlot
<1>12. PlaceFor(e, s, op.key, a, j)
  BY <1>2, <1>3, <1>7, <1>8 DEF PlaceFor, Present, HasKey, Seg
<1>13. segs' = [segs EXCEPT ![e.seg] = [s EXCEPT ![a] = [@ EXCEPT ![j] = slot]]]
  BY <1>3, <1>5, <1>6, <1>11
<1>14. gd' = gd /\ dir' = dir /\ op' = IdleOp
  BY DEF Write
<1>15. slot.valid /\ slot.ver = Expected(e, a[1]) /\ slot.key = op.key /\ slot.val = op.val
  BY <1>10
<1>16. QED
  BY <1>2, <1>3, <1>7, <1>12, <1>13, <1>14, <1>15, PutStep

-----------------------------------------------------------------------------
(* Steps that divide a segment.                                            *)

\* Both halves a split makes of a segment are halves of it.
LEMMA SplitHalves ==
    ASSUME TypeOK, NEW e \in SegmentNode, e.seg \in 1..Len(segs), NEW s, s = segs[e.seg],
           SegInv(e, s), NEW newOff \in Region
    PROVE  /\ HalfOf(e, s, s, LowerEntry(e), LowerHalf(s, e.off, e.ld), 0)
           /\ \E copied : HalfOf(e, s, copied, UpperEntry(e, newOff), UpperHalf(s, e.off, newOff, e.ld), 1)
<1>1. s \in Segment /\ Ordered(e, s)
  BY ElementOfSeq DEF TypeOK, SegInv
<1>2. LowerEntry(e) \in SegmentNode /\ UpperEntry(e, newOff) \in SegmentNode
  BY SplitEntryType
<1>3. /\ LowerEntry(e).ld = e.ld + 1 /\ LowerEntry(e).off = (e.off + 1) % 3
      /\ UpperEntry(e, newOff).ld = e.ld + 1 /\ UpperEntry(e, newOff).off = newOff
  BY DEF LowerEntry, UpperEntry
<1>4. QED
  BY <1>1, <1>2, <1>3, Halves

\* The segment of entry e is divided: its sub-keys go to the half their next
\* bit names, all others where they went.
Divided(e, newOff) ==
    /\ segs' = SplitSegment(e, newOff)
    /\ \A p \in DOMAIN dir' : \/ dir'[p] \in {LowerEntry(e), UpperEntry(e, newOff)}
                              \/ dir'[p].seg # e.seg /\ \E q \in DOMAIN dir : dir'[p] = dir[q]
    /\ \A k \in BitString(W) :
          EntryOf(k)' = IF EntryOf(k).seg # e.seg THEN EntryOf(k)
                        ELSE IF k[e.ld + 1] = 1 THEN UpperEntry(e, newOff) ELSE LowerEntry(e)

\* Dividing the segment of the pending sub-key keeps the invariant and changes
\* no binding.
LEMMA DivideStep ==
    ASSUME NodeInv, Absent, NEW e, e = EntryOf(op.key), NEW newOff \in Region,
           Divided(e, newOff), op' = [op EXCEPT !.pc = "retry"]
    PROVE  /\ SegmentsInv' /\ KeysAtHome' /\ ValidPresent' /\ RetryAbsent'
           /\ \A k \in BitString(W) : \A v : Bound(k, v)' <=> Bound(k, v)
<1>1. op.key \in BitString(W) /\ ~Present(op.key)
  BY FreeFacts
<1>2. PICK s : s = segs[e.seg]
  OBVIOUS
<1>3. /\ e \in SegmentNode /\ e.seg \in 1..Len(segs) /\ s \in Segment /\ SegInv(e, s)
      /\ e.ld \in Nat /\ e.ld + M <= W
      /\ \A p \in DOMAIN dir : dir[p].seg = e.seg => dir[p] = e
      /\ \A a \in Addr, j \in 1..Slots : LiveIn(e, s, a, j) => EntryOf(s[a][j].key) = e
  BY <1>1, <1>2, EntryFacts DEF Seg
<1>4. PICK lo, up, slo, sup : /\ lo = LowerEntry(e) /\ up = UpperEntry(e, newOff)
                              /\ slo = LowerHalf(s, e.off, e.ld) /\ sup = UpperHalf(s, e.off, newOff, e.ld)
  OBVIOUS
<1>5. PICK copied : HalfOf(e, s, copied, up, sup, 1) /\ HalfOf(e, s, s, lo, slo, 0)
  BY <1>2, <1>3, <1>4, SplitHalves DEF NodeInv
<1>6. /\ lo.seg = e.seg /\ lo.ld = e.ld + 1 /\ up.seg = Len(segs) + 1 /\ up.ld = e.ld + 1
      /\ Len(segs) \in Nat
  BY <1>4, LenProperties DEF LowerEntry, UpperEntry, NodeInv, TypeOK
<1>7. /\ Len(segs') = Len(segs) + 1
      /\ segs'[up.seg] = sup /\ segs'[lo.seg] = slo
      /\ \A n \in 1..Len(segs) : n # e.seg => segs'[n] = segs[n]
  <2>1. PICK t : t = SplitSegment(e, newOff) /\ t = segs'
    BY DEF Divided
  <2>2. /\ Len(t) = Len(segs) + 1
        /\ t[Len(segs) + 1] = UpperHalf(segs[e.seg], e.off, newOff, e.ld)
        /\ \A n \in 1..Len(segs) :
              t[n] = IF n = e.seg THEN LowerHalf(segs[n], e.off, e.ld) ELSE segs[n]
    <3>1. TypeOK
      BY DEF NodeInv
    <3>2. LET u == SplitSegment(e, newOff)
          IN  /\ Len(u) = Len(segs) + 1
              /\ u[Len(segs) + 1] = UpperHalf(segs[e.seg], e.off, newOff, e.ld)
              /\ \A n \in 1..Len(segs) :
                    u[n] = IF n = e.seg THEN LowerHalf(segs[n], e.off, e.ld) ELSE segs[n]
      BY ONLY <1>3, <3>1, SplitSegmentType
    <3>3. QED
      BY ONLY <2>1, <3>2
  <2>3. QED
    BY <1>2, <1>3, <1>4, <1>6, <2>1, <2>2
<1>8. ASSUME NEW k \in BitString(W), EntryOf(k).seg = e.seg
      PROVE  /\ EntryOf(k) = e
             /\ k[e.ld + 1] = 1 => EntryOf(k)' = up
             /\ k[e.ld + 1] = 0 => EntryOf(k)' = lo
             /\ k[e.ld + 1] \in {0, 1}
  <2>1. PICK p \in DOMAIN dir : dir[p] = EntryOf(k)
    BY EntryFacts
  <2>2. EntryOf(k) = e
    BY <1>3, <1>8, <2>1
  <2>3. EntryOf(k)' = IF k[e.ld + 1] = 1 THEN up ELSE lo
    BY <1>4, <1>8 DEF Divided
  <2>4. k[e.ld + 1] \in {0, 1}
    BY <1>3, IndexSteps DEF Bit
  <2>5. QED
    BY <2>2, <2>3, <2>4
<1>9. ASSUME NEW k \in BitString(W), EntryOf(k).seg # e.seg
      PROVE  EntryOf(k)' = EntryOf(k) /\ segs'[EntryOf(k).seg] = segs[EntryOf(k).seg]
  BY <1>7, <1>9, EntryFacts DEF Divided
<1>10. ASSUME NEW eh, NEW sh, NEW base, NEW h \in {0, 1}, HalfOf(e, s, base, eh, sh, h),
              NEW k \in BitString(W), k[e.ld + 1] = h, NEW v
       PROVE  Binds(eh, sh, k, v) <=> Binds(e, s, k, v)
  <2>1. ASSUME Binds(e, s, k, v) PROVE Binds(eh, sh, k, v)
    <3>1. PICK b \in Addr, j \in 1..Slots : LiveIn(e, s, b, j) /\ s[b][j].key = k /\ s[b][j].val = v
      BY <2>1 DEF Binds
    <3>2. PICK a \in Addr, c \in 1..Slots : /\ LiveIn(eh, sh, a, c)
                                            /\ sh[a][c].key = k /\ sh[a][c].val = v
      BY <1>3, <1>10, <3>1, HalfKeeps
    <3>3. QED
      BY <3>2 DEF Binds
  <2>2. ASSUME Binds(eh, sh, k, v) PROVE Binds(e, s, k, v)
    <3>1. PICK a \in Addr, c \in 1..Slots : LiveIn(eh, sh, a, c) /\ sh[a][c].key = k /\ sh[a][c].val = v
      BY <2>2 DEF Binds
    <3>2. \E b \in Addr, j \in 1..Slots : /\ LiveIn(e, s, b, j)
                                          /\ s[b][j].key = k /\ s[b][j].val = v
      BY <1>10, <3>1, HalfOrigin
    <3>3. QED
      BY <3>2 DEF Binds
  <2>3. QED
    BY <2>1, <2>2
<1>11. ASSUME NEW k \in BitString(W), NEW v
       PROVE  Bound(k, v)' <=> Bound(k, v)
  <2>1. PICK f, f1 : f = EntryOf(k) /\ f1 = EntryOf(k)'
    OBVIOUS
  <2>2. Bound(k, v) = Binds(f, segs[f.seg], k, v) /\ Bound(k, v)' = Binds(f1, segs'[f1.seg], k, v)
    BY <2>1 DEF Bound, Seg
  <2>3. CASE f.seg # e.seg
    BY <1>9, <2>1, <2>2, <2>3
  <2>4. CASE f.seg = e.seg
    <3>1. f = e /\ segs[f.seg] = s
      BY <1>2, <1>8, <2>1, <2>4
    <3>2. CASE k[e.ld + 1] = 1
      <4>1. f1 = up /\ segs'[f1.seg] = sup
        BY <1>7, <1>8, <2>1, <2>4, <3>2
      <4>2. QED
        BY <1>5, <1>10, <2>2, <3>1, <3>2, <4>1
    <3>3. CASE k[e.ld + 1] = 0
      <4>1. f1 = lo /\ segs'[f1.seg] = slo
        BY <1>7, <1>8, <2>1, <2>4, <3>3
      <4>2. QED
        BY <1>5, <1>10, <2>2, <3>1, <3>3, <4>1
    <3>4. QED
      BY <1>8, <2>1, <2>4, <3>2, <3>3
  <2>5. QED
    BY <2>3, <2>4
<1>12. \A k \in BitString(W) : Present(k)' <=> Present(k)
  <2>1. ASSUME NEW k \in BitString(W) PROVE Present(k)' <=> Present(k)
    <3>1. Present(k)' <=> \E v : Bound(k, v)'
      BY DEF Present, Bound, HasKey, Binds
    <3>2. QED
      BY <1>11, <3>1, PresentBound
  <2>2. QED
    BY <2>1
<1>13. ASSUME NEW p \in DOMAIN dir'
       PROVE  \/ dir'[p] = lo /\ segs'[dir'[p].seg] = slo
              \/ dir'[p] = up /\ segs'[dir'[p].seg] = sup
              \/ /\ dir'[p].seg # e.seg
                 /\ \E q \in DOMAIN dir : dir'[p] = dir[q] /\ segs'[dir'[p].seg] = segs[dir[q].seg]
  <2>1. CASE dir'[p] \in {lo, up}
    BY <1>7, <2>1
  <2>2. CASE dir'[p] \notin {lo, up}
    <3>1. PICK q \in DOMAIN dir : dir'[p] = dir[q] /\ dir'[p].seg # e.seg
      BY <1>4, <2>2 DEF Divided
    <3>2. dir[q].seg \in 1..Len(segs)
      BY DEF NodeInv, TypeOK
    <3>3. QED
      BY <1>7, <3>1, <3>2
  <2>3. QED
    BY <2>1, <2>2
<1>14. SegmentsInv'
  <2>1. SegInv(lo, slo) /\ SegInv(up, sup)
    BY <1>3, <1>5, HalfInv DEF SegInv
  <2>2. ASSUME NEW p \in DOMAIN dir' PROVE SegInv(dir'[p], segs'[dir'[p].seg])
    <3>1. \A q \in DOMAIN dir : SegInv(dir[q], segs[dir[q].seg])
      BY DEF NodeInv, MapInv, SegmentsInv
    <3>2. QED
      BY <1>13, <2>1, <3>1
  <2>3. QED
    BY <2>2 DEF SegmentsInv
<1>15. KeysAtHome'
  <2>1. ASSUME NEW eh, NEW sh, NEW base, NEW h \in {0, 1}, HalfOf(e, s, base, eh, sh, h),
               eh = IF h = 1 THEN up ELSE lo,
               NEW a \in Addr, NEW c \in 1..Slots, LiveIn(eh, sh, a, c),
               NEW l, l = sh[a][c].key
        PROVE  EntryOf(l)' = eh
    <3>1. l \in BitString(W) /\ l[e.ld + 1] = h
      BY <1>3, <2>1, HalfOrigin
    <3>2. PICK b \in Addr, j \in 1..Slots : LiveIn(e, s, b, j) /\ s[b][j].key = l
      BY <2>1, HalfOrigin
    <3>3. EntryOf(l) = e
      BY <1>3, <3>2
    <3>4. QED
      BY <1>8, <2>1, <3>1, <3>3
  <2>2. ASSUME NEW p \in DOMAIN dir', NEW a \in Addr, NEW c \in 1..Slots,
               NEW f, f = dir'[p], NEW t, t = segs'[f.seg], LiveIn(f, t, a, c),
               NEW l, l = t[a][c].key
        PROVE  EntryOf(l)' = f
    <3>1. CASE f = lo /\ t = slo
      BY <1>5, <2>1, <2>2, <3>1
    <3>2. CASE f = up /\ t = sup
      BY <1>5, <2>1, <2>2, <3>2
    <3>3. CASE f.seg # e.seg /\ \E q \in DOMAIN dir : f = dir[q] /\ t = segs[dir[q].seg]
      <4>1. PICK q \in DOMAIN dir : f = dir[q] /\ t = segs[dir[q].seg] /\ f.seg # e.seg
        BY <3>3
      <4>2. EntryOf(l) = f
        BY <2>2, <4>1 DEF NodeInv, MapInv, KeysAtHome
      <4>3. l \in BitString(W)
        <5>1. t \in Segment
          BY <4>1, ElementOfSeq DEF NodeInv, TypeOK
        <5>2. QED
          BY <2>2, <5>1 DEF Segment, Bucket, Slot
      <4>4. QED
        BY <1>9, <4>1, <4>2, <4>3
    <3>4. QED
      BY <1>13, <2>2, <3>1, <3>2, <3>3
  <2>3. QED
    BY <2>2 DEF KeysAtHome
<1>16. ValidPresent'
  <2>1. ASSUME NEW n \in 1..Len(segs'), NEW a \in Addr, NEW c \in 1..Slots,
               NEW t, t = segs'[n], t[a][c].valid, NEW l, l = t[a][c].key
        PROVE  Present(l)'
    <3>1. n = e.seg \/ n = up.seg \/ (n \in 1..Len(segs) /\ n # e.seg)
      BY <1>6, <1>7
    <3>2. \E m \in 1..Len(segs), b \in Addr, j \in 1..Slots : segs[m][b][j].valid /\ segs[m][b][j].key = l
      <4>1. CASE n \in 1..Len(segs) /\ n # e.seg
        BY <1>7, <2>1, <4>1
      <4>2. CASE n = e.seg
        <5>1. t = slo
          BY <1>6, <1>7, <2>1, <4>2
        <5>2. \E b \in Addr, j \in 1..Slots : s[b][j].valid /\ s[b][j].key = l
          BY <1>5, <2>1, <5>1, HalfValid
        <5>3. QED
          BY <1>2, <1>3, <5>2
      <4>3. CASE n = up.seg
        <5>1. t = sup
          BY <1>6, <1>7, <2>1, <4>3
        <5>2. \E b \in Addr, j \in 1..Slots : s[b][j].valid /\ s[b][j].key = l
          BY <1>5, <2>1, <5>1, HalfValid
        <5>3. QED
          BY <1>2, <1>3, <5>2
      <4>4. QED
        BY <3>1, <4>1, <4>2, <4>3
    <3>3. PICK m \in 1..Len(segs), b \in Addr, j \in 1..Slots : segs[m][b][j].valid /\ segs[m][b][j].key = l
      BY <3>2
    <3>4. Present(l)
      BY <3>3 DEF NodeInv, MapInv, ValidPresent
    <3>5. l \in BitString(W)
      <4>1. segs[m] \in Segment
        BY ElementOfSeq DEF NodeInv, TypeOK
      <4>2. QED
        BY <3>3, <4>1 DEF Segment, Bucket, Slot
    <3>6. QED
      BY <1>12, <3>4, <3>5
  <2>2. QED
    BY <2>1 DEF ValidPresent
<1>17. RetryAbsent'
  <2>1. PICK k0 : k0 = op.key
    OBVIOUS
  <2>2. op'.key = k0
    <3>1. op.pc # "idle"
      BY DEF Absent
    <3>2. op \in [pc : {"insert", "retry"}, key : Keys, val : Values]
      BY <3>1, PendingType DEF NodeInv
    <3>3. QED
      BY <2>1, <3>2
  <2>3. EntryOf(k0)'.ld >= 1
    <3>1. EntryOf(k0)' \in {lo, up}
      BY <1>1, <1>8, <2>1
    <3>2. QED
      BY <1>3, <1>6, <3>1
  <2>4. ~Present(k0)'
    BY <1>1, <1>12, <2>1
  <2>5. EntryOf(op.key)' = EntryOf(k0)' /\ Present(op.key)' = Present(k0)'
    BY <2>2 DEF EntryOf, Present, Seg
  <2>6. QED
    BY <2>3, <2>4, <2>5 DEF RetryAbsent
<1>18. QED
  BY <1>11, <1>14, <1>15, <1>16, <1>17

\* A split that rewrites the directory divides the segment.
LEMMA SplitDivides ==
    ASSUME NodeInv, Split, NEW e, e = EntryOf(op.key)
    PROVE  Divided(e, e.off)
<1>1. PICK k0, pk : k0 = op.key /\ pk = SegmentNumber(k0, gd)
  OBVIOUS
<1>2. k0 \in BitString(W)
  BY <1>1, FreeFacts DEF Split
<1>3. /\ e \in SegmentNode /\ e.seg \in 1..Len(segs) /\ e.ld \in Nat /\ e.ld < gd /\ gd \in Nat
      /\ e.ld + M <= W /\ DOMAIN dir = BitString(gd) /\ pk \in DOMAIN dir /\ e = dir[pk]
  BY <1>1, <1>2, EntryFacts, EntryType DEF Split, EntryOf, NodeInv, TypeOK
<1>4. /\ gd' = gd /\ DOMAIN dir' = DOMAIN dir /\ segs' = SplitSegment(e, e.off)
      /\ dir' = SplitDirectory(e)
  BY DEF Split, SplitDirectory
<1>5. ASSUME NEW p \in DOMAIN dir
      PROVE  /\ dir[p].seg # e.seg => dir'[p] = dir[p]
             /\ dir[p].seg = e.seg => dir'[p] = IF p[e.ld + 1] = 1 THEN UpperEntry(e, e.off) ELSE LowerEntry(e)
  <2>1. (dir[pk].seg = dir[p].seg) <=> (\A i \in 1..e.ld : pk[i] = p[i])
    BY <1>3 DEF NodeInv, DirInv, DirectoryAligned
  <2>2. dir'[p] = IF \E i \in 1..e.ld : p[i] # pk[i] THEN dir[p]
                  ELSE IF p[e.ld + 1] = 1 THEN UpperEntry(e, e.off) ELSE LowerEntry(e)
    BY <1>1, <1>4 DEF SplitDirectory
  <2>3. QED
    BY <1>3, <2>1, <2>2
<1>6. ASSUME NEW p \in DOMAIN dir'
      PROVE  \/ dir'[p] \in {LowerEntry(e), UpperEntry(e, e.off)}
             \/ dir'[p].seg # e.seg /\ \E q \in DOMAIN dir : dir'[p] = dir[q]
  BY <1>4, <1>5
<1>7. ASSUME NEW k \in BitString(W)
      PROVE  EntryOf(k)' = IF EntryOf(k).seg # e.seg THEN EntryOf(k)
                           ELSE IF k[e.ld + 1] = 1 THEN UpperEntry(e, e.off) ELSE LowerEntry(e)
  <2>1. PICK q : q = SegmentNumber(k, gd)
    OBVIOUS
  <2>2. q \in DOMAIN dir /\ EntryOf(k) = dir[q] /\ EntryOf(k)' = dir'[q]
    BY <1>4, <2>1, EntryType DEF EntryOf, NodeInv
  <2>3. q[e.ld + 1] = k[e.ld + 1]
    <3>1. e.ld + 1 \in 1..gd /\ 0 + (e.ld + 1) = e.ld + 1 /\ e.ld + 1 <= W
      BY <1>3, BitsAssumption
    <3>2. QED
      BY <2>1, <3>1 DEF SegmentNumber, Slice
  <2>4. QED
    BY <1>5, <2>2, <2>3
<1>8. QED
  BY <1>4, <1>6, <1>7 DEF Divided

\* So does a split that doubles the directory.
LEMMA GrowDivides ==
    ASSUME NodeInv, Grow, NEW e, e = EntryOf(op.key)
    PROVE  Divided(e, 0)
<1>1. PICK k0, pk : k0 = op.key /\ pk = SegmentNumber(k0, gd)
  OBVIOUS
<1>2. k0 \in BitString(W)
  BY <1>1, FreeFacts DEF Grow
<1>3. /\ e \in SegmentNode /\ e.seg \in 1..Len(segs) /\ e.ld = gd /\ gd \in Nat
      /\ gd + M <= W /\ DOMAIN dir = BitString(gd) /\ pk \in DOMAIN dir /\ e = dir[pk]
  BY <1>1, <1>2, EntryFacts, EntryType DEF Grow, EntryOf, NodeInv, TypeOK
<1>4. /\ gd' = gd + 1 /\ DOMAIN dir' = BitString(gd + 1) /\ segs' = SplitSegment(e, 0)
      /\ dir' = GrownDirectory(e)
  BY DEF Grow, GrownDirectory
<1>5. ASSUME NEW p \in BitString(gd + 1), NEW q \in BitString(gd), \A i \in 1..gd : q[i] = p[i]
      PROVE  /\ dir[q].seg # e.seg => dir'[p] = dir[q]
             /\ dir[q].seg = e.seg => dir'[p] = IF p[gd + 1] = 1 THEN UpperEntry(e, 0) ELSE LowerEntry(e)
  <2>1. (dir[pk].seg = dir[q].seg) <=> (\A i \in 1..gd : pk[i] = q[i])
    BY <1>3 DEF NodeInv, DirInv, DirectoryAligned
  <2>2. q = [i \in 1..gd |-> p[i]] /\ pk = [i \in 1..gd |-> pk[i]]
    BY <1>3, <1>5 DEF BitString
  <2>3. dir[q].seg = e.seg <=> q = pk
    BY <1>3, <1>5, <2>1, <2>2
  <2>4. dir'[p] = IF q # pk THEN dir[q]
                  ELSE IF p[gd + 1] = 1 THEN UpperEntry(e, 0) ELSE LowerEntry(e)
    BY <1>1, <1>4, <2>2 DEF GrownDirectory
  <2>5. QED
    BY <2>3, <2>4
<1>6. ASSUME NEW p \in DOMAIN dir'
      PROVE  \/ dir'[p] \in {LowerEntry(e), UpperEntry(e, 0)}
             \/ dir'[p].seg # e.seg /\ \E q \in DOMAIN dir : dir'[p] = dir[q]
  <2>1. PICK q : q = [i \in 1..gd |-> p[i]]
    OBVIOUS
  <2>2. q \in BitString(gd) /\ \A i \in 1..gd : q[i] = p[i]
    BY <1>3, <1>4, <2>1 DEF BitString
  <2>3. QED
    BY <1>3, <1>4, <1>5, <2>2
<1>7. ASSUME NEW k \in BitString(W)
      PROVE  EntryOf(k)' = IF EntryOf(k).seg # e.seg THEN EntryOf(k)
                           ELSE IF k[e.ld + 1] = 1 THEN UpperEntry(e, 0) ELSE LowerEntry(e)
  <2>1. PICK q, p : q = SegmentNumber(k, gd) /\ p = SegmentNumber(k, gd + 1)
    OBVIOUS
  <2>2. q \in BitString(gd) /\ p \in BitString(gd + 1)
    BY <1>3, <2>1, IndexTypes
  <2>3. EntryOf(k) = dir[q] /\ EntryOf(k)' = dir'[p]
    BY <1>4, <2>1 DEF EntryOf
  <2>4. p[gd + 1] = k[gd + 1] /\ \A i \in 1..gd : q[i] = p[i]
    <3>1. \A i \in 1..gd : i \in 1..(gd + 1)
      BY <1>3
    <3>2. gd + 1 \in 1..(gd + 1) /\ 0 + (gd + 1) = gd + 1 /\ gd + 1 <= W
      BY <1>3, BitsAssumption
    <3>3. QED
      BY <2>1, <3>1, <3>2 DEF SegmentNumber, Slice
  <2>5. QED
    BY <1>3, <1>5, <2>2, <2>3, <2>4
<1>8. QED
  BY <1>4, <1>6, <1>7 DEF Divided

\* Dividing changes no binding, and the depth stays within the sub-key: the
\* segment that had to be split had bits left.
LEMMA DivideBinds ==
    NodeInv /\ (Split \/ Grow) =>
        /\ MapInv'
        /\ \A k \in BitString(W) : \A v : Bound(k, v)' <=> Bound(k, v)
<1>1. PICK e : e = EntryOf(op.key)
  OBVIOUS
<1>2. ASSUME NodeInv, Split
      PROVE  MapInv' /\ \A k \in BitString(W) : \A v : Bound(k, v)' <=> Bound(k, v)
  <2>1. Absent /\ op' = [op EXCEPT !.pc = "retry"] /\ gd' = gd
    BY <1>2 DEF Split
  <2>2. e.off \in Region
    BY <1>1, <1>2, <2>1, FreeFacts, EntryFacts DEF SegmentNode
  <2>3. Divided(e, e.off)
    BY <1>1, <1>2, SplitDivides
  <2>4. DepthInv'
    BY <1>2, <2>1 DEF NodeInv, MapInv, DepthInv
  <2>5. QED
    BY <1>1, <1>2, <2>1, <2>2, <2>3, <2>4, DivideStep DEF MapInv
<1>3. ASSUME NodeInv, Grow
      PROVE  MapInv' /\ \A k \in BitString(W) : \A v : Bound(k, v)' <=> Bound(k, v)
  <2>1. Absent /\ Free(op.key) = {} /\ op' = [op EXCEPT !.pc = "retry"] /\ gd' = gd + 1 /\ e.ld = gd
    BY <1>1, <1>3 DEF Grow
  <2>2. 0 \in Region
    BY DEF Region
  <2>3. Divided(e, 0)
    BY <1>1, <1>3, GrowDivides
  <2>4. DepthInv'
    <3>1. gd + M < W /\ gd \in Nat
      BY <1>1, <1>3, <2>1, FreeFacts DEF NodeInv, TypeOK
    <3>2. QED
      BY <2>1, <3>1, BitsAssumption DEF DepthInv
  <2>5. QED
    BY <1>1, <1>3, <2>1, <2>2, <2>3, <2>4, DivideStep DEF MapInv
<1>4. QED
  BY <1>2, <1>3

-----------------------------------------------------------------------------
(* The invariant holds.                                                    *)

\* The fresh segment of the first node is in order and binds nothing.
LEMMA MapInit == Init => MapInv
<1> SUFFICES ASSUME Init PROVE MapInv
  OBVIOUS
<1>1. /\ gd = 0 /\ segs = <<NewSegment>> /\ op = IdleOp /\ Len(segs) = 1
      /\ DOMAIN dir = BitString(0)
      /\ \A p \in DOMAIN dir : dir[p] = [ld |-> 0, off |-> 0, seg |-> 1]
  BY DEF Init
<1>2. \A a \in Addr, j \in 1..Slots : NewSegment[a][j].valid = FALSE /\ NewSegment[a][j].ver = 0
  BY DEF NewSegment, FreshBucket, FreshSlot
<1>3. DepthInv
  BY <1>1, BitsAssumption DEF DepthInv
<1>4. ASSUME NEW e PROVE SegInv(e, NewSegment) /\ \A a \in Addr, j \in 1..Slots : ~LiveIn(e, NewSegment, a, j)
  BY FreshInOrder
<1>5. \A p \in DOMAIN dir : segs[dir[p].seg] = NewSegment
  BY <1>1
<1>6. SegmentsInv /\ KeysAtHome
  BY <1>4, <1>5 DEF SegmentsInv, KeysAtHome
<1>7. ValidPresent
  BY <1>1, <1>2 DEF ValidPresent
<1>8. RetryAbsent
  BY <1>1 DEF RetryAbsent, IdleOp
<1>9. QED
  BY <1>3, <1>6, <1>7, <1>8 DEF MapInv

\* Every step keeps the invariant.
LEMMA NodeStep == NodeInv /\ [Next]_vars => NodeInv'
<1> SUFFICES ASSUME NodeInv, [Next]_vars PROVE NodeInv'
  OBVIOUS
<1>1. TypeOK' /\ DirInv'
  BY TypeStep, DirStep DEF NodeInv
<1>2. ASSUME gd' = gd, dir' = dir, segs' = segs, op'.pc = "retry" => op' = op PROVE MapInv'
  <2>1. DepthInv' /\ SegmentsInv'
    BY <1>2 DEF NodeInv, MapInv, DepthInv, SegmentsInv
  <2>2. KeysAtHome'
    BY <1>2 DEF NodeInv, MapInv, KeysAtHome, EntryOf
  <2>3. ValidPresent'
    BY <1>2 DEF NodeInv, MapInv, ValidPresent, Present, EntryOf, Seg
  <2>4. RetryAbsent'
    BY <1>2 DEF NodeInv, MapInv, RetryAbsent, Present, EntryOf, Seg
  <2>5. QED
    BY <2>1, <2>2, <2>3, <2>4 DEF MapInv
<1>3. ASSUME NEW k \in Keys, NEW v \in Values, Begin(k, v) PROVE MapInv'
  BY <1>2, <1>3 DEF Begin
<1>4. ASSUME Update PROVE MapInv'
  BY <1>4, UpdateBinds
<1>5. ASSUME Write PROVE MapInv'
  BY <1>5, WriteBinds
<1>6. ASSUME Split \/ Grow PROVE MapInv'
  BY <1>6, DivideBinds
<1>7. ASSUME UNCHANGED vars PROVE MapInv'
  BY <1>2, <1>7 DEF vars
<1>8. MapInv'
  BY <1>3, <1>4, <1>5, <1>6, <1>7 DEF Next
<1>9. QED
  BY <1>1, <1>8 DEF NodeInv

\* The invariant holds at first and through every step.
LEMMA NodeInvHolds == Spec => []NodeInv
<1>1. Init => NodeInv
  BY TypeInit, DirInit, MapInit DEF NodeInv
<1>2. QED
  BY <1>1, NodeStep, PTL DEF Spec

-----------------------------------------------------------------------------
(* What it is for.                                                         *)

\* No segment is split so often that the bucket-number macros of wrert_node.h
\* would shift by a negative amount: a full main bucket of the deepest segment
\* would hold the very sub-key being inserted.
THEOREM DepthStaysBounded == Spec => []DepthBounded
<1>1. NodeInv => DepthBounded
  <2> SUFFICES ASSUME NodeInv, NEW p \in DOMAIN dir PROVE dir[p].ld <= gd /\ dir[p].ld + M <= W
    BY DEF DepthBounded
  <2>1. dir[p].ld \in Nat /\ gd \in Nat /\ dir[p].ld <= gd
    BY DEF NodeInv, TypeOK, DirInv, SegmentNode
  <2>2. QED
    BY <2>1, BitsAssumption DEF NodeInv, MapInv, DepthInv
<1>2. QED
  BY <1>1, NodeInvHolds, PTL

\* A slot that a migration left behind stays dead through every later split:
\* its migVersion is older than what its region expects.
THEOREM StaleStaysDead == Spec => []NoRevival
<1>1. NodeInv => NoRevival
  BY DEF NodeInv, MapInv, SegmentsInv, SegInv, Ordered, NoneNewer, NoRevival
<1>2. QED
  BY <1>1, NodeInvHolds, PTL

\* Every live slot lies in the segment and in one of the two buckets that
\* lookups of its sub-key read.
THEOREM LiveIsRouted == Spec => []Routed
<1>1. NodeInv => Routed
  BY DEF NodeInv, MapInv, SegmentsInv, SegInv, Ordered, InPlace, KeysAtHome, Routed, LiveIn
<1>2. QED
  BY <1>1, NodeInvHolds, PTL

\* No live slot lies behind one that is not, so the loops that stop at the
\* first slot that does not count miss nothing.
THEOREM LiveComesFirst == Spec => []LivePrefix
<1>1. NodeInv => LivePrefix
  BY DEF NodeInv, MapInv, SegmentsInv, SegInv, Ordered, LiveFirst, LivePrefix, LiveIn
<1>2. QED
  BY <1>1, NodeInvHolds, PTL

\* No sub-key is live twice: an update reaches the copy that lookups return.
THEOREM LiveOnce == Spec => []OneLiveCopy
<1>1. ASSUME NodeInv, NEW k \in Keys
      PROVE  LET e == EntryOf(k)
                 s == segs[e.seg]
             IN  Cardinality(Matches(s[SharedAddr(k, e)], SharedVersion(e), k))
                   + Cardinality(Matches(s[MainAddr(k, e)], MainVersion(e), k)) <= 1
  <2>1. k \in BitString(W)
    BY NodeAssumption
  <2>2. PICK e, s : e = EntryOf(k) /\ s = segs[e.seg]
    OBVIOUS
  <2>3. e \in SegmentNode /\ SegInv(e, s)
    BY <1>1, <2>1, <2>2, EntryFacts DEF Seg
  <2>4. PICK sh, mn : sh = SharedAddr(k, e) /\ mn = MainAddr(k, e)
    OBVIOUS
  <2>5. /\ sh \in Addr /\ mn \in Addr /\ sh # mn
        /\ Expected(e, sh[1]) = SharedVersion(e) /\ Expected(e, mn[1]) = MainVersion(e)
    BY <2>1, <2>3, <2>4, TwoBuckets
  <2>6. PICK A, B : A = Matches(s[sh], SharedVersion(e), k) /\ B = Matches(s[mn], MainVersion(e), k)
    OBVIOUS
  <2>6a. A = Matches(s[sh], Expected(e, sh[1]), k) /\ B = Matches(s[mn], Expected(e, mn[1]), k)
    BY <2>5, <2>6
  <2>7. A = {} \/ (B = {} /\ \E j : A = {j})
    <3>1. CASE HasKey(e, s, k)
      <4>1. PICK a \in Addr, j \in 1..Slots : LiveIn(e, s, a, j) /\ s[a][j].key = k
        BY <3>1 DEF HasKey
      <4>2. CASE a = sh
        BY <2>6a, <2>3, <2>5, <4>1, <4>2, MatchesOne
      <4>3. CASE a # sh
        BY <2>6a, <2>3, <2>5, <4>1, <4>3, MatchesOne
      <4>4. QED
        BY <4>2, <4>3
    <3>2. CASE ~HasKey(e, s, k)
      BY <2>6a, <2>3, <2>5, <3>2, MatchesOne
    <3>3. QED
      BY <3>1, <3>2
  <2>8. B = {} \/ \E j : B = {j}
    <3>1. CASE HasKey(e, s, k)
      <4>1. PICK a \in Addr, j \in 1..Slots : LiveIn(e, s, a, j) /\ s[a][j].key = k
        BY <3>1 DEF HasKey
      <4>2. CASE a = mn
        BY <2>6a, <2>3, <2>5, <4>1, <4>2, MatchesOne
      <4>3. CASE a # mn
        BY <2>6a, <2>3, <2>5, <4>1, <4>3, MatchesOne
      <4>4. QED
        BY <4>2, <4>3
    <3>2. CASE ~HasKey(e, s, k)
      BY <2>6a, <2>3, <2>5, <3>2, MatchesOne
    <3>3. QED
      BY <3>1, <3>2
  <2>9. Cardinality({}) = 0 /\ \A j : Cardinality({j}) = 1
    BY FS_EmptySet, FS_Singleton
  <2>10. Cardinality(A) + Cardinality(B) <= 1
    <3>1. Cardinality(A) = 0 \/ (Cardinality(A) = 1 /\ Cardinality(B) = 0)
      BY <2>7, <2>9
    <3>2. Cardinality(B) = 0 \/ Cardinality(B) = 1
      BY <2>8, <2>9
    <3>3. QED
      BY <3>1, <3>2
  <2>11. QED
    BY <2>2, <2>4, <2>6, <2>10
<1>2. NodeInv => OneLiveCopy
  BY <1>1 DEF OneLiveCopy
<1>3. QED
  BY <1>2, NodeInvHolds, PTL

\* Every valid slot, live or stale, in any segment, holds a sub-key the index
\* has: put is never given a slot that already holds the absent sub-key, where
\* it would write the value and keep the stale version.
THEOREM NeverGhost == Spec => []NoGhost
<1>1. ASSUME NodeInv, NEW n \in 1..Len(segs), NEW a \in Addr, NEW j \in 1..Slots, segs[n][a][j].valid
      PROVE  GetSegNode(segs[n][a][j].key) # None
  <2>1. PICK k : k = segs[n][a][j].key
    OBVIOUS
  <2>2. k \in BitString(W)
    <3>1. segs[n] \in Segment
      BY <1>1, ElementOfSeq DEF NodeInv, TypeOK
    <3>2. QED
      BY <2>1, <3>1 DEF Segment, Bucket, Slot
  <2>3. PICK v : Bound(k, v)
    BY <1>1, <2>1, PresentBound DEF NodeInv, MapInv, ValidPresent
  <2>4. GetSegNode(k) = v /\ v \in Values
    BY <1>1, <2>2, <2>3, GetExact
  <2>5. QED
    BY <2>1, <2>4, NodeAssumption
<1>2. NodeInv => NoGhost
  BY <1>1 DEF NoGhost
<1>3. QED
  BY <1>2, NodeInvHolds, PTL

-----------------------------------------------------------------------------
(* The node implements the map.                                            *)

\* GetExact in the state after a step.
LEMMA GetNext ==
    ASSUME NodeInv', NEW k \in BitString(W)
    PROVE  /\ \A v : Bound(k, v)' => GetSegNode(k)' = v
           /\ (\A v : ~Bound(k, v)') => GetSegNode(k)' = None
<1>1. PICK p, e, s : p = SegmentNumber(k, gd') /\ e = EntryOf(k)' /\ s = segs'[e.seg]
  OBVIOUS
<1>2. p \in DOMAIN dir' /\ e = dir'[p] /\ e \in SegmentNode
  <2>1. gd' \in Nat /\ dir' \in [BitString(gd') -> SegmentNode]
    BY DEF NodeInv, TypeOK
  <2>2. p \in BitString(gd')
    BY <1>1, <2>1, IndexTypes
  <2>3. QED
    BY <1>1, <2>1, <2>2 DEF EntryOf
<1>3. SegInv(e, s)
  BY <1>1, <1>2 DEF NodeInv, MapInv, SegmentsInv
<1>4. GetSegNode(k)' = Lookup(e, s, k)
  BY <1>1 DEF GetSegNode, Lookup
<1>5. \A v : Bound(k, v)' <=> Binds(e, s, k, v)
  BY <1>1 DEF Bound, Seg
<1>6. HasKey(e, s, k) => \E v : Binds(e, s, k, v)
  BY DEF HasKey, Binds
<1>7. QED
  BY <1>2, <1>3, <1>4, <1>5, <1>6, LookupExact

\* A step that changes no binding changes no lookup.
LEMMA LookupsKept ==
    ASSUME NodeInv, NodeInv', NEW k \in BitString(W), \A v : Bound(k, v)' <=> Bound(k, v)
    PROVE  GetSegNode(k)' = GetSegNode(k)
<1>1. CASE \E v : Bound(k, v)
  BY <1>1, GetExact, GetNext
<1>2. CASE ~\E v : Bound(k, v)
  BY <1>2, GetExact, GetNext, PresentBound
<1>3. QED
  BY <1>1, <1>2

\* A node is a finite map from sub-keys to values: insert takes effect at the
\* one step that writes its slot, binds its own sub-key to its value and
\* returns; splits, migrations and doublings of the directory change no
\* lookup of any sub-key.
THEOREM NodeIsMap == Spec => ImplementsMap
<1> DEFINE m == [k \in Keys |-> GetSegNode(k)]
           r == IF op = IdleOp THEN [busy |-> FALSE]
                ELSE [busy |-> TRUE, key |-> op.key, val |-> op.val]
<1>1. Init /\ NodeInv => KV!MapInit
  <2> SUFFICES ASSUME Init, NodeInv PROVE m = [k \in Keys |-> None] /\ r = [busy |-> FALSE]
    BY DEF KV!MapInit, KV!Idle
  <2>1. \A a \in Addr, j \in 1..Slots : ~NewSegment[a][j].valid
    BY DEF NewSegment, FreshBucket, FreshSlot
  <2>2. ASSUME NEW k \in Keys PROVE GetSegNode(k) = None
    <3>1. k \in BitString(W)
      BY NodeAssumption
    <3>2. Seg(EntryOf(k)) = NewSegment
      <4>1. segs = <<NewSegment>> /\ EntryOf(k).seg \in 1..Len(segs)
        BY <3>1, EntryFacts DEF Init
      <4>2. QED
        BY <4>1 DEF Seg
    <3>3. ~Present(k)
      BY <2>1, <3>2 DEF Present, HasKey, LiveIn, Live
    <3>4. QED
      BY <3>1, <3>3, GetExact
  <2>3. QED
    BY <2>2 DEF Init
<1>2. NodeInv /\ NodeInv' /\ [Next]_vars => [KV!MapNext]_(KV!mapVars)
  <2> SUFFICES ASSUME NodeInv, NodeInv', [Next]_vars PROVE KV!MapNext \/ (m' = m /\ r' = r)
    BY DEF KV!mapVars
  <2>1. \A k \in Keys : k \in BitString(W)
    BY NodeAssumption
  <2>2. ASSUME NEW k \in Keys, NEW v \in Values, Begin(k, v) PROVE KV!Request(k, v)
    <3>1. m' = m
      BY <2>2 DEF Begin, GetSegNode, EntryOf
    <3>2. r = [busy |-> FALSE] /\ r' = [busy |-> TRUE, key |-> k, val |-> v]
      BY <2>2 DEF Begin, IdleOp
    <3>3. QED
      BY <3>1, <3>2 DEF KV!Request, KV!Idle, KV!Pending
  <2>3. ASSUME Update \/ Write PROVE KV!Commit
    <3>1. \A k \in BitString(W) : \A v : Bound(k, v)' <=> IF k = op.key THEN v = op.val ELSE Bound(k, v)
      BY <2>3, UpdateBinds, WriteBinds
    <3>2. op \in [pc : {"insert", "retry"}, key : Keys, val : Values]
      BY <2>3, PendingType DEF Update, Write, Absent, NodeInv
    <3>3. PICK k0, v0 : k0 = op.key /\ v0 = op.val /\ k0 \in Keys
      BY <3>2
    <3>4. ASSUME NEW k \in Keys PROVE GetSegNode(k)' = IF k = k0 THEN v0 ELSE GetSegNode(k)
      <4>1. CASE k = k0
        <5>1. Bound(k, v0)'
          BY <2>1, <3>1, <3>3, <4>1
        <5>2. QED
          BY <2>1, <4>1, <5>1, GetNext
      <4>2. CASE k # k0
        <5>1. \A v : Bound(k, v)' <=> Bound(k, v)
          BY <2>1, <3>1, <3>3, <4>2
        <5>2. QED
          BY <2>1, <4>2, <5>1, LookupsKept
      <4>3. QED
        BY <4>1, <4>2
    <3>5. m' = [m EXCEPT ![k0] = v0]
      BY <3>3, <3>4
    <3>6. r = [busy |-> TRUE, key |-> k0, val |-> v0] /\ r' = [busy |-> FALSE]
      <4>1. op' = IdleOp
        BY <2>3 DEF Update, Write
      <4>2. op.pc \in {"insert", "retry"}
        BY <3>2
      <4>3. op # IdleOp
        BY ONLY <4>2 DEF IdleOp
      <4>4. QED
        BY ONLY <3>3, <4>1, <4>3
    <3>7. r.key = k0 /\ r.val = v0 /\ r # [busy |-> FALSE]
      BY <3>6
    <3>8. QED
      BY <3>5, <3>6, <3>7 DEF KV!Commit, KV!Idle
  <2>4. ASSUME Split \/ Grow PROVE m' = m /\ r' = r
    <3>1. \A k \in BitString(W) : \A v : Bound(k, v)' <=> Bound(k, v)
      BY <2>4, DivideBinds
    <3>2. \A k \in Keys : GetSegNode(k)' = GetSegNode(k)
      BY <2>1, <3>1, LookupsKept
    <3>3. op \in [pc : {"insert", "retry"}, key : Keys, val : Values]
      BY <2>4, PendingType DEF Split, Grow, Absent, NodeInv
    <3>4. op' = [op EXCEPT !.pc = "retry"]
      BY <2>4 DEF Split, Grow
    <3>5. r' = r
      BY <3>3, <3>4 DEF IdleOp
    <3>6. QED
      BY <3>2, <3>5
  <2>5. CASE UNCHANGED vars
    BY <2>5 DEF vars, GetSegNode, EntryOf
  <2>6. QED
    BY <2>2, <2>3, <2>4, <2>5 DEF Next, KV!MapNext
<1>3. QED
  BY <1>1, <1>2, NodeInvHolds, PTL DEF Spec, ImplementsMap, KV!MapSpec
=============================================================================
