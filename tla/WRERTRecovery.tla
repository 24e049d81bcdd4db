--------------------------- MODULE WRERTRecovery ----------------------------
(***************************************************************************)
(* A WRERT node on persistent memory: the stores of put and insert one by  *)
(* one, with the flushes between them, a crash at any point, and the       *)
(* repair of the directory by recoveryTree (src/wrert/wrert.cpp).          *)
(*                                                                         *)
(* A crash is either the death of the process, which every store survives, *)
(* or a power failure, which only what has reached memory survives: a line *)
(* is written back when it is flushed, or whenever the cache pleases.  The *)
(* insert that was running is gone, and recovery is followed by lookups    *)
(* only: the allocator of the new process starts again at the first byte   *)
(* of the pool, so the program does not insert.                            *)
(*                                                                         *)
(* The new process maps the pool wherever the kernel likes, so recovery    *)
(* also adds the distance between the two bases to the pointers it meets:  *)
(* the segmentPtr of each entry and, above the leaf level, the value of    *)
(* each slot that counts.  How often it has done so is kept for each.      *)
(***************************************************************************)
EXTENDS WRERTNode, SequencesExt

CONSTANTS Failures,    \* what the crashes of a behaviour are: "kill", "power"
          IsRoot,      \* recoveryTree's loop, or recoveryAllNodes'
          LineSlots,   \* slots in a cache line (4 in the code)
          MaxCrashes   \* bound: crashes in a behaviour

ASSUME RecoveryAssumption == /\ Failures \subseteq {"kill", "power"}
                             /\ IsRoot \in BOOLEAN
                             /\ LineSlots \in Nat \ {0}
                             /\ MaxCrashes \in Nat

VARIABLES pm,       \* what persistent memory holds of gd, dir and segs
          todo,     \* the stores and flushes still to be done by put
          life,     \* "up", or how far recoveryTree has come
          acked,    \* the value of the last insert of each key that returned
          crash,    \* what was going on at the first crash
          failure   \* what a crash is: "kill" or "power"

recVars == <<gd, dir, segs, op, pm, todo, life, acked, crash, failure>>

Up == [phase |-> "up", crashes |-> 0]
NoCrash == [happened |-> FALSE]
PowerFails == failure = "power"

-----------------------------------------------------------------------------
(* Stores and flushes.                                                     *)

\* Slot j of the bucket at a of segment n becomes slot; the entry of prefix p
\* becomes e; the root pointer leads to a node of depth g with entries d.
StoreSlot(n, a, j, slot) == [do |-> "slot", n |-> n, a |-> a, j |-> j, slot |-> slot]
StoreEntry(p, e) == [do |-> "entry", p |-> p, e |-> e]
StoreRoot(g, d) == [do |-> "root", gd |-> g, dir |-> d]

\* clflush of a set of slots <<a, j>> of a segment, of entries, of the root.
FlushSlots(n, S) == [do |-> "flush slots", n |-> n, slots |-> S]
FlushEntries(P) == [do |-> "flush entries", entries |-> P]
FlushRoot == [do |-> "flush root"]

LineOf(j) == {i \in 1..Slots : (i - 1) \div LineSlots = (j - 1) \div LineSlots}

\* WRERTNode::put with a slot: the value, then the header of the slot, which
\* is one word but several assignments.  (Slip: the header first.)
WriteStores_HeaderFirst(n, a, j, old, new) ==
    << StoreSlot(n, a, j, [new EXCEPT !.val = old.val]),
       StoreSlot(n, a, j, new),
       FlushSlots(n, {a} \X LineOf(j)) >>
WriteStores(n, a, j, old, new) ==
    << StoreSlot(n, a, j, [old EXCEPT !.val = new.val]),
       StoreSlot(n, a, j, [new EXCEPT !.ver = old.ver]),
       StoreSlot(n, a, j, new),
       FlushSlots(n, {a} \X LineOf(j)) >>

\* The value of a slot in use.
UpdateStores(n, a, j, new) == << StoreSlot(n, a, j, new), FlushSlots(n, {a} \X LineOf(j)) >>

\* The number whose bits are p, and back.
Num(p) == FoldLeft(LAMBDA n, bit : 2 * n + bit, 0, p)
Prefix(n, len) == [i \in 1..len |-> (n \div 2^(len - i)) % 2]

\* The slots of half 0 of the shared region, bucket by bucket.
LowerSlots(e) ==
    LET S == {<<x, j>> \in BitString(M - 1) \X (1..Slots) :
                  x[1] = 0 /\ \A i \in 1..j : Live(segs[e.seg][<<e.off, x>>][i], e.ld - 1)}
        before(s, t) == Num(s[1]) < Num(t[1]) \/ (s[1] = t[1] /\ s[2] < t[2])
    IN  SetToSortSeq({s \in S : segs[e.seg][<<e.off, s[1]>>][s[2]].key[e.ld + 1] = 0}, before)

\* Each is copied to its main bucket as it is and then stamped.
MoveStores(e) ==
    LET stores(s) ==
            LET b == segs[e.seg][<<e.off, s[1]>>]
                m == MainIndex(b[s[2]].key, e.ld + 1)
                a == CalcBucketPosition((e.off + 1) % 3, m)
                c == Rank(Migrants(b, e.ld, 0, m), s[2])
            IN  << StoreSlot(e.seg, a, c, b[s[2]]),
                   StoreSlot(e.seg, a, c, [b[s[2]] EXCEPT !.ver = e.ld + 1]) >>
    IN  FlattenSeq([i \in DOMAIN LowerSlots(e) |-> stores(LowerSlots(e)[i])])

\* The slots that put flushes when the shared region becomes r.  Its offsets
\* are numbers of buckets added to addresses of bytes, so what is flushed
\* begins near the start of the segment whatever r is.
FlushedRegions(r) == IF r = 1 THEN {0} ELSE {0, 1}
FlushedLine(r) == CASE r = 0 -> {2} [] r = 1 -> {1} [] r = 2 -> {}
FlushedSlots(r) ==
    {at \in Addr \X (1..Slots) :
        \/ at[1][1] \in FlushedRegions(r)
        \/ at[1][1] \in FlushedLine(r) /\ Num(at[1][2]) = 0 /\ at[2] \in LineOf(1)}

\* The directory entries of the split segment: one of the upper half, then
\* one of the lower half, field by field.
EntryStores(e) ==
    LET half == 2^(gd - e.ld - 1)
        start == Num([i \in 1..gd |-> IF i <= e.ld THEN op.key[i] ELSE 0])
        low(i) == Prefix(start + i, gd)
        high(i) == Prefix(start + half + i, gd)
        deeper == [e EXCEPT !.ld = @ + 1]
    IN  FlattenSeq([i \in 1..half |->
            << StoreEntry(high(i - 1), deeper), StoreEntry(high(i - 1), UpperEntry(e, e.off)),
               StoreEntry(low(i - 1), deeper), StoreEntry(low(i - 1), LowerEntry(e)) >>])
        \o << FlushEntries({Prefix(n, gd) : n \in start .. start + 2 * half - 1}) >>

SplitStores(e) ==
    MoveStores(e) \o << FlushSlots(e.seg, FlushedSlots((e.off + 1) % 3)) >> \o EntryStores(e)

\* A doubled directory is filled and flushed before the root points at it.
GrowStores(e) ==
    MoveStores(e) \o << FlushSlots(e.seg, FlushedSlots((e.off + 1) % 3)),
                        StoreRoot(gd + 1, GrownDirectory(e)), FlushRoot >>

-----------------------------------------------------------------------------
(* The steps of an insert.                                                 *)

Running == life = Up /\ todo = <<>>

RecInit ==
    /\ Init
    /\ pm = [gd |-> gd, dir |-> dir, segs |-> segs]
    /\ todo = <<>>
    /\ life = Up
    /\ acked = [k \in Keys |-> None]
    /\ crash = NoCrash
    /\ failure \in Failures

Call(k, v) ==
    /\ Running
    /\ Begin(k, v)
    /\ UNCHANGED <<pm, todo, life, acked, crash, failure>>

UpdateInPlace ==
    /\ Running
    /\ op.pc = "insert"
    /\ LET n == EntryOf(op.key).seg
       IN  \E at \in Found(op.key) :
              todo' = UpdateStores(n, at[1], at[2], [segs[n][at[1]][at[2]] EXCEPT !.val = op.val])
    /\ op' = [op EXCEPT !.pc = "return"]
    /\ UNCHANGED <<gd, dir, segs, pm, life, acked, crash, failure>>

WriteNew ==
    /\ Running
    /\ Absent
    /\ LET e == EntryOf(op.key)
       IN  \E at \in Free(op.key) :
              LET old == segs[e.seg][at[1]][at[2]]
              IN  todo' = WriteStores(e.seg, at[1], at[2], old, WriteSlot(old, Expected(e, at[1][1])))
    /\ op' = [op EXCEPT !.pc = "return"]
    /\ UNCHANGED <<gd, dir, segs, pm, life, acked, crash, failure>>

\* The new segment is filled, and flushed before anything points at it; then
\* the old one and the directory are changed where they are.
SplitOrGrow ==
    /\ Running
    /\ Absent
    /\ Free(op.key) = {}
    /\ LET e == EntryOf(op.key)
           newOff == IF e.ld < gd THEN e.off ELSE 0
           newSegment == UpperHalf(segs[e.seg], e.off, newOff, e.ld)
       IN  /\ segs' = Append(segs, newSegment)
           /\ pm' = [pm EXCEPT !.segs = Append(@, newSegment)]
           /\ todo' = IF e.ld < gd THEN SplitStores(e) ELSE GrowStores(e)
           /\ op' = [pc |-> "retry", key |-> op.key, val |-> op.val,
                     split |-> {k \in Keys : EntryOf(k) = e}]
    /\ UNCHANGED <<gd, dir, life, acked, crash, failure>>

\* A store changes what the process sees, and memory too when nothing of the
\* cache can be lost.
DoStore ==
    /\ life = Up /\ todo # <<>>
    /\ LET s == Head(todo)
       IN  \/ /\ s.do = "slot"
              /\ segs' = [segs EXCEPT ![s.n][s.a][s.j] = s.slot]
              /\ UNCHANGED <<gd, dir>>
           \/ /\ s.do = "entry"
              /\ dir' = [dir EXCEPT ![s.p] = s.e]
              /\ UNCHANGED <<gd, segs>>
           \/ /\ s.do = "root"
              /\ gd' = s.gd
              /\ dir' = s.dir
              /\ UNCHANGED segs
    /\ pm' = IF PowerFails THEN pm ELSE [gd |-> gd', dir |-> dir', segs |-> segs']
    /\ todo' = Tail(todo)
    /\ UNCHANGED <<op, life, acked, crash, failure>>

\* The slots S of segment n, the entries P, the root as the process sees them.
WithSlots(n, S) ==
    [pm EXCEPT !.segs[n] = [a \in Addr |-> [j \in 1..Slots |->
                                IF <<a, j>> \in S THEN segs[n][a][j] ELSE @[a][j]]]]
WithEntries(P) == [pm EXCEPT !.dir = [p \in DOMAIN @ |-> IF p \in P THEN dir[p] ELSE @[p]]]
WithRoot == [pm EXCEPT !.gd = gd, !.dir = dir]

DoFlush ==
    /\ life = Up /\ todo # <<>>
    /\ LET s == Head(todo)
       IN  \/ s.do = "flush slots" /\ pm' = WithSlots(s.n, s.slots)
           \/ s.do = "flush entries" /\ pm' = WithEntries(s.entries)
           \/ s.do = "flush root" /\ pm' = WithRoot
    /\ todo' = Tail(todo)
    /\ UNCHANGED <<gd, dir, segs, op, life, acked, crash, failure>>

Return ==
    /\ Running
    /\ op.pc = "return"
    /\ acked' = [acked EXCEPT ![op.key] = op.val]
    /\ op' = IdleOp
    /\ UNCHANGED <<gd, dir, segs, pm, todo, life, crash, failure>>

\* The cache writes a line back on its own account.  (Directory entries one
\* by one, which allows all that lines of eight do.)
Evict ==
    /\ PowerFails
    /\ \/ \E n \in 1..Len(segs), a \in Addr, j \in 1..Slots :
              /\ segs[n][a][j] # pm.segs[n][a][j]
              /\ pm' = WithSlots(n, {a} \X LineOf(j))
       \/ \E p \in DOMAIN dir : gd = pm.gd /\ dir[p] # pm.dir[p] /\ pm' = WithEntries({p})
       \/ gd # pm.gd /\ pm' = WithRoot
    /\ UNCHANGED <<gd, dir, segs, op, todo, life, acked, crash, failure>>

-----------------------------------------------------------------------------
(* A crash and the recovery.                                               *)

\* The sub-keys a crash may lose now: those of the segment whose split or
\* doubling is under way; in a power failure also those of the segments that
\* have been split in place, which hold the lower half of what they held.
Exposed ==
    (IF op.pc = "retry" /\ todo # <<>> THEN op.split ELSE {})
      \union {k \in Keys : PowerFails /\ EntryOf(k).ld > 0 /\ k[EntryOf(k).ld] = 0}

Crash ==
    /\ life.phase # "recovered"
    /\ life.crashes < MaxCrashes
    /\ gd' = pm.gd /\ dir' = pm.dir /\ segs' = pm.segs
    /\ op' = IdleOp
    /\ todo' = <<>>
    /\ life' = [phase |-> "recovering", crashes |-> life.crashes + 1, i |-> 0,
                entries |-> [p \in BitString(pm.gd) |-> 0], slots |-> {}, twice |-> {}]
    /\ crash' = IF crash # NoCrash THEN crash
                ELSE [happened |-> TRUE, op |-> op, exposed |-> Exposed]
    /\ UNCHANGED <<pm, acked, failure>>

\* The turn of entry i ends where the range of its segment does.  (Slip: the
\* end of the range of the next depth up.)
BuddyEnd_TooFar(i, ld) == LET stride == 2^(gd - ld + 1) IN (i \div stride) * stride + stride
BuddyEnd(i, ld) == LET stride == 2^(gd - ld) IN (i \div stride) * stride + stride

\* Where the loop goes on: recoveryTree's at the end of the range, and
\* recoveryAllNodes' then also increments i.  (Slip: every entry has a turn.)
NextIndex_EachEntry(i, end) == i + 1
NextIndex(i, end) == IF IsRoot THEN end ELSE end + 1

\* The slots of the segment that count under entry e, bucket by bucket up to
\* the first that does not.
Counting(e) ==
    {<<e.seg, a, j>> : <<a, j>> \in
        {at \in Addr \X (1..Slots) :
            \A i \in 1..at[2] : Live(segs[e.seg][at[1]][i], Expected(e, at[1][1]))}}

\* The turn of entry i: its segmentPtr is relocated and those of the entries
\* after it in its range; of these, the deeper ones become copies of it,
\* unflushed.  Then the pointers in the slots of its segment are relocated.
RecoverEntry ==
    /\ life.phase = "recovering"
    /\ life.i < 2^gd
    /\ LET e == dir[Prefix(life.i, gd)]
           end == BuddyEnd(life.i, e.ld)
           copies == {p \in DOMAIN dir : Num(p) \in life.i + 1 .. end - 1 /\ e.ld < dir[p].ld}
           times(p) == life.entries[p] + (IF Num(p) \in life.i .. end - 1 THEN 1 ELSE 0)
       IN  /\ dir' = [p \in DOMAIN dir |-> IF p \in copies THEN e ELSE dir[p]]
           /\ life' = [life EXCEPT
                          !.i = NextIndex(life.i, end),
                          !.entries = [p \in DOMAIN dir |->
                              IF p \in copies THEN times(Prefix(life.i, gd)) ELSE times(p)],
                          !.slots = @ \union Counting(e),
                          !.twice = @ \union (life.slots \intersect Counting(e))]
    /\ pm' = IF PowerFails THEN pm ELSE [pm EXCEPT !.dir = dir']
    /\ UNCHANGED <<gd, segs, op, todo, acked, crash, failure>>

Recovered ==
    /\ life.phase = "recovering"
    /\ life.i >= 2^gd
    /\ life' = [phase |-> "recovered", crashes |-> life.crashes, entries |-> life.entries,
                slots |-> life.slots, twice |-> life.twice]
    /\ UNCHANGED <<gd, dir, segs, op, pm, todo, acked, crash, failure>>

RecNext == \/ \E k \in Keys, v \in Values : Call(k, v)
           \/ UpdateInPlace
           \/ WriteNew
           \/ SplitOrGrow
           \/ DoStore
           \/ DoFlush
           \/ Return
           \/ Evict
           \/ Crash
           \/ RecoverEntry
           \/ Recovered

RecSpec == RecInit /\ [][RecNext]_recVars

-----------------------------------------------------------------------------
(* Properties.                                                             *)

\* What the insert interrupted by the crash may have left for k.
Interrupted(k) == IF crash.op # IdleOp /\ crash.op.key = k THEN {crash.op.val} ELSE {}

\* After recovery no lookup returns a value that was overwritten or is of
\* another key, wherever the crash fell and however lines were written back.
NeverWrong ==
    life.phase = "recovered" =>
        \A k \in Keys : GetSegNode(k) \in {acked[k], None} \union Interrupted(k)

\* The death of the process loses only sub-keys of the segment whose split it
\* interrupts; a power failure also some of segments split before, but none
\* of a segment that still is as it was made.
LossConfined ==
    life.phase = "recovered" =>
        \A k \in Keys \ crash.exposed : GetSegNode(k) \in {acked[k]} \union Interrupted(k)

\* Wherever the new process maps the pool, a lookup of a sub-key the crash
\* did not expose follows pointers that lead into it: the segmentPtr of the
\* entry and, above the leaf level, the value in the slot have been relocated,
\* once, although the entries of a range share a segment.
PointersRight ==
    life.phase = "recovered" /\ life.crashes = 1 =>
        \A k \in Keys \ crash.exposed :
            LET e == EntryOf(k)
                matching(a, ver) == {<<e.seg, a, j>> : j \in Matches(segs[e.seg][a], ver, k)}
                found == matching(SharedAddr(k, e), SharedVersion(e))
                           \union matching(MainAddr(k, e), MainVersion(e))
            IN  /\ life.entries[SegmentNumber(k, gd)] = 1
                /\ IsRoot => found \subseteq life.slots \ life.twice

\* After a crash between two inserts every insert that returned is there.
AckedSurvive ==
    life.phase = "recovered" /\ crash.op = IdleOp =>
        \A k \in Keys : GetSegNode(k) = acked[k]
=============================================================================
