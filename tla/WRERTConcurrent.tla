--------------------------- MODULE WRERTConcurrent --------------------------
(***************************************************************************)
(* insert and search of the concurrent copy of WRERT                       *)
(* (src/YCSB-C/wrert/wrert.cpp, wrert_node.cpp) by several threads, on a   *)
(* tree that is one node: the root has taken the common upper half of the  *)
(* keys as its prefix, and its slots hold values.                          *)
(*                                                                         *)
(* There are three kinds of reader-writer lock, on a node's directory, a   *)
(* segment, a bucket, taken in this order.  What one lock promises is      *)
(* RWLockSpec, which WRERTRWLock implements; here a lock is taken in one   *)
(* step.  Taking the directory of the root and looking at the root again   *)
(* is one step too: it is the look that decides.  A thread never has two   *)
(* locks of one kind, so the pools that let two addresses share a lock     *)
(* only make threads wait.                                                 *)
(*                                                                         *)
(* Buckets, slots and their versions are those of WRERTNode, whose         *)
(* operators are used here on the node a thread has read from the root.    *)
(***************************************************************************)
EXTENDS Integers, Sequences, FiniteSets, FiniteSetsExt

CONSTANTS W, M, Slots, Chunk, Keys, None,  \* as in WRERTNode
          Threads,   \* the threads that call
          MaxCalls   \* bound: calls made, of which the n-th inserts value n

Values == 1..MaxCalls

ASSUME CallsAssumption == MaxCalls \in Nat /\ None \notin Values

\* The sizes are those WRERTNode allows.
ASSUME SizesAssumption == /\ M \in Nat /\ M >= 2 /\ W \in Nat /\ W >= M
                          /\ Slots \in Nat \ {0} /\ Chunk \in Nat \ {0}
                          /\ Keys \subseteq [1..W -> {0, 1}]

VARIABLES nodes,     \* the nodes made so far: their depths and directories
          root,      \* the one the root pointer leads to
          segs,      \* the segments made so far
          th,        \* for each thread, its call and how far it is
          calls,     \* the number of calls made
          done,      \* for each key, the values of the inserts that returned
          current,   \* those of them no later insert has replaced
          exposed    \* the keys a race may have lost

vars == <<nodes, root, segs, th, calls, done, current, exposed>>

\* Node n while op is the insert in progress.
Node(n, op) == INSTANCE WRERTNode WITH gd <- nodes[n].gd, dir <- nodes[n].dir
Quiet == [pc |-> "idle"]
Pending(t) == [pc |-> "retry", key |-> th[t].key, val |-> th[t].val]

\* The entry of a thread's key in the node it works on, and that node.
Entry(t) == Node(th[t].node, Quiet)!EntryOf(th[t].key)
Slot(t) == segs[th[t].e.seg][th[t].at[1]][th[t].at[2]]

-----------------------------------------------------------------------------
(* Locks.                                                                  *)

Directory(n) == <<"directory", n>>
SegmentLock(s) == <<"segment", s>>
BucketLock(s, a) == <<"bucket", s, a>>

Held(lock) == {h \in Threads \X {"read", "write"} : <<h[2], lock>> \in th[h[1]].held}
CanRead(lock) == \A h \in Held(lock) : h[2] = "read"

CanWrite(lock) == Held(lock) = {}

-----------------------------------------------------------------------------
(* The steps of a call.                                                    *)

Idle == [pc |-> "idle", held |-> {}]

Init ==
    /\ nodes = << [gd |-> 0, dir |-> [p \in {<<>>} |-> [ld |-> 0, off |-> 0, seg |-> 1]]] >>
    /\ root = 1
    /\ segs = << Node(1, Quiet)!NewSegment >>
    /\ th = [t \in Threads |-> Idle]
    /\ calls = 0
    /\ done = [k \in Keys |-> {}]
    /\ current = done
    /\ exposed = {}

\* A thread works on a node nobody keeps it from sharing: the new one of a
\* doubling, whose directory it has not locked.
Unguarded(t) == th[t].pc # "idle" /\ th[t].unguarded

KeysInHand == {th[t].key : t \in {t \in Threads : th[t] # Idle}}
Accompanied(t) == \E u \in Threads \ {t} : th[u] # Idle

Begin(t, kind, k) ==
    /\ th[t] = Idle
    /\ calls < MaxCalls
    /\ calls' = calls + 1
    /\ th' = [th EXCEPT ![t] = [pc |-> "root", kind |-> kind, key |-> k, val |-> calls + 1,
                 held |-> {}, node |-> root, e |-> Idle, at |-> <<>>, read |-> None,
                 unguarded |-> FALSE, done |-> done[k], current |-> current[k]]]
    /\ exposed' = IF \E u \in Threads : Unguarded(u) THEN exposed \union {k} \union KeysInHand ELSE exposed
    /\ UNCHANGED <<nodes, root, segs, done, current>>

\* goto restart, with every lock released.
Restarted(t) == [th[t] EXCEPT !.pc = "root", !.held = {}, !.e = Idle, !.at = <<>>, !.read = None]

Same == UNCHANGED <<nodes, root, calls, done, current, exposed>>

\* The directory of the root is locked and the segment pointer of the key's
\* entry is read; then the segment is locked and the rest of the entry read.
\* (Slip: the root is not looked at again once its directory is locked.)
LockDirectory_NoRecheck(t) ==
    /\ th[t].pc = "root"
    /\ CanRead(Directory(th[t].node))
    /\ th' = [th EXCEPT ![t].pc = "segment", ![t].held = {<<"read", Directory(th[t].node)>>},
                        ![t].e = Entry(t)]
    /\ UNCHANGED segs /\ Same
LockDirectory(t) ==
    /\ th[t].pc = "root"
    /\ CanRead(Directory(root))
    /\ th' = [th EXCEPT ![t].pc = "segment", ![t].node = root,
                        ![t].held = {<<"read", Directory(root)>>},
                        ![t].e = Node(root, Quiet)!EntryOf(th[t].key)]
    /\ UNCHANGED segs /\ Same

LockSegment(t) ==
    /\ th[t].pc = "segment"
    /\ CanRead(SegmentLock(th[t].e.seg))
    /\ th' = [th EXCEPT ![t].pc = "shared", ![t].held = @ \union {<<"read", SegmentLock(th[t].e.seg)>>},
                        ![t].e = [ld |-> Entry(t).ld, off |-> Entry(t).off, seg |-> th[t].e.seg]]
    /\ UNCHANGED segs /\ Same

\* The bucket a thread scans and the version that counts there.
BucketAt(t, step) ==
    IF step = "shared" THEN Node(th[t].node, Quiet)!SharedAddr(th[t].key, th[t].e)
    ELSE Node(th[t].node, Quiet)!MainAddr(th[t].key, th[t].e)
VersionAt(t, step) == IF step = "shared" THEN th[t].e.ld - 1 ELSE th[t].e.ld

\* What a scan of that bucket finds, and the free slot it would use.
FoundAt(t, step) ==
    LET b == segs[th[t].e.seg][BucketAt(t, step)]
    IN  IF th[t].kind = "insert" THEN Node(th[t].node, Quiet)!Hits(b, VersionAt(t, step), th[t].key)
        ELSE Node(th[t].node, Quiet)!Matches(b, VersionAt(t, step), th[t].key)
FreeAt(t, step) ==
    {BucketAt(t, step)} \X
        Node(th[t].node, Quiet)!FirstDead(segs[th[t].e.seg][BucketAt(t, step)], VersionAt(t, step))

\* The bucket is locked for the scan only.
Scanning(t, step) ==
    /\ th[t].pc = step
    /\ CanRead(BucketLock(th[t].e.seg, BucketAt(t, step)))
    /\ UNCHANGED segs /\ Same

Find(t, step) ==
    /\ Scanning(t, step)
    /\ FoundAt(t, step) # {}
    /\ LET at == <<BucketAt(t, step), Min(FoundAt(t, step))>>
       IN  th' = [th EXCEPT ![t].pc = "found", ![t].at = at,
                            ![t].read = segs[th[t].e.seg][at[1]][at[2]].val]

MissShared(t) ==
    /\ Scanning(t, "shared")
    /\ FoundAt(t, "shared") = {}
    /\ \E at \in IF FreeAt(t, "shared") = {} THEN {<<>>} ELSE FreeAt(t, "shared") :
          th' = [th EXCEPT ![t].pc = "main", ![t].at = at]

\* A free slot of the shared bucket, which was scanned before, is preferred.
MissMain(t) ==
    /\ Scanning(t, "main")
    /\ FoundAt(t, "main") = {}
    /\ \/ /\ th[t].kind = "search"
          /\ th' = [th EXCEPT ![t].pc = "answer"]
       \/ /\ th[t].kind = "insert" /\ th[t].at # <<>>
          /\ th' = [th EXCEPT ![t].pc = "free"]
       \/ /\ th[t].kind = "insert" /\ th[t].at = <<>>
          /\ \E at \in FreeAt(t, "main") : th' = [th EXCEPT ![t].pc = "free", ![t].at = at]
       \/ /\ th[t].kind = "insert" /\ th[t].at = <<>> /\ FreeAt(t, "main") = {}
          /\ th' = [th EXCEPT ![t].pc = "full", ![t].held = {}]

\* Case 2.1.2: the value is exchanged if it is still the one that was read.
Exchange(t) ==
    /\ th[t].pc = "found" /\ th[t].kind = "insert"
    /\ \/ /\ Slot(t).val = th[t].read
          /\ segs' = [segs EXCEPT ![th[t].e.seg][th[t].at[1]][th[t].at[2]].val = th[t].val]
          /\ th' = [th EXCEPT ![t].pc = "return"]
       \/ /\ Slot(t).val # th[t].read
          /\ th' = [th EXCEPT ![t] = Restarted(t)]
          /\ UNCHANGED segs
    /\ Same

\* search looks at the value again before it returns it.
LookAgain(t) ==
    /\ th[t].pc = "found" /\ th[t].kind = "search"
    /\ th' = [th EXCEPT ![t] = IF Slot(t).val = th[t].read THEN [@ EXCEPT !.pc = "answer"] ELSE Restarted(t)]
    /\ UNCHANGED segs /\ Same

\* Another insert has used the slot a thread found free.
Taken(t) == /\ Slot(t).valid /\ Slot(t).key # th[t].key
            /\ Slot(t).ver = VersionAt(t, IF th[t].at[1][1] = th[t].e.off THEN "shared" ELSE "main")

\* Case 2.1.1 with a free slot: its bucket is locked and the slot looked at
\* again.  (Slips: it is not looked at again; the insert waits for this slot
\* instead of starting again.)
LockBucket_NoRecheck(t) ==
    /\ th[t].pc = "free"
    /\ CanWrite(BucketLock(th[t].e.seg, th[t].at[1]))
    /\ th' = [th EXCEPT ![t].pc = "value", ![t].held = @ \union {<<"write", BucketLock(th[t].e.seg, th[t].at[1])>>}]
    /\ UNCHANGED segs /\ Same
LockBucket_SameSlot(t) ==
    /\ th[t].pc = "free"
    /\ CanWrite(BucketLock(th[t].e.seg, th[t].at[1]))
    /\ th' = [th EXCEPT ![t] =
                 IF Slot(t).valid /\ Slot(t).key # @.key THEN @
                 ELSE [@ EXCEPT !.pc = "value",
                                !.held = @ \union {<<"write", BucketLock(th[t].e.seg, th[t].at[1])>>}]]
    /\ UNCHANGED segs /\ Same
LockBucket(t) ==
    /\ th[t].pc = "free"
    /\ CanWrite(BucketLock(th[t].e.seg, th[t].at[1]))
    /\ \/ /\ Taken(t)
          /\ th' = [th EXCEPT ![t] = Restarted(t)]
       \/ /\ ~Taken(t)
          /\ th' = [th EXCEPT ![t].pc = "value",
                              ![t].held = @ \union {<<"write", BucketLock(th[t].e.seg, th[t].at[1])>>}]
    /\ UNCHANGED segs /\ Same

\* Case 2.1.1 without: the locks have been released, and are taken again to
\* write, the segment being the one that was read before.  If its entry has
\* been split since or the root replaced, the insert starts again.  (Slip: the
\* entry is not looked at again; the directory is not locked.)
LockDirectoryWrite_Skipped(t) ==
    /\ th[t].pc = "full"
    /\ th' = [th EXCEPT ![t].pc = "alone"]
    /\ UNCHANGED segs /\ Same
LockDirectoryWrite(t) ==
    /\ th[t].pc = "full"
    /\ CanWrite(Directory(th[t].node))
    /\ th' = [th EXCEPT ![t].pc = "alone", ![t].held = {<<"write", Directory(th[t].node)>>}]
    /\ UNCHANGED segs /\ Same

Restructuring(t) == IF Entry(t).ld < nodes[th[t].node].gd THEN "split" ELSE "grow"

LockSegmentWrite_RootOnly(t) ==
    /\ th[t].pc = "alone"
    /\ CanWrite(SegmentLock(th[t].e.seg))
    /\ th' = [th EXCEPT ![t] = IF @.node # root THEN Restarted(t)
                               ELSE [@ EXCEPT !.pc = Restructuring(t),
                                              !.held = @ \union {<<"write", SegmentLock(th[t].e.seg)>>}]]
    /\ UNCHANGED segs /\ Same
LockSegmentWrite(t) ==
    /\ th[t].pc = "alone"
    /\ CanWrite(SegmentLock(th[t].e.seg))
    /\ \/ /\ Entry(t).ld # th[t].e.ld \/ th[t].node # root
          /\ th' = [th EXCEPT ![t] = Restarted(t)]
       \/ /\ Entry(t).ld = th[t].e.ld /\ th[t].node = root
          /\ th' = [th EXCEPT ![t].pc = Restructuring(t),
                              ![t].held = @ \union {<<"write", SegmentLock(th[t].e.seg)>>}]
    /\ UNCHANGED segs /\ Same

\* When anything is restructured while a thread is unguarded, any key may go.
Restructured == IF \E u \in Threads : Unguarded(u) THEN Keys ELSE exposed

\* WRERTNode::put without a slot, in place.
Split(t) ==
    /\ th[t].pc = "split"
    /\ segs' = Node(th[t].node, Pending(t))!SplitSegment(Entry(t), Entry(t).off)
    /\ nodes' = [nodes EXCEPT ![th[t].node].dir =
                    Node(th[t].node, Pending(t))!SplitDirectory(Entry(t))]
    /\ th' = [th EXCEPT ![t].pc = "again"]
    /\ exposed' = Restructured
    /\ UNCHANGED <<root, calls, done, current>>

\* The same by doubling the directory, in a new node; then the root pointer is
\* made to lead there, and from then on the put goes on in a node that others
\* can reach, under the locks of the old one and of its segment.
Grow(t) ==
    /\ th[t].pc = "grow"
    /\ segs' = Node(th[t].node, Pending(t))!SplitSegment(Entry(t), 0)
    /\ nodes' = Append(nodes, [gd |-> nodes[th[t].node].gd + 1,
                               dir |-> Node(th[t].node, Pending(t))!GrownDirectory(Entry(t))])
    /\ th' = [th EXCEPT ![t].pc = "publish", ![t].node = Len(nodes) + 1]
    /\ exposed' = Restructured
    /\ UNCHANGED <<root, calls, done, current>>

Publish(t) ==
    /\ th[t].pc = "publish"
    /\ root' = th[t].node
    /\ th' = [th EXCEPT ![t].pc = "again", ![t].unguarded = TRUE]
    /\ exposed' = IF Accompanied(t) THEN exposed \union KeysInHand ELSE exposed
    /\ UNCHANGED <<nodes, segs, calls, done, current>>

\* putSegNode after a split or a doubling, without a look for the key.
PutSegNode(t) ==
    /\ th[t].pc = "again"
    /\ LET free == Node(th[t].node, Pending(t))!Free(th[t].key)
       IN  \/ \E at \in free :
                 th' = [th EXCEPT ![t].pc = "value", ![t].at = at, ![t].e = Entry(t)]
           \/ /\ free = {}
              /\ th' = [th EXCEPT ![t].pc = Restructuring(t), ![t].e = Entry(t)]
    /\ UNCHANGED segs /\ Same

\* WRERTNode::put with a slot: the value, then the header unless the slot
\* already holds the key.
PutValue(t) ==
    /\ th[t].pc = "value"
    /\ segs' = [segs EXCEPT ![th[t].e.seg][th[t].at[1]][th[t].at[2]].val = th[t].val]
    /\ th' = [th EXCEPT ![t].pc = IF Slot(t).key = th[t].key /\ Slot(t).valid THEN "return" ELSE "header"]
    /\ Same

PutHeader(t) ==
    /\ th[t].pc = "header"
    /\ LET ver == IF th[t].at[1][1] = th[t].e.off THEN Entry(t).ld - 1 ELSE Entry(t).ld
       IN  segs' = [segs EXCEPT ![th[t].e.seg][th[t].at[1]][th[t].at[2]] =
                       [valid |-> TRUE, ver |-> ver, key |-> th[t].key, val |-> @.val]]
    /\ th' = [th EXCEPT ![t].pc = "return"]
    /\ Same

ReturnInsert(t) ==
    /\ th[t].pc = "return"
    /\ th' = [th EXCEPT ![t] = Idle]
    /\ done' = [done EXCEPT ![th[t].key] = @ \union {th[t].val}]
    /\ current' = [current EXCEPT ![th[t].key] = (@ \ th[t].current) \union {th[t].val}]
    /\ UNCHANGED <<nodes, root, segs, calls, exposed>>

ReturnSearch(t) ==
    /\ th[t].pc = "answer"
    /\ th' = [th EXCEPT ![t] = Idle]
    /\ UNCHANGED segs /\ Same

Step(t) ==
    \/ LockDirectory(t)
    \/ LockSegment(t)
    \/ \E step \in {"shared", "main"} : Find(t, step)
    \/ MissShared(t)
    \/ MissMain(t)
    \/ Exchange(t)
    \/ LookAgain(t)
    \/ LockBucket(t)
    \/ LockDirectoryWrite(t)
    \/ LockSegmentWrite(t)
    \/ Split(t)
    \/ Grow(t)
    \/ Publish(t)
    \/ PutSegNode(t)
    \/ PutValue(t)
    \/ PutHeader(t)
    \/ ReturnInsert(t)
    \/ ReturnSearch(t)

\* All calls have been made and have returned.
Finished == calls = MaxCalls /\ (\A t \in Threads : th[t] = Idle) /\ UNCHANGED vars

Next == \/ \E t \in Threads, kind \in {"insert", "search"}, k \in Keys : Begin(t, kind, k)
        \/ \E t \in Threads : Step(t)
        \/ Finished

\* The scheduler runs every thread.
Spec == Init /\ [][Next]_vars /\ \A t \in Threads : WF_vars(Step(t))

-----------------------------------------------------------------------------
(* Properties.                                                             *)

Lookup(k) == Node(root, Quiet)!GetSegNode(k)

\* Whenever the root can be read, a key no race exposed and nobody is
\* inserting is looked up with the value of an insert that returned and that
\* no later one replaced.
NoneLost ==
    CanRead(Directory(root)) =>
        \A k \in Keys \ exposed :
            (\A t \in Threads : th[t] # Idle /\ th[t].kind = "insert" => th[t].key # k) =>
                IF current[k] = {} THEN Lookup(k) = None ELSE Lookup(k) \in current[k]

\* Two inserters of one new key never both take a slot for it.
NoTwins == CanRead(Directory(root)) => \A k \in Keys \ exposed :
    LET e == Node(root, Quiet)!EntryOf(k)
        copies(a, ver) == Cardinality(Node(root, Quiet)!Matches(segs[e.seg][a], ver, k))
    IN  copies(Node(root, Quiet)!SharedAddr(k, e), e.ld - 1)
          + copies(Node(root, Quiet)!MainAddr(k, e), e.ld) <= 1

\* While a thread has a segment locked to read, what it knows of its entry is
\* what the directory in use says, although it read the pointer before.
SameEntry(e, f) == e.ld = f.ld /\ e.off = f.off /\ e.seg = f.seg
SnapshotCurrent ==
    exposed # Keys =>
        \A t \in Threads :
            (\E s \in DOMAIN segs : <<"read", SegmentLock(s)>> \in th[t].held) =>
                th[t].node = root /\ SameEntry(th[t].e, Entry(t))

\* A search never misses an insert that returned before it began, and never
\* returns a value that was replaced by then.
SearchCurrent ==
    \A t \in Threads :
        th[t].pc = "answer" /\ th[t].key \notin exposed =>
            /\ th[t].read = None => th[t].current = {}
            /\ th[t].read \notin th[t].done \ th[t].current

\* Every call returns: no thread restarts or waits for ever.
CallsReturn == \A t \in Threads : th[t] # Idle ~> th[t] = Idle
=============================================================================
