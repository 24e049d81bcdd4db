----------------------- MODULE WRERTConcurrentProofs -----------------------
(***************************************************************************)
(* Proofs about WRERTConcurrent, for any number of threads and calls.      *)
(***************************************************************************)
EXTENDS WRERTConcurrent, SequenceTheorems, TLAPS

-----------------------------------------------------------------------------
(* The inductive invariant.                                                *)

\* The shape of the state: a thread is idle or has the fields of a call, what
\* it holds are locks to read or to write, and what is exposed are keys.
Fields == {"pc", "kind", "key", "val", "held", "node", "e", "at", "read",
           "unguarded", "done", "current"}
IsCall(c) == /\ c = [f \in Fields |-> c[f]]
             /\ c.pc # "idle"
             /\ c.key \in Keys
             /\ c.node \in 1..Len(nodes)
             /\ c.unguarded \in BOOLEAN
             /\ \A x \in c.held : x = <<x[1], x[2]>> /\ x[1] \in {"read", "write"}

Shape == /\ Len(nodes) \in Nat
         /\ nodes = [n \in 1..Len(nodes) |-> nodes[n]]
         /\ root \in 1..Len(nodes)
         /\ th = [t \in Threads |-> th[t]]
         /\ \A t \in Threads : th[t] = Idle \/ IsCall(th[t])
         /\ exposed \in SUBSET Keys

\* Whoever holds a lock to write holds it alone.
Compatible(x, y) == x[2] = y[2] => x[1] = "read" /\ y[1] = "read"
LocksExclude ==
    \A t, u \in Threads : t # u =>
        \A x \in th[t].held, y \in th[u].held : Compatible(x, y)

\* The locks a thread has at each step: it never reads under one lock and
\* writes the directory under another, and it has the directory first.
Reads(t) == \E x \in th[t].held : x[1] = "read"
InOrder(t) ==
    /\ th[t].pc \in {"idle", "root", "full"} => th[t].held = {}
    /\ th[t].pc = "segment" => th[t].held = {<<"read", Directory(th[t].node)>>}
    /\ th[t].pc = "alone" => th[t].held = {<<"write", Directory(th[t].node)>>}
    /\ th[t].pc \in {"split", "grow", "publish", "again"} => ~Reads(t)
    /\ Reads(t) => <<"read", Directory(th[t].node)>> \in th[t].held
LocksInOrder == \A t \in Threads : InOrder(t)

\* A thread that reads under locks works on the root and knows its entry of
\* it, at first only the segment of the entry; one that restructures has the
\* directory of the root locked to write, until it works on the new root,
\* which it has not locked.
HasRoot(t) ==
    /\ Reads(t) => /\ th[t].node = root
                   /\ IF th[t].pc = "segment" THEN th[t].e.seg = Entry(t).seg
                      ELSE SameEntry(th[t].e, Entry(t))
    /\ th[t].pc \in {"split", "grow", "again"} /\ ~th[t].unguarded =>
          th[t].node = root /\ <<"write", Directory(root)>> \in th[t].held
    /\ th[t].pc = "publish" =>
          ~th[t].unguarded /\ <<"write", Directory(root)>> \in th[t].held
RootHeld == exposed # Keys => \A t \in Threads : HasRoot(t)

LockingInv == Shape /\ LocksExclude /\ LocksInOrder /\ RootHeld

-----------------------------------------------------------------------------
(* Locks.                                                                  *)

\* What the guards of the lock operations say of the other threads.
LEMMA Readable ==
  ASSUME NEW lock, CanRead(lock), NEW u \in Threads
  PROVE  <<"write", lock>> \notin th[u].held
<1>1. <<"write", lock>> \in th[u].held => <<u, "write">> \in Held(lock)
  BY DEF Held
<1>2. QED
  BY <1>1 DEF CanRead

\* The same for a lock that can be taken to write.
LEMMA Writable ==
  ASSUME NEW lock, CanWrite(lock), NEW u \in Threads, NEW m \in {"read", "write"}
  PROVE  <<m, lock>> \notin th[u].held
<1>1. <<m, lock>> \in th[u].held => <<u, m>> \in Held(lock)
  BY DEF Held
<1>2. QED
  BY <1>1 DEF CanWrite

\* So a lock taken to read conflicts with nothing that is held.
LEMMA TakenToRead ==
  ASSUME Shape, NEW lock, CanRead(lock), NEW u \in Threads, NEW y \in th[u].held
  PROVE  Compatible(<<"read", lock>>, y)
<1>1. y = <<y[1], y[2]>> /\ y[1] \in {"read", "write"}
  BY DEF Shape, IsCall, Idle
<1>2. y # <<"write", lock>>
  BY Readable
<1>3. QED
  BY <1>1, <1>2 DEF Compatible

\* Nor does one taken to write.
LEMMA TakenToWrite ==
  ASSUME Shape, NEW lock, CanWrite(lock), NEW u \in Threads, NEW y \in th[u].held
  PROVE  Compatible(<<"write", lock>>, y)
<1>1. y = <<y[1], y[2]>> /\ y[1] \in {"read", "write"}
  BY DEF Shape, IsCall, Idle
<1>2. y # <<"write", lock>> /\ y # <<"read", lock>>
  BY Writable
<1>3. QED
  BY <1>1, <1>2 DEF Compatible

\* Exclusion is kept when one thread takes only locks that conflict with none.
LEMMA ExclusionKept ==
  ASSUME LocksExclude, NEW t \in Threads,
         \A u \in Threads \ {t} : th'[u] = th[u],
         \A x \in th'[t].held : \/ x \in th[t].held
                                \/ \A u \in Threads \ {t} : \A y \in th[u].held : Compatible(x, y)
  PROVE  LocksExclude'
<1> SUFFICES ASSUME NEW v \in Threads, NEW u \in Threads, v # u,
                    NEW x \in th'[v].held, NEW y \in th'[u].held
             PROVE  Compatible(x, y)
  BY DEF LocksExclude, Compatible
<1>1. CASE v = t
  BY <1>1 DEF LocksExclude
<1>2. CASE u = t
  <2>1. Compatible(y, x)
    BY <1>2 DEF LocksExclude
  <2>2. QED
    BY <2>1 DEF Compatible
<1>3. CASE v # t /\ u # t
  BY <1>3 DEF LocksExclude
<1>4. QED
  BY <1>1, <1>2, <1>3

-----------------------------------------------------------------------------
(* Steps of one thread that leave the nodes and the root alone.            *)

\* Thread t moves: what its own step must establish.
LEMMA Moves ==
  ASSUME LockingInv, NEW t \in Threads, UNCHANGED <<nodes, root>>,
         exposed \subseteq exposed', exposed' \in SUBSET Keys,
         th' = [u \in Threads |-> th'[u]], \A u \in Threads \ {t} : th'[u] = th[u],
         th'[t] = Idle \/ IsCall(th'[t]),
         \A x \in th'[t].held : \/ x \in th[t].held
                                \/ \A u \in Threads \ {t} : \A y \in th[u].held : Compatible(x, y),
         InOrder(t)', exposed # Keys => HasRoot(t)'
  PROVE  LockingInv'
<1>1. Shape'
  BY DEF LockingInv, Shape, IsCall
<1>2. LocksExclude'
  BY ExclusionKept DEF LockingInv
<1>3. LocksInOrder'
  BY DEF LockingInv, LocksInOrder, InOrder, Reads
<1>4. ASSUME exposed' # Keys PROVE \A u \in Threads : HasRoot(u)'
  <2>1. exposed # Keys
    BY <1>4
  <2> SUFFICES ASSUME NEW u \in Threads, u # t PROVE HasRoot(u)'
    BY <2>1
  <2>2. HasRoot(u) /\ th'[u] = th[u]
    BY <2>1 DEF LockingInv, RootHeld
  <2>3. Reads(u)' <=> Reads(u)
    BY <2>2 DEF Reads
  <2>4. Entry(u)' = Entry(u)
    BY <2>2 DEF Entry, Node!EntryOf
  <2>5. QED
    BY <2>2, <2>3, <2>4 DEF HasRoot
<1>5. QED
  BY <1>1, <1>2, <1>3, <1>4 DEF LockingInv, RootHeld

\* A step under the locks the thread has, of a call that is past the lock of
\* its segment or writes: it changes neither key, node, entry nor locks.
LEMMA Walks ==
  ASSUME LockingInv, NEW t \in Threads, UNCHANGED <<nodes, root, exposed>>,
         th' = [u \in Threads |-> th'[u]], \A u \in Threads \ {t} : th'[u] = th[u],
         IsCall(th[t]), IsCall(th'[t]), th[t].pc # "segment",
         th'[t].key = th[t].key, th'[t].node = th[t].node, th'[t].e = th[t].e,
         th'[t].held = th[t].held,
         th'[t].pc \in {"main", "found", "free", "answer", "value", "header", "return"}
  PROVE  LockingInv'
<1>1. InOrder(t)'
  BY DEF LockingInv, LocksInOrder, InOrder, Reads
<1>2. Entry(t)' = Entry(t) /\ (Reads(t)' <=> Reads(t))
  BY DEF Entry, Node!EntryOf, Reads
<1>3. exposed # Keys => HasRoot(t)'
  BY <1>2 DEF LockingInv, RootHeld, HasRoot
<1>4. exposed' \in SUBSET Keys
  BY DEF LockingInv, Shape
<1>5. QED
  BY <1>1, <1>3, <1>4, Moves

\* A step that gives every lock back.
LEMMA Releases ==
  ASSUME LockingInv, NEW t \in Threads, UNCHANGED <<nodes, root>>,
         exposed \subseteq exposed', exposed' \in SUBSET Keys,
         th' = [u \in Threads |-> th'[u]], \A u \in Threads \ {t} : th'[u] = th[u],
         th'[t] = Idle \/ IsCall(th'[t]),
         th'[t].held = {}, th'[t].pc \in {"idle", "root", "full"}
  PROVE  LockingInv'
<1>1. ~Reads(t)'
  BY DEF Reads
<1>2. InOrder(t)' /\ HasRoot(t)'
  BY <1>1 DEF InOrder, HasRoot
<1>3. QED
  BY <1>2, Moves

\* A thread that is not idle is in a call.
LEMMA InCall ==
  ASSUME LockingInv, NEW t \in Threads, th[t].pc # "idle"
  PROVE  IsCall(th[t])
BY DEF LockingInv, Shape, Idle

\* A call begins on no lock.
LEMMA BeginStep ==
  ASSUME LockingInv, NEW t \in Threads, NEW kind \in {"insert", "search"}, NEW k \in Keys,
         Begin(t, kind, k)
  PROVE  LockingInv'
<1>1. KeysInHand \in SUBSET Keys
  BY DEF KeysInHand, LockingInv, Shape, IsCall
<1>2. exposed \subseteq exposed' /\ exposed' \in SUBSET Keys
  BY <1>1 DEF Begin, LockingInv, Shape
<1>3. /\ th' = [u \in Threads |-> th'[u]] /\ \A u \in Threads \ {t} : th'[u] = th[u]
      /\ th'[t].held = {} /\ th'[t].pc = "root"
  BY DEF Begin, LockingInv, Shape
<1>4. IsCall(th'[t])
  BY DEF Begin, LockingInv, Shape, IsCall, Fields
<1>5. QED
  BY <1>2, <1>3, <1>4, Releases DEF Begin

\* Scanning, the value exchange and the put of a slot need no lock beyond
\* those the thread has or releases again.
LEMMA ScanSteps ==
  ASSUME LockingInv, NEW t \in Threads,
         \/ \E step \in {"shared", "main"} : Find(t, step)
         \/ MissShared(t) \/ MissMain(t)
  PROVE  LockingInv'
<1>1. CASE \E step \in {"shared", "main"} : Find(t, step)
  <2>1. PICK step \in {"shared", "main"} : Find(t, step)
    BY <1>1
  <2>2. IsCall(th[t]) /\ th[t].pc = step
    BY <2>1, InCall DEF Find, Scanning
  <2>3. PICK at, r : th' = [th EXCEPT ![t].pc = "found", ![t].at = at, ![t].read = r]
    BY <2>1 DEF Find
  <2>4. UNCHANGED <<nodes, root, exposed>>
    BY <2>1 DEF Find, Scanning, Same
  <2>5. PICK c, d : c = th[t] /\ d = th'[t]
    OBVIOUS
  <2>6. /\ th' = [u \in Threads |-> th'[u]] /\ \A u \in Threads \ {t} : th'[u] = th[u]
        /\ d = [c EXCEPT !.pc = "found", !.at = at, !.read = r]
    BY ONLY <2>3, <2>5, LockingInv, t \in Threads DEF LockingInv, Shape
  <2>7. /\ IsCall(d) /\ d.pc = "found" /\ d.key = c.key /\ d.node = c.node /\ d.e = c.e
        /\ d.held = c.held
    BY ONLY <2>2, <2>5, <2>6 DEF IsCall, Fields
  <2>8. IsCall(th'[t]) /\ c.pc # "segment"
    BY <2>2, <2>5, <2>7
  <2>9. QED
    BY ONLY <2>2, <2>4, <2>5, <2>6, <2>7, <2>8, Walks, LockingInv, t \in Threads
<1>2. CASE MissShared(t)
  <2>1. IsCall(th[t]) /\ th[t].pc = "shared" /\ UNCHANGED <<nodes, root, exposed>>
    BY <1>2, InCall DEF MissShared, Scanning, Same
  <2>2. PICK at : th' = [th EXCEPT ![t].pc = "main", ![t].at = at]
    BY <1>2 DEF MissShared
  <2>3. QED
    BY ONLY <2>1, <2>2, Walks, LockingInv, t \in Threads DEF LockingInv, Shape, IsCall, Fields
<1>3. CASE MissMain(t)
  <2>1. IsCall(th[t]) /\ th[t].pc = "main" /\ UNCHANGED <<nodes, root, exposed>>
    BY <1>3, InCall DEF MissMain, Scanning, Same
  <2>2. CASE \E pc \in {"answer", "free"} : th' = [th EXCEPT ![t].pc = pc]
    <3>1. PICK pc \in {"answer", "free"} : th' = [th EXCEPT ![t].pc = pc]
      BY <2>2
    <3>2. QED
      BY ONLY <2>1, <3>1, Walks, LockingInv, t \in Threads DEF LockingInv, Shape, IsCall, Fields
  <2>3. CASE \E at \in FreeAt(t, "main") : th' = [th EXCEPT ![t].pc = "free", ![t].at = at]
    <3>1. PICK at : th' = [th EXCEPT ![t].pc = "free", ![t].at = at]
      BY <2>3
    <3>2. PICK c, d : c = th[t] /\ d = th'[t]
      OBVIOUS
    <3>3. /\ th' = [u \in Threads |-> th'[u]] /\ \A u \in Threads \ {t} : th'[u] = th[u]
          /\ d = [c EXCEPT !.pc = "free", !.at = at]
      BY ONLY <3>1, <3>2, LockingInv, t \in Threads DEF LockingInv, Shape
    <3>4. /\ IsCall(d) /\ d.pc = "free" /\ d.key = c.key /\ d.node = c.node /\ d.e = c.e
          /\ d.held = c.held
      BY ONLY <2>1, <3>2, <3>3 DEF IsCall, Fields
    <3>5. IsCall(th'[t]) /\ c.pc # "segment"
      BY <2>1, <3>2, <3>4
    <3>6. QED
      BY ONLY <2>1, <3>2, <3>3, <3>4, <3>5, Walks, LockingInv, t \in Threads
  <2>4. CASE th' = [th EXCEPT ![t].pc = "full", ![t].held = {}]
    BY ONLY <2>1, <2>4, Releases, LockingInv, t \in Threads DEF LockingInv, Shape, IsCall, Fields
  <2>5. QED
    BY <1>3, <2>2, <2>3, <2>4 DEF MissMain
<1>4. QED
  BY <1>1, <1>2, <1>3

\* Starting again.
LEMMA RestartStep ==
  ASSUME LockingInv, NEW t \in Threads, IsCall(th[t]),
         UNCHANGED <<nodes, root, exposed>>, th' = [th EXCEPT ![t] = Restarted(t)]
  PROVE  LockingInv'
<1>1. th' = [u \in Threads |-> th'[u]] /\ \A u \in Threads \ {t} : th'[u] = th[u]
  BY DEF LockingInv, Shape
<1>2. th'[t] = Restarted(t)
  BY DEF LockingInv, Shape
<1>3. IsCall(th'[t]) /\ th'[t].held = {} /\ th'[t].pc = "root"
  <2>1. PICK c : c = th[t]
    OBVIOUS
  <2>2. th'[t] = [c EXCEPT !.pc = "root", !.held = {}, !.e = Idle, !.at = <<>>, !.read = None]
    BY <1>2, <2>1 DEF Restarted
  <2>3. IsCall(c)
    BY <2>1
  <2>4. QED
    BY ONLY <2>2, <2>3 DEF IsCall, Fields
<1>4. exposed' \in SUBSET Keys
  BY DEF LockingInv, Shape
<1>5. QED
  BY <1>1, <1>3, <1>4, Releases

\* Exchanging and returning values changes no lock, or starts again.
LEMMA ValueSteps ==
  ASSUME LockingInv, NEW t \in Threads,
         Exchange(t) \/ LookAgain(t) \/ PutValue(t) \/ PutHeader(t)
  PROVE  LockingInv'
<1>1. IsCall(th[t]) /\ th[t].pc # "segment" /\ UNCHANGED <<nodes, root, exposed>>
  BY InCall DEF Exchange, LookAgain, PutValue, PutHeader, Same
<1>2. CASE th' = [th EXCEPT ![t] = Restarted(t)]
  BY <1>1, <1>2, RestartStep
<1>3. CASE \E pc \in {"return", "header", "answer"} : th' = [th EXCEPT ![t].pc = pc]
  <2>1. PICK pc \in {"return", "header", "answer"} : th' = [th EXCEPT ![t].pc = pc]
    BY <1>3
  <2>2. QED
    BY ONLY <1>1, <2>1, Walks, LockingInv, t \in Threads DEF LockingInv, Shape, IsCall, Fields
<1>4. CASE Exchange(t)
  BY <1>2, <1>3, <1>4 DEF Exchange
<1>5. CASE LookAgain(t)
  <2>1. CASE Slot(t).val = th[t].read
    <3>1. th' = [th EXCEPT ![t] = [@ EXCEPT !.pc = "answer"]]
      BY <1>5, <2>1 DEF LookAgain
    <3>2. QED
      BY ONLY <1>1, <3>1, Walks, LockingInv, t \in Threads DEF LockingInv, Shape, IsCall, Fields
  <2>2. CASE Slot(t).val # th[t].read
    BY <1>2, <1>5, <2>2 DEF LookAgain
  <2>3. QED
    BY <2>1, <2>2
<1>6. CASE PutValue(t) \/ PutHeader(t)
  BY <1>3, <1>6 DEF PutValue, PutHeader
<1>7. QED
  BY <1>4, <1>5, <1>6

\* Returning.
LEMMA ReturnSteps ==
  ASSUME LockingInv, NEW t \in Threads, ReturnInsert(t) \/ ReturnSearch(t)
  PROVE  LockingInv'
<1>1. th' = [th EXCEPT ![t] = Idle] /\ UNCHANGED <<nodes, root, exposed>>
  BY DEF ReturnInsert, ReturnSearch, Same
<1>2. /\ th' = [u \in Threads |-> th'[u]] /\ \A u \in Threads \ {t} : th'[u] = th[u]
      /\ th'[t] = Idle
  BY <1>1 DEF LockingInv, Shape
<1>3. exposed' \in SUBSET Keys
  BY <1>1 DEF LockingInv, Shape
<1>4. QED
  BY <1>1, <1>2, <1>3, Releases DEF Idle

-----------------------------------------------------------------------------
(* Steps that take a lock.                                                 *)

After(c, p, n, h, e) == [c EXCEPT !.pc = p, !.node = n, !.held = h, !.e = e]

\* What a call is after its step, node, locks and entry have changed.
LEMMA CallChanged ==
  ASSUME NEW c, IsCall(c), NEW p, p # "idle", NEW n \in 1..Len(nodes), NEW h, NEW e,
         \A x \in h : x = <<x[1], x[2]>> /\ x[1] \in {"read", "write"}
  PROVE  LET d == After(c, p, n, h, e)
         IN  /\ d.pc = p /\ d.node = n /\ d.held = h /\ d.e = e
             /\ d.key = c.key /\ d.unguarded = c.unguarded /\ IsCall(d)
<1>1. c = [f \in Fields |-> c[f]]
  BY DEF IsCall
<1>2. PICK d : d = After(c, p, n, h, e)
  OBVIOUS
<1>3. /\ d.pc = p /\ d.node = n /\ d.held = h /\ d.e = e
      /\ d.key = c.key /\ d.unguarded = c.unguarded
  BY ONLY <1>1, <1>2 DEF Fields, After
<1>4. d = [f \in Fields |-> d[f]]
  BY ONLY <1>1, <1>2 DEF Fields, After
<1>5. IsCall(d)
  BY <1>3, <1>4 DEF IsCall
<1>6. QED
  BY <1>2, <1>3, <1>5

\* The directory of the root is locked to read, and the entry is of the root.
LEMMA DirectoryStep ==
  ASSUME LockingInv, NEW t \in Threads, LockDirectory(t)
  PROVE  LockingInv'
<1>1. IsCall(th[t]) /\ UNCHANGED <<nodes, root, exposed>>
  BY InCall DEF LockDirectory, Same
<1>2. PICK c, lock, e : c = th[t] /\ lock = <<"read", Directory(root)>>
                        /\ e = Node(root, Quiet)!EntryOf(th[t].key)
  OBVIOUS
<1>3. th' = [th EXCEPT ![t].pc = "segment", ![t].node = root, ![t].held = {lock}, ![t].e = e]
  BY <1>2 DEF LockDirectory
<1>4. th' = [u \in Threads |-> th'[u]] /\ \A u \in Threads \ {t} : th'[u] = th[u]
  BY <1>3 DEF LockingInv, Shape
<1>5. th'[t] = After(c, "segment", root, {lock}, e)
  BY <1>2, <1>3 DEF LockingInv, Shape, After
<1>6. IsCall(c) /\ root \in 1..Len(nodes) /\ exposed \in SUBSET Keys
  BY <1>1, <1>2 DEF LockingInv, Shape
<1>7. lock = <<lock[1], lock[2]>> /\ lock[1] = "read"
  BY <1>2
<1>8. /\ th'[t].pc = "segment" /\ th'[t].node = root /\ th'[t].held = {lock} /\ th'[t].e = e
      /\ th'[t].key = c.key /\ IsCall(th'[t])
  <2>1. "segment" # "idle" /\ \A x \in {lock} : x = <<x[1], x[2]>> /\ x[1] \in {"read", "write"}
    BY <1>7
  <2>2. QED
    BY ONLY <1>5, <1>6, <2>1, CallChanged
<1>9. \A u \in Threads \ {t} : \A y \in th[u].held : Compatible(lock, y)
  BY <1>2, TakenToRead DEF LockDirectory, LockingInv
<1>10. Entry(t)' = e
  BY <1>1, <1>2, <1>8 DEF Entry, Node!EntryOf
<1>11. InOrder(t)' /\ HasRoot(t)'
  BY <1>1, <1>2, <1>7, <1>8, <1>10 DEF InOrder, HasRoot, Reads, Directory
<1>12. QED
  BY <1>1, <1>4, <1>6, <1>8, <1>9, <1>11, Moves

\* The segment is locked under the lock of the directory, which has kept the
\* entry from changing since its segment was read.
LEMMA SegmentStep ==
  ASSUME LockingInv, NEW t \in Threads, LockSegment(t)
  PROVE  LockingInv'
<1>1. IsCall(th[t]) /\ UNCHANGED <<nodes, root, exposed>> /\ th[t].pc = "segment"
  BY InCall DEF LockSegment, Same
<1>2. PICK c, lock, e : c = th[t] /\ lock = <<"read", SegmentLock(th[t].e.seg)>>
                /\ e = [ld |-> Entry(t).ld, off |-> Entry(t).off, seg |-> th[t].e.seg]
  OBVIOUS
<1>3. th' = [th EXCEPT ![t].pc = "shared", ![t].held = @ \union {lock}, ![t].e = e]
  BY <1>2 DEF LockSegment
<1>4. th' = [u \in Threads |-> th'[u]] /\ \A u \in Threads \ {t} : th'[u] = th[u]
  BY <1>3 DEF LockingInv, Shape
<1>5. th'[t] = [c EXCEPT !.pc = "shared", !.held = @ \union {lock}, !.e = e]
  BY <1>2, <1>3 DEF LockingInv, Shape
<1>6. IsCall(c) /\ exposed \in SUBSET Keys
  BY <1>1, <1>2 DEF LockingInv, Shape
<1>7. lock = <<lock[1], lock[2]>> /\ lock[1] = "read"
  BY <1>2
<1>8. /\ th'[t].pc = "shared" /\ th'[t].node = c.node /\ th'[t].held = c.held \union {lock}
      /\ th'[t].e = e /\ th'[t].key = c.key /\ IsCall(th'[t])
  <2>1. /\ "shared" # "idle" /\ c.node \in 1..Len(nodes)
        /\ \A x \in c.held \union {lock} : x = <<x[1], x[2]>> /\ x[1] \in {"read", "write"}
    BY <1>6, <1>7 DEF IsCall
  <2>2. c = [f \in Fields |-> c[f]]
    BY <1>6 DEF IsCall
  <2>3. th'[t] = After(c, "shared", c.node, c.held \union {lock}, e)
    BY ONLY <1>5, <2>2 DEF Fields, After
  <2>4. QED
    BY ONLY <1>6, <2>1, <2>3, CallChanged
<1>9. \A u \in Threads \ {t} : \A y \in th[u].held : Compatible(lock, y)
  BY <1>2, TakenToRead DEF LockSegment, LockingInv
<1>10. Entry(t)' = Entry(t)
  BY <1>1, <1>2, <1>8 DEF Entry, Node!EntryOf
<1>11. Reads(t) /\ <<"read", Directory(c.node)>> \in c.held
  BY <1>1, <1>2 DEF LockingInv, LocksInOrder, InOrder, Reads
<1>12. InOrder(t)'
  BY <1>8, <1>11 DEF InOrder
<1>13. ASSUME exposed # Keys PROVE HasRoot(t)'
  <2>1. th[t].node = root /\ th[t].e.seg = Entry(t).seg
    BY <1>1, <1>11, <1>13 DEF LockingInv, RootHeld, HasRoot
  <2>2. SameEntry(e, Entry(t))
    BY <1>2, <2>1 DEF SameEntry
  <2>3. QED
    BY <1>1, <1>2, <1>8, <1>10, <2>1, <2>2 DEF HasRoot
<1>14. \A x \in th'[t].held : \/ x \in th[t].held
                                \/ \A u \in Threads \ {t} : \A y \in th[u].held : Compatible(x, y)
  BY <1>2, <1>8, <1>9
<1>15. QED
  BY <1>1, <1>4, <1>6, <1>8, <1>12, <1>13, <1>14, Moves

\* The bucket of the free slot is locked to write, or the insert starts again.
LEMMA BucketStep ==
  ASSUME LockingInv, NEW t \in Threads, LockBucket(t)
  PROVE  LockingInv'
<1>1. IsCall(th[t]) /\ UNCHANGED <<nodes, root, exposed>> /\ th[t].pc = "free"
  BY InCall DEF LockBucket, Same
<1>2. CASE th' = [th EXCEPT ![t] = Restarted(t)]
  BY <1>1, <1>2, RestartStep
<1>3. ASSUME NEW lock, lock = <<"write", BucketLock(th[t].e.seg, th[t].at[1])>>,
             th' = [th EXCEPT ![t].pc = "value", ![t].held = @ \union {lock}]
      PROVE  LockingInv'
  <2>1. PICK c : c = th[t]
    OBVIOUS
  <2>2. th' = [u \in Threads |-> th'[u]] /\ \A u \in Threads \ {t} : th'[u] = th[u]
    BY <1>3 DEF LockingInv, Shape
  <2>3. th'[t] = [c EXCEPT !.pc = "value", !.held = @ \union {lock}]
    BY <1>3, <2>1 DEF LockingInv, Shape
  <2>4. IsCall(c) /\ exposed \in SUBSET Keys
    BY <1>1, <2>1 DEF LockingInv, Shape
  <2>5. lock = <<lock[1], lock[2]>> /\ lock[1] = "write"
    BY <1>3
  <2>6. /\ th'[t].pc = "value" /\ th'[t].node = c.node /\ th'[t].held = c.held \union {lock}
        /\ th'[t].e = c.e /\ th'[t].key = c.key /\ IsCall(th'[t])
    <3>1. /\ "value" # "idle" /\ c.node \in 1..Len(nodes)
          /\ \A x \in c.held \union {lock} : x = <<x[1], x[2]>> /\ x[1] \in {"read", "write"}
      BY <2>4, <2>5 DEF IsCall
    <3>2. c = [f \in Fields |-> c[f]]
      BY <2>4 DEF IsCall
    <3>3. th'[t] = After(c, "value", c.node, c.held \union {lock}, c.e)
      BY ONLY <2>3, <3>2 DEF Fields, After
    <3>4. QED
      BY ONLY <2>4, <3>1, <3>3, CallChanged
  <2>7. \A u \in Threads \ {t} : \A y \in th[u].held : Compatible(lock, y)
    BY <1>3, TakenToWrite DEF LockBucket, LockingInv
  <2>8. Entry(t)' = Entry(t)
    BY <1>1, <2>1, <2>6 DEF Entry, Node!EntryOf
  <2>9. Reads(t)' <=> Reads(t)
    BY <2>1, <2>5, <2>6 DEF Reads
  <2>10. InOrder(t)'
    BY <2>1, <2>6, <2>9 DEF LockingInv, LocksInOrder, InOrder
  <2>11. exposed # Keys => HasRoot(t)'
    BY <1>1, <2>1, <2>6, <2>8, <2>9 DEF LockingInv, RootHeld, HasRoot
  <2>12. \A x \in th'[t].held : \/ x \in th[t].held
                                  \/ \A u \in Threads \ {t} : \A y \in th[u].held : Compatible(x, y)
    BY <2>1, <2>6, <2>7
  <2>13. QED
    BY <1>1, <2>2, <2>4, <2>6, <2>10, <2>11, <2>12, Moves
<1>4. QED
  <2>1. PICK lock : lock = <<"write", BucketLock(th[t].e.seg, th[t].at[1])>>
    OBVIOUS
  <2>2. \/ th' = [th EXCEPT ![t] = Restarted(t)]
        \/ th' = [th EXCEPT ![t].pc = "value", ![t].held = @ \union {lock}]
    BY <2>1 DEF LockBucket
  <2>3. QED
    BY <1>2, <1>3, <2>1, <2>2

\* The directory is locked to write, with no other lock held.
LEMMA DirectoryWriteStep ==
  ASSUME LockingInv, NEW t \in Threads, LockDirectoryWrite(t)
  PROVE  LockingInv'
<1>1. IsCall(th[t]) /\ UNCHANGED <<nodes, root, exposed>> /\ th[t].pc = "full"
  BY InCall DEF LockDirectoryWrite, Same
<1>2. PICK c, lock : c = th[t] /\ lock = <<"write", Directory(th[t].node)>>
  OBVIOUS
<1>3. th' = [th EXCEPT ![t].pc = "alone", ![t].held = {lock}]
  BY <1>2 DEF LockDirectoryWrite
<1>4. th' = [u \in Threads |-> th'[u]] /\ \A u \in Threads \ {t} : th'[u] = th[u]
  BY <1>3 DEF LockingInv, Shape
<1>5. th'[t] = [c EXCEPT !.pc = "alone", !.held = {lock}]
  BY <1>2, <1>3 DEF LockingInv, Shape
<1>6. IsCall(c) /\ exposed \in SUBSET Keys
  BY <1>1, <1>2 DEF LockingInv, Shape
<1>7. lock = <<lock[1], lock[2]>> /\ lock[1] = "write"
  BY <1>2
<1>8. /\ th'[t].pc = "alone" /\ th'[t].node = c.node /\ th'[t].held = {lock} /\ IsCall(th'[t])
  <2>1. /\ "alone" # "idle" /\ c.node \in 1..Len(nodes)
        /\ \A x \in {lock} : x = <<x[1], x[2]>> /\ x[1] \in {"read", "write"}
    BY <1>6, <1>7 DEF IsCall
  <2>2. c = [f \in Fields |-> c[f]]
    BY <1>6 DEF IsCall
  <2>3. th'[t] = After(c, "alone", c.node, {lock}, c.e)
    BY ONLY <1>5, <2>2 DEF Fields, After
  <2>4. QED
    BY ONLY <1>6, <2>1, <2>3, CallChanged
<1>9. \A x \in th'[t].held : \/ x \in th[t].held
                              \/ \A u \in Threads \ {t} : \A y \in th[u].held : Compatible(x, y)
  BY <1>2, <1>8, TakenToWrite DEF LockDirectoryWrite, LockingInv
<1>10. ~Reads(t)'
  BY <1>7, <1>8 DEF Reads
<1>11. InOrder(t)' /\ HasRoot(t)'
  BY <1>2, <1>8, <1>10 DEF InOrder, HasRoot, Directory
<1>12. QED
  BY <1>1, <1>4, <1>6, <1>8, <1>9, <1>11, Moves

\* The segment is locked to write if the node is still the root; the thread
\* that restructures has the directory of the root locked to write.
LEMMA SegmentWriteStep ==
  ASSUME LockingInv, NEW t \in Threads, LockSegmentWrite(t)
  PROVE  LockingInv'
<1>1. IsCall(th[t]) /\ UNCHANGED <<nodes, root, exposed>> /\ th[t].pc = "alone"
  BY InCall DEF LockSegmentWrite, Same
<1>2. CASE th' = [th EXCEPT ![t] = Restarted(t)]
  BY <1>1, <1>2, RestartStep
<1>3. ASSUME NEW lock, lock = <<"write", SegmentLock(th[t].e.seg)>>,
             NEW p \in {"split", "grow"}, th[t].node = root,
             th' = [th EXCEPT ![t].pc = p, ![t].held = @ \union {lock}]
      PROVE  LockingInv'
  <2>1. PICK c : c = th[t]
    OBVIOUS
  <2>2. th' = [u \in Threads |-> th'[u]] /\ \A u \in Threads \ {t} : th'[u] = th[u]
    BY <1>3 DEF LockingInv, Shape
  <2>3. th'[t] = [c EXCEPT !.pc = p, !.held = @ \union {lock}]
    BY <1>3, <2>1 DEF LockingInv, Shape
  <2>4. IsCall(c) /\ exposed \in SUBSET Keys
    BY <1>1, <2>1 DEF LockingInv, Shape
  <2>5. lock = <<lock[1], lock[2]>> /\ lock[1] = "write"
    BY <1>3
  <2>6. /\ th'[t].pc = p /\ th'[t].node = c.node /\ th'[t].held = c.held \union {lock}
        /\ IsCall(th'[t])
    <3>1. /\ p # "idle" /\ c.node \in 1..Len(nodes)
          /\ \A x \in c.held \union {lock} : x = <<x[1], x[2]>> /\ x[1] \in {"read", "write"}
      BY <2>4, <2>5 DEF IsCall
    <3>2. c = [f \in Fields |-> c[f]]
      BY <2>4 DEF IsCall
    <3>3. th'[t] = After(c, p, c.node, c.held \union {lock}, c.e)
      BY ONLY <2>3, <3>2 DEF Fields, After
    <3>4. QED
      BY ONLY <2>4, <3>1, <3>3, CallChanged
  <2>7. \A x \in th'[t].held : \/ x \in th[t].held
                                \/ \A u \in Threads \ {t} : \A y \in th[u].held : Compatible(x, y)
    <3>1. \A u \in Threads \ {t} : \A y \in th[u].held : Compatible(lock, y)
      BY <1>3, TakenToWrite DEF LockSegmentWrite, LockingInv
    <3>2. QED
      BY <2>1, <2>6, <3>1
  <2>8. c.held = {<<"write", Directory(root)>>}
    BY <1>1, <1>3, <2>1 DEF LockingInv, LocksInOrder, InOrder
  <2>9. ~Reads(t)'
    BY <2>5, <2>6, <2>8 DEF Reads
  <2>10. InOrder(t)' /\ HasRoot(t)'
    BY <1>1, <1>3, <2>1, <2>6, <2>8, <2>9 DEF InOrder, HasRoot
  <2>11. QED
    BY <1>1, <2>2, <2>4, <2>6, <2>7, <2>10, Moves
<1>4. QED
  <2>1. PICK lock : lock = <<"write", SegmentLock(th[t].e.seg)>>
    OBVIOUS
  <2>2. \/ th' = [th EXCEPT ![t] = Restarted(t)]
        \/ /\ th[t].node = root
           /\ th' = [th EXCEPT ![t].pc = Restructuring(t), ![t].held = @ \union {lock}]
    BY <2>1 DEF LockSegmentWrite
  <2>3. Restructuring(t) \in {"split", "grow"}
    BY DEF Restructuring
  <2>4. QED
    BY <1>2, <1>3, <2>1, <2>2, <2>3

\* After a split or a doubling the slot is put or the segment split again,
\* under the same locks.
LEMMA PutSegNodeStep ==
  ASSUME LockingInv, NEW t \in Threads, PutSegNode(t)
  PROVE  LockingInv'
<1>1. IsCall(th[t]) /\ UNCHANGED <<nodes, root, exposed>> /\ th[t].pc = "again"
  BY InCall DEF PutSegNode, Same
<1>2. PICK p \in {"value", "split", "grow"} : \E at, e :
         \/ th' = [th EXCEPT ![t].pc = p, ![t].at = at, ![t].e = e]
         \/ th' = [th EXCEPT ![t].pc = p, ![t].e = e]
  <2>1. Restructuring(t) \in {"split", "grow"}
    BY DEF Restructuring
  <2>2. QED
    BY <2>1 DEF PutSegNode
<1>3. th' = [u \in Threads |-> th'[u]] /\ \A u \in Threads \ {t} : th'[u] = th[u]
  BY <1>2 DEF LockingInv, Shape
<1>4. /\ th'[t].pc = p /\ th'[t].node = th[t].node /\ th'[t].held = th[t].held
      /\ th'[t].unguarded = th[t].unguarded /\ IsCall(th'[t])
  <2>1. th = [u \in Threads |-> th[u]] /\ t \in Threads
    BY DEF LockingInv, Shape
  <2>2. PICK at, e : \/ th' = [th EXCEPT ![t].pc = p, ![t].at = at, ![t].e = e]
                     \/ th' = [th EXCEPT ![t].pc = p, ![t].e = e]
    BY <1>2
  <2>3. CASE th' = [th EXCEPT ![t].pc = p, ![t].at = at, ![t].e = e]
    BY ONLY <1>1, <2>1, <2>3, p \in {"value", "split", "grow"} DEF IsCall, Fields
  <2>4. CASE th' = [th EXCEPT ![t].pc = p, ![t].e = e]
    BY ONLY <1>1, <2>1, <2>4, p \in {"value", "split", "grow"} DEF IsCall, Fields
  <2>5. QED
    BY <2>2, <2>3, <2>4
<1>5. ~Reads(t) /\ ~Reads(t)'
  BY <1>1, <1>4 DEF LockingInv, LocksInOrder, InOrder, Reads
<1>6. InOrder(t)'
  BY <1>4, <1>5 DEF InOrder
<1>7. exposed # Keys => HasRoot(t)'
  BY <1>1, <1>4, <1>5 DEF LockingInv, RootHeld, HasRoot
<1>8. exposed' \in SUBSET Keys
  BY <1>1 DEF LockingInv, Shape
<1>9. QED
  BY <1>1, <1>3, <1>4, <1>6, <1>7, <1>8, Moves

-----------------------------------------------------------------------------
(* Steps that restructure.                                                 *)

\* The nodes stay numbered when one is appended.
LEMMA NodesAppended ==
  ASSUME NEW s, Len(s) \in Nat, s = [n \in 1..Len(s) |-> s[n]], NEW x
  PROVE  LET r == Append(s, x)
         IN  Len(r) = Len(s) + 1 /\ r = [n \in 1..Len(r) |-> r[n]]
<1>1. PICK S : S = {s[n] : n \in 1..Len(s)} \union {x}
  OBVIOUS
<1>2. s \in Seq(S) /\ x \in S
  BY <1>1
<1>3. PICK r : r = Append(s, x)
  OBVIOUS
<1>4. r \in Seq(S) /\ Len(r) = Len(s) + 1
  BY <1>2, <1>3, AppendProperties
<1>5. r = [n \in 1..Len(r) |-> r[n]]
  BY ONLY <1>4
<1>6. QED
  BY <1>3, <1>4, <1>5

Changed(s, m, x) == [s EXCEPT ![m] = x]

\* The same when one of them is changed.
LEMMA NodesChanged ==
  ASSUME NEW s, Len(s) \in Nat, s = [n \in 1..Len(s) |-> s[n]],
         NEW m \in 1..Len(s), NEW x
  PROVE  LET r == Changed(s, m, x)
         IN  Len(r) = Len(s) /\ r = [n \in 1..Len(r) |-> r[n]]
<1>1. PICK S : S = {s[n] : n \in 1..Len(s)} \union {x}
  OBVIOUS
<1>2. s \in Seq(S) /\ x \in S
  BY <1>1
<1>3. PICK r : r = [s EXCEPT ![m] = x]
  OBVIOUS
<1>4. r \in Seq(S) /\ Len(r) = Len(s)
  BY <1>2, <1>3, ExceptSeq
<1>5. r = [n \in 1..Len(r) |-> r[n]]
  BY ONLY <1>3, <1>4, s = [n \in 1..Len(s) |-> s[n]]
<1>6. QED
  BY <1>3, <1>4, <1>5 DEF Changed

\* The shape of the state when one thread steps and no node goes away.
LEMMA ShapeKept ==
  ASSUME Shape, NEW t \in Threads,
         Len(nodes') \in Nat, Len(nodes) <= Len(nodes'),
         nodes' = [n \in 1..Len(nodes') |-> nodes'[n]], root' \in 1..Len(nodes'),
         th' = [u \in Threads |-> th'[u]], \A u \in Threads \ {t} : th'[u] = th[u],
         IsCall(th[t])', exposed' \in SUBSET Keys
  PROVE  Shape'
<1>1. \A n \in 1..Len(nodes) : n \in 1..Len(nodes')
  BY DEF Shape
<1>2. ASSUME NEW u \in Threads, u # t, IsCall(th[u]) PROVE IsCall(th[u])'
  <2>1. th'[u] = th[u]
    BY <1>2
  <2>2. th[u].node \in 1..Len(nodes')
    BY <1>1, <1>2 DEF IsCall
  <2>3. QED
    BY <1>2, <2>1, <2>2 DEF IsCall
<1>3. ASSUME NEW u \in Threads PROVE th'[u] = Idle \/ IsCall(th[u])'
  BY <1>2 DEF Shape
<1>4. QED
  BY <1>3 DEF Shape

\* While one thread has the directory of the root locked to write, no other
\* reads under a lock, and none restructures but in a node it has not locked.
LEMMA AloneWithRoot ==
  ASSUME LockingInv, exposed # Keys, NEW t \in Threads,
         <<"write", Directory(root)>> \in th[t].held,
         NEW u \in Threads, u # t
  PROVE  /\ ~Reads(u)
         /\ th[u].pc \in {"split", "grow", "again"} => th[u].unguarded
         /\ th[u].pc # "publish"
<1>1. HasRoot(u) /\ InOrder(u)
  BY DEF LockingInv, RootHeld, LocksInOrder
<1>2. <<"read", Directory(root)>> \notin th[u].held /\ <<"write", Directory(root)>> \notin th[u].held
  BY DEF LockingInv, LocksExclude, Compatible
<1>3. QED
  BY <1>1, <1>2 DEF HasRoot, InOrder

\* A thread restructures under the locks it has: what its step must establish.
LEMMA Restructures ==
  ASSUME LockingInv, NEW t \in Threads, Shape',
         \A u \in Threads \ {t} : th'[u] = th[u],
         th'[t].held = th[t].held, th[t].pc \in {"split", "grow", "publish"},
         th'[t].pc \in {"publish", "again"},
         exposed' # Keys => /\ exposed # Keys
                            /\ <<"write", Directory(root)>> \in th[t].held
                            /\ HasRoot(t)'
  PROVE  LockingInv'
<1>1. LocksExclude'
  BY ExclusionKept DEF LockingInv
<1>2. ~Reads(t) /\ ~Reads(t)'
  BY DEF LockingInv, LocksInOrder, InOrder, Reads
<1>3. LocksInOrder'
  <2>1. InOrder(t)'
    BY <1>2 DEF InOrder
  <2>2. ASSUME NEW u \in Threads, u # t PROVE InOrder(u)'
    BY <2>2 DEF LockingInv, LocksInOrder, InOrder, Reads
  <2>3. QED
    BY <2>1, <2>2 DEF LocksInOrder
<1>4. ASSUME exposed' # Keys, NEW u \in Threads, u # t PROVE HasRoot(u)'
  <2>1. /\ ~Reads(u)
        /\ th[u].pc \in {"split", "grow", "again"} => th[u].unguarded
        /\ th[u].pc # "publish"
    BY <1>4, AloneWithRoot
  <2>2. th'[u] = th[u]
    BY <1>4
  <2>3. ~Reads(u)'
    BY <2>1, <2>2 DEF Reads
  <2>4. QED
    BY <2>1, <2>2, <2>3 DEF HasRoot
<1>5. QED
  BY <1>1, <1>3, <1>4 DEF LockingInv, RootHeld

\* A split in place: the directory of the root changes under its lock.
LEMMA SplitStep ==
  ASSUME LockingInv, NEW t \in Threads, Split(t)
  PROVE  LockingInv'
<1>1. IsCall(th[t]) /\ th[t].pc = "split" /\ UNCHANGED root /\ exposed' = Restructured
  BY InCall DEF Split
<1>2. PICK x : nodes' = Changed(nodes, th[t].node, x)
  BY DEF Split, Changed
<1>3. Len(nodes') = Len(nodes) /\ nodes' = [n \in 1..Len(nodes') |-> nodes'[n]]
  <2>1. /\ Len(nodes) \in Nat /\ nodes = [n \in 1..Len(nodes) |-> nodes[n]]
        /\ th[t].node \in 1..Len(nodes)
    BY <1>1 DEF LockingInv, Shape, IsCall
  <2>2. PICK m, r : m = th[t].node /\ r = Changed(nodes, m, x)
    OBVIOUS
  <2>3. Len(r) = Len(nodes) /\ r = [n \in 1..Len(r) |-> r[n]]
    BY ONLY <2>1, <2>2, NodesChanged
  <2>4. QED
    BY ONLY <1>2, <2>2, <2>3
<1>4. th' = [th EXCEPT ![t].pc = "again"]
  BY DEF Split
<1>5. /\ th' = [u \in Threads |-> th'[u]] /\ \A u \in Threads \ {t} : th'[u] = th[u]
      /\ th'[t] = [th[t] EXCEPT !.pc = "again"]
  BY <1>4 DEF LockingInv, Shape
<1>6. /\ th'[t].pc = "again" /\ th'[t].node = th[t].node /\ th'[t].held = th[t].held
      /\ th'[t].unguarded = th[t].unguarded /\ IsCall(th'[t])
  BY ONLY <1>1, <1>5 DEF IsCall, Fields
<1>7. exposed' \in SUBSET Keys
  BY <1>1 DEF Restructured, LockingInv, Shape
<1>8. Shape'
  <2>1. Len(nodes) \in Nat /\ root \in 1..Len(nodes) /\ Shape
    BY DEF LockingInv, Shape
  <2>2. IsCall(th[t])'
    BY <1>3, <1>6 DEF IsCall
  <2>3. Len(nodes') \in Nat /\ Len(nodes) <= Len(nodes') /\ root' \in 1..Len(nodes')
    BY <1>1, <1>3, <2>1
  <2>4. QED
    BY <1>3, <1>5, <1>7, <2>1, <2>2, <2>3, ShapeKept
<1>9. ASSUME exposed' # Keys
      PROVE  exposed # Keys /\ <<"write", Directory(root)>> \in th[t].held /\ HasRoot(t)'
  <2>1. exposed # Keys /\ ~Unguarded(t)
    BY <1>1, <1>9 DEF Restructured
  <2>2. ~th[t].unguarded
    BY <1>1, <2>1 DEF Unguarded
  <2>3. th[t].node = root /\ <<"write", Directory(root)>> \in th[t].held
    BY <1>1, <2>1, <2>2 DEF LockingInv, RootHeld, HasRoot
  <2>4. ~Reads(t)'
    BY <1>1, <1>6 DEF LockingInv, LocksInOrder, InOrder, Reads
  <2>5. QED
    BY <1>1, <1>6, <2>1, <2>3, <2>4 DEF HasRoot
<1>10. QED
  BY <1>1, <1>5, <1>6, <1>8, <1>9, Restructures

\* A doubling: the thread goes to a new node, and has the old one locked.
LEMMA GrowStep ==
  ASSUME LockingInv, NEW t \in Threads, Grow(t)
  PROVE  LockingInv'
<1>1. IsCall(th[t]) /\ th[t].pc = "grow" /\ UNCHANGED root /\ exposed' = Restructured
  BY InCall DEF Grow
<1>2. PICK x : nodes' = Append(nodes, x)
  BY DEF Grow
<1>3. Len(nodes') = Len(nodes) + 1 /\ nodes' = [n \in 1..Len(nodes') |-> nodes'[n]]
  BY <1>2, NodesAppended DEF LockingInv, Shape
<1>4. PICK m : m = Len(nodes) + 1
  OBVIOUS
<1>5. th' = [th EXCEPT ![t].pc = "publish", ![t].node = m]
  BY <1>4 DEF Grow
<1>6. /\ th' = [u \in Threads |-> th'[u]] /\ \A u \in Threads \ {t} : th'[u] = th[u]
      /\ th'[t] = [th[t] EXCEPT !.pc = "publish", !.node = m]
  BY <1>5 DEF LockingInv, Shape
<1>7. /\ th'[t].pc = "publish" /\ th'[t].node = m /\ th'[t].held = th[t].held
      /\ th'[t].key = th[t].key /\ th'[t].unguarded = th[t].unguarded
      /\ th'[t] = [f \in Fields |-> th'[t][f]]
  BY ONLY <1>1, <1>6 DEF IsCall, Fields
<1>8. exposed' \in SUBSET Keys
  BY <1>1 DEF Restructured, LockingInv, Shape
<1>9. Shape'
  <2>1. Len(nodes) \in Nat /\ root \in 1..Len(nodes) /\ Shape
    BY DEF LockingInv, Shape
  <2>2. /\ Len(nodes') \in Nat /\ Len(nodes) <= Len(nodes') /\ m \in 1..Len(nodes')
        /\ root' \in 1..Len(nodes')
    BY <1>1, <1>3, <1>4, <2>1
  <2>3. IsCall(th[t])'
    BY <1>1, <1>7, <2>2 DEF IsCall
  <2>4. QED
    BY <1>3, <1>6, <1>8, <2>1, <2>2, <2>3, ShapeKept
<1>10. ASSUME exposed' # Keys
       PROVE  exposed # Keys /\ <<"write", Directory(root)>> \in th[t].held /\ HasRoot(t)'
  <2>1. exposed # Keys /\ ~Unguarded(t)
    BY <1>1, <1>10 DEF Restructured
  <2>2. ~th[t].unguarded
    BY <1>1, <2>1 DEF Unguarded
  <2>3. <<"write", Directory(root)>> \in th[t].held
    BY <1>1, <2>1, <2>2 DEF LockingInv, RootHeld, HasRoot
  <2>4. ~Reads(t)'
    BY <1>1, <1>7 DEF LockingInv, LocksInOrder, InOrder, Reads
  <2>5. QED
    BY <1>1, <1>7, <2>1, <2>2, <2>3, <2>4 DEF HasRoot
<1>11. QED
  BY <1>1, <1>6, <1>7, <1>9, <1>10, Restructures

\* The new node becomes the root while the old one is locked to write.
LEMMA PublishStep ==
  ASSUME LockingInv, NEW t \in Threads, Publish(t)
  PROVE  LockingInv'
<1>1. IsCall(th[t]) /\ th[t].pc = "publish" /\ UNCHANGED nodes /\ root' = th[t].node
  BY InCall DEF Publish
<1>2. th' = [th EXCEPT ![t].pc = "again", ![t].unguarded = TRUE]
  BY DEF Publish
<1>3. /\ th' = [u \in Threads |-> th'[u]] /\ \A u \in Threads \ {t} : th'[u] = th[u]
      /\ th'[t] = [th[t] EXCEPT !.pc = "again", !.unguarded = TRUE]
  BY <1>2 DEF LockingInv, Shape
<1>4. /\ th'[t].pc = "again" /\ th'[t].held = th[t].held
      /\ th'[t].unguarded = TRUE /\ IsCall(th'[t])
  BY ONLY <1>1, <1>3 DEF IsCall, Fields
<1>5. KeysInHand \in SUBSET Keys
  BY DEF KeysInHand, LockingInv, Shape, IsCall
<1>6. exposed \subseteq exposed' /\ exposed' \in SUBSET Keys
  BY <1>5 DEF Publish, LockingInv, Shape
<1>7. Shape'
  <2>1. Len(nodes) \in Nat /\ Shape /\ nodes = [n \in 1..Len(nodes) |-> nodes[n]]
    BY DEF LockingInv, Shape
  <2>2. IsCall(th[t])' /\ root' \in 1..Len(nodes)
    BY <1>1, <1>4 DEF IsCall
  <2>3. Len(nodes') = Len(nodes) /\ Len(nodes) <= Len(nodes') /\ nodes' = [n \in 1..Len(nodes') |-> nodes'[n]]
    BY <1>1, <2>1
  <2>4. QED
    BY <1>3, <1>6, <2>1, <2>2, <2>3, ShapeKept
<1>8. ASSUME exposed' # Keys
      PROVE  exposed # Keys /\ <<"write", Directory(root)>> \in th[t].held /\ HasRoot(t)'
  <2>1. exposed # Keys
    BY <1>6, <1>8
  <2>2. <<"write", Directory(root)>> \in th[t].held
    BY <1>1, <2>1 DEF LockingInv, RootHeld, HasRoot
  <2>3. ~Reads(t)'
    BY <1>1, <1>4 DEF LockingInv, LocksInOrder, InOrder, Reads
  <2>4. QED
    BY <1>4, <2>1, <2>2, <2>3 DEF HasRoot
<1>9. QED
  BY <1>1, <1>3, <1>4, <1>7, <1>8, Restructures

-----------------------------------------------------------------------------
(* What the threads know of the segments.                                  *)

\* The lemmas about nodes, of which only those that name no node are used.
S == INSTANCE WRERTSegmentProofs WITH gd <- 0, dir <- <<>>, segs <- <<>>, op <- <<>>

\* The node inserts go to: the root, or the one about to become it.
InUse(n) == IF \E t \in Threads : th[t].pc = "publish"
            THEN \E t \in Threads : th[t].pc = "publish" /\ n = th[t].node
            ELSE n = root

Sound(n) == /\ nodes[n] = [gd |-> nodes[n].gd, dir |-> nodes[n].dir]
            /\ S!Directed(nodes[n].gd, nodes[n].dir, Len(segs))
            /\ S!SegmentsOrdered(nodes[n].gd, nodes[n].dir, segs, Keys \ exposed)
NodesSound == segs \in Seq(S!Segment) /\ \A n \in 1..Len(nodes) : InUse(n) => Sound(n)

\* A thread nobody keeps out shares no key that is not exposed.
RacesExposed ==
    \A t, u \in Threads : t # u /\ Unguarded(t) /\ th[u] # Idle =>
        th[t].key \in exposed /\ th[u].key \in exposed

\* The locks of the steps before and after a slot is chosen.
Stands(t) ==
    /\ th[t].pc \in {"segment", "shared", "main", "found", "free", "answer"} => Reads(t)
    /\ Unguarded(t) => /\ ~Reads(t)
                       /\ th[t].pc \in {"again", "value", "header", "return", "split", "grow"}
    /\ th[t].pc \in {"value", "header"} =>
          \/ Reads(t) /\ <<"write", BucketLock(th[t].e.seg, th[t].at[1])>> \in th[t].held
          \/ ~Reads(t) /\ th[t].unguarded
          \/ ~Reads(t) /\ th[t].node = root /\ <<"write", Directory(root)>> \in th[t].held

\* What a thread knows at each step of its call c, of entry e of its node of
\* depth g, and of the segment s of that entry.
Known(c, reads, used, g, e, s, safe) ==
    LET k == c.key
        a == c.at[1]
        j == c.at[2]
    IN  /\ c.pc # "idle" => c.kind \in {"insert", "search"} /\ c.val \in Values
        /\ c.pc \in {"shared", "main", "found", "free", "value", "header"} => used /\ c.e = e
        /\ c.pc = "main" /\ c.kind = "insert" => S!SharedMissed(e, s, k, c.at, safe)
        /\ c.pc = "found" /\ c.kind = "insert" => a \in S!Addr /\ j \in 1..Slots
        /\ c.pc \in {"free", "value", "header"} => S!Chosen(e, s, k, a, j, safe)
        /\ c.pc \in {"free", "value", "header"} /\ reads => S!Preferred(e, s, k, a, j)
        /\ c.pc \in {"value", "header"} /\ safe => ~S!Beaten(e, s, k, a, j)
        /\ c.pc = "header" => s[a][j].val \in Values
        /\ c.pc \in {"full", "alone"} => c.e.ld \in Nat
        /\ c.pc \in {"full", "alone"} /\ used =>
              c.e.ld <= e.ld /\ (c.e.ld = e.ld => S!BothFull(e, s, k, safe))
        /\ c.pc \in {"split", "grow", "publish", "again"} => used /\ (safe => ~S!HasKey(e, s, k))
        /\ c.pc = "split" => e.ld < g
        /\ c.pc = "grow" => e.ld = g
        /\ c.pc \in {"publish", "again"} => e.ld >= 1
Knows(t) == Known(th[t], Reads(t), InUse(th[t].node), nodes[th[t].node].gd,
                  Entry(t), segs[Entry(t).seg], th[t].key \notin exposed)

SlotsInv == exposed # Keys => /\ calls \in Nat /\ NodesSound /\ RacesExposed
                              /\ \A t \in Threads : Stands(t) /\ Knows(t)

-----------------------------------------------------------------------------
(* The operators of a node are those of the lemmas.                        *)

\* The assumptions of the lemmas about nodes are those made here.
LEMMA NA == S!NodeAssumption /\ S!BitsAssumption
BY SizesAssumption, CallsAssumption
   DEF S!NodeAssumption, S!BitsAssumption, S!BitString, S!Bit

\* Buckets, versions and matches do not depend on the node.
LEMMA SameOperators ==
  ASSUME NEW n, NEW o
  PROVE  /\ \A k, e : /\ Node(n, o)!SharedAddr(k, e) = S!SharedAddr(k, e)
                      /\ Node(n, o)!MainAddr(k, e) = S!MainAddr(k, e)
         /\ \A b, v, k : /\ Node(n, o)!Hits(b, v, k) = S!Hits(b, v, k)
                         /\ Node(n, o)!Matches(b, v, k) = S!Matches(b, v, k)
         /\ \A b, v : /\ Node(n, o)!FirstDead(b, v) = S!FirstDead(b, v)
                      /\ Node(n, o)!FirstOther(b, v) = S!FirstOther(b, v)
         /\ \A k : Node(n, o)!EntryOf(k) = nodes[n].dir[S!SegmentNumber(k, nodes[n].gd)]
<1>1. \A k, e : /\ Node(n, o)!SharedAddr(k, e) = S!SharedAddr(k, e)
                /\ Node(n, o)!MainAddr(k, e) = S!MainAddr(k, e)
  BY DEF Node!SharedAddr, Node!MainAddr, Node!SharedIndex, Node!MainIndex, Node!Slice,
         Node!CalcBucketPosition, S!SharedAddr, S!MainAddr, S!SharedIndex, S!MainIndex, S!Slice,
         S!CalcBucketPosition
<1>2. \A b, v, k : Node(n, o)!Matches(b, v, k) = S!Matches(b, v, k)
  BY DEF Node!Matches, Node!Live, S!Matches, S!Live
<1>3. \A b, v, k : Node(n, o)!Hits(b, v, k) = S!Hits(b, v, k)
  BY DEF Node!Hits, Node!Live, Node!ChunkNo, S!Hits, S!Live, S!ChunkNo
<1>4. \A b, v : Node(n, o)!FirstDead(b, v) = S!FirstDead(b, v)
  BY DEF Node!FirstDead, Node!Live, S!FirstDead, S!Live
<1>5. \A b, v : Node(n, o)!FirstOther(b, v) = S!FirstOther(b, v)
  BY DEF Node!FirstOther, S!FirstOther
<1>6. \A k : Node(n, o)!EntryOf(k) = nodes[n].dir[S!SegmentNumber(k, nodes[n].gd)]
  BY DEF Node!EntryOf, Node!SegmentNumber, Node!Slice, S!SegmentNumber, S!Slice
<1>7. QED
  BY <1>1, <1>2, <1>3, <1>4, <1>5, <1>6

\* Nor do the halves of a segment.
LEMMA SameHalves ==
  ASSUME NEW n, NEW o
  PROVE  /\ \A s, off, ld : Node(n, o)!LowerHalf(s, off, ld) = S!LowerHalf(s, off, ld)
         /\ \A s, off, m, ld : Node(n, o)!UpperHalf(s, off, m, ld) = S!UpperHalf(s, off, m, ld)
         /\ Node(n, o)!NewSegment = S!NewSegment
<1>1. \A base, m, s, off, ld, h : Node(n, o)!Migrate(base, m, s, off, ld, h) = S!Migrate(base, m, s, off, ld, h)
  BY DEF Node!Migrate, Node!Pack, Node!Rank, Node!Cardinality, Node!Migrants, Node!Live,
         Node!MainIndex, Node!Slice, Node!Addr, Node!Region, Node!BitString, Node!Bit, Node!MainBucketAt,
         S!Migrate, S!Pack, S!Rank, S!Cardinality, S!Migrants, S!Live,
         S!MainIndex, S!Slice, S!Addr, S!Region, S!BitString, S!Bit, S!MainBucketAt
<1>2. Node(n, o)!FreshBucket = S!FreshBucket /\ Node(n, o)!Addr = S!Addr
  BY DEF Node!FreshBucket, Node!FreshSlot, S!FreshBucket, S!FreshSlot,
         Node!Addr, Node!Region, Node!BitString, Node!Bit, S!Addr, S!Region, S!BitString, S!Bit
<1>3. \A s, off, ld : Node(n, o)!LowerHalf(s, off, ld) = S!LowerHalf(s, off, ld)
  BY <1>1 DEF Node!LowerHalf, S!LowerHalf
<1>4. \A s, off, m, ld : Node(n, o)!UpperHalf(s, off, m, ld) = S!UpperHalf(s, off, m, ld)
  BY <1>1, <1>2 DEF Node!UpperHalf, S!UpperHalf
<1>5. Node(n, o)!NewSegment = S!NewSegment
  BY <1>2 DEF Node!NewSegment, S!NewSegment
<1>6. QED
  BY <1>3, <1>4, <1>5

-----------------------------------------------------------------------------
(* The node in use.                                                        *)

\* The entry of a sub-key in a node, and what it says if the node is in use.
EntryIn(n, k) == nodes[n].dir[S!SegmentNumber(k, nodes[n].gd)]

\* The entry of a thread's key is that of its key in its node.
LEMMA EntryIsIn ==
  ASSUME NEW t
  PROVE  /\ Entry(t) = EntryIn(th[t].node, th[t].key)
         /\ Entry(t)' = EntryIn(th[t].node, th[t].key)'
BY DEF Entry, EntryIn, Node!EntryOf, Node!SegmentNumber, Node!Slice, S!SegmentNumber, S!Slice

\* A key cut to the depth of a directory is an index of it.
LEMMA NumberType ==
  ASSUME NEW k \in Keys, NEW g \in Nat
  PROVE  k \in S!BitString(W) /\ S!SegmentNumber(k, g) \in S!BitString(g)
<1>1. k \in [1..W -> {0, 1}]
  BY SizesAssumption
<1>2. S!SegmentNumber(k, g) = [i \in 1..g |-> IF i <= W THEN k[i] ELSE 0]
  BY DEF S!SegmentNumber, S!Slice
<1>3. \A i \in 1..g : (IF i <= W THEN k[i] ELSE 0) \in {0, 1}
  BY <1>1, SizesAssumption
<1>4. QED
  BY <1>1, <1>2, <1>3 DEF S!BitString, S!Bit

\* An entry of the node in use leads to a segment that is in order.
LEMMA EntryFacts ==
  ASSUME NodesSound, NEW n \in 1..Len(nodes), InUse(n), NEW k \in Keys
  PROVE  LET e == EntryIn(n, k)
         IN  /\ e \in S!SegmentNode /\ e.ld \in Nat /\ e.ld <= nodes[n].gd
             /\ e.seg \in 1..Len(segs) /\ segs[e.seg] \in S!Segment
             /\ S!Ordered(e, segs[e.seg])
             /\ k \notin exposed => S!Once(e, segs[e.seg], k)
<1>1. PICK g, d, num, e : /\ g = nodes[n].gd /\ d = nodes[n].dir
                          /\ num = S!SegmentNumber(k, g) /\ e = d[num]
  OBVIOUS
<1>2. S!Directed(g, d, Len(segs)) /\ S!SegmentsOrdered(g, d, segs, Keys \ exposed)
  BY <1>1 DEF NodesSound, Sound
<1>3. num \in S!BitString(g)
  BY <1>1, <1>2, NumberType DEF S!Directed
<1>4. e \in S!SegmentNode /\ e.ld \in Nat /\ e.ld <= g /\ e.seg \in 1..Len(segs)
  BY <1>1, <1>2, <1>3 DEF S!Directed, S!SegmentNode
<1>5. S!Ordered(e, segs[e.seg]) /\ (k \notin exposed => S!Once(e, segs[e.seg], k))
  BY <1>1, <1>2, <1>3 DEF S!SegmentsOrdered
<1>6. segs[e.seg] \in S!Segment
  BY <1>4 DEF NodesSound
<1>7. QED
  BY <1>1, <1>4, <1>5, <1>6 DEF EntryIn

\* Two entries of the node in use with the same segment are the same.
LEMMA SameSegment ==
  ASSUME NodesSound, NEW n \in 1..Len(nodes), InUse(n), NEW k \in Keys, NEW l \in Keys,
         EntryIn(n, k).seg = EntryIn(n, l).seg
  PROVE  EntryIn(n, k) = EntryIn(n, l)
<1>1. PICK g, d : g = nodes[n].gd /\ d = nodes[n].dir
  OBVIOUS
<1>2. S!Directed(g, d, Len(segs))
  BY <1>1 DEF NodesSound, Sound
<1>3. S!SegmentNumber(k, g) \in S!BitString(g) /\ S!SegmentNumber(l, g) \in S!BitString(g)
  BY <1>2, NumberType DEF S!Directed
<1>4. QED
  BY <1>1, <1>2, <1>3 DEF S!Directed, EntryIn

\* Only one node is in use.
LEMMA OneInUse ==
  ASSUME LockingInv, exposed # Keys, NEW n, NEW m, InUse(n), InUse(m)
  PROVE  n = m
<1>1. CASE \E t \in Threads : th[t].pc = "publish"
  <2>1. PICK t \in Threads : th[t].pc = "publish" /\ n = th[t].node
    BY <1>1 DEF InUse
  <2>2. PICK u \in Threads : th[u].pc = "publish" /\ m = th[u].node
    BY <1>1 DEF InUse
  <2>3. <<"write", Directory(root)>> \in th[t].held
    BY <2>1 DEF LockingInv, RootHeld, HasRoot
  <2>4. u = t
    BY <2>2, <2>3, AloneWithRoot
  <2>5. QED
    BY <2>1, <2>2, <2>4
<1>2. CASE ~\E t \in Threads : th[t].pc = "publish"
  BY <1>2 DEF InUse
<1>3. QED
  BY <1>1, <1>2

\* Whoever reads under locks, or has the directory of the root to write and is
\* not publishing, sees that the root is the node in use.
LEMMA RootInUse ==
  ASSUME LockingInv, exposed # Keys, NEW t \in Threads, th[t].pc # "publish",
         \/ Reads(t)
         \/ <<"write", Directory(root)>> \in th[t].held
  PROVE  \A n : InUse(n) <=> n = root
<1>1. ASSUME NEW u \in Threads, th[u].pc = "publish" PROVE FALSE
  <2>1. <<"write", Directory(root)>> \in th[u].held /\ u # t
    BY <1>1 DEF LockingInv, RootHeld, HasRoot
  <2>2. QED
    BY <1>1, <2>1, AloneWithRoot
<1>2. QED
  BY <1>1 DEF InUse

\* What holds of a thread that works on the node in use.
LEMMA Works ==
  ASSUME LockingInv, NodesSound, NEW t \in Threads, th[t].pc # "idle", InUse(th[t].node)
  PROVE  /\ Entry(t) \in S!SegmentNode /\ Entry(t).ld \in Nat
         /\ Entry(t).ld <= nodes[th[t].node].gd
         /\ Entry(t).seg \in 1..Len(segs) /\ segs[Entry(t).seg] \in S!Segment
         /\ S!Ordered(Entry(t), segs[Entry(t).seg])
         /\ th[t].key \notin exposed => S!Once(Entry(t), segs[Entry(t).seg], th[t].key)
         /\ th[t].key \in S!BitString(W) /\ th[t].key \in Keys
         /\ th[t].node \in 1..Len(nodes)
<1>1. th[t].key \in Keys /\ th[t].node \in 1..Len(nodes)
  BY InCall DEF IsCall
<1>2. th[t].key \in S!BitString(W)
  BY <1>1, NumberType, 0 \in Nat
<1>3. QED
  BY <1>1, <1>2, EntryIsIn, EntryFacts

-----------------------------------------------------------------------------
(* Steps that change no node and no segment.                               *)

\* The fewer sub-keys are safe the less there is to know.
LEMMA LessSafe ==
  ASSUME NEW c, NEW r \in BOOLEAN, NEW used \in BOOLEAN, NEW g, NEW e, NEW s,
         NEW safe \in BOOLEAN, NEW safe2 \in BOOLEAN,
         safe2 => safe, Known(c, r, used, g, e, s, safe)
  PROVE  Known(c, r, used, g, e, s, safe2)
<1>1. \A k, at : S!SharedMissed(e, s, k, at, safe) => S!SharedMissed(e, s, k, at, safe2)
  BY DEF S!SharedMissed
<1>2. \A k, a, j : S!Chosen(e, s, k, a, j, safe) => S!Chosen(e, s, k, a, j, safe2)
  BY DEF S!Chosen
<1>3. \A k : S!BothFull(e, s, k, safe) => S!BothFull(e, s, k, safe2)
  BY DEF S!BothFull
<1>4. QED
  BY <1>1, <1>2, <1>3 DEF Known

\* The same of a directory.
LEMMA LessSound ==
  ASSUME exposed \subseteq exposed', UNCHANGED <<nodes, segs>>, NEW n, Sound(n)
  PROVE  Sound(n)'
BY DEF Sound, S!SegmentsOrdered

\* Thread t moves: what its own step must establish.
LEMMA Rests ==
  ASSUME LockingInv, SlotsInv, exposed # Keys, NEW t \in Threads,
         UNCHANGED <<nodes, segs>>, exposed \subseteq exposed', calls' \in Nat,
         \A u \in Threads \ {t} : th'[u] = th[u],
         \A n : InUse(n)' <=> InUse(n),
         root' = root \/ \A u \in Threads \ {t} : <<"write", Directory(root)>> \notin th[u].held,
         RacesExposed', Stands(t)', Knows(t)'
  PROVE  SlotsInv'
<1>1. NodesSound /\ RacesExposed /\ \A u \in Threads : Stands(u) /\ Knows(u)
  BY DEF SlotsInv
<1>2. NodesSound'
  BY <1>1, LessSound DEF NodesSound
<1>3. ASSUME NEW u \in Threads, u # t PROVE Stands(u)'
  <2>1. th'[u] = th[u] /\ Stands(u)
    BY <1>1, <1>3
  <2>2. (Reads(u)' <=> Reads(u)) /\ (Unguarded(u)' <=> Unguarded(u))
    BY <2>1 DEF Reads, Unguarded
  <2>3. <<"write", Directory(root)>> \in th[u].held => root' = root
    BY <1>3
  <2>4. QED
    BY <2>1, <2>2, <2>3 DEF Stands
<1>4. ASSUME NEW u \in Threads, u # t PROVE Knows(u)'
  <2>1. th'[u] = th[u] /\ Knows(u)
    BY <1>1, <1>4
  <2>2. PICK c, r, used, g, e, s, safe, safe2 :
           /\ c = th[u] /\ r = Reads(u) /\ used = InUse(th[u].node) /\ g = nodes[th[u].node].gd
           /\ e = Entry(u) /\ s = segs[Entry(u).seg]
           /\ safe = (th[u].key \notin exposed) /\ safe2 = (th[u].key \notin exposed')
    OBVIOUS
  <2>3. Known(c, r, used, g, e, s, safe)
    BY <2>1, <2>2 DEF Knows
  <2>4. r \in BOOLEAN /\ used \in BOOLEAN /\ safe \in BOOLEAN /\ safe2 \in BOOLEAN /\ (safe2 => safe)
    BY <2>2 DEF Reads, InUse
  <2>5. Known(c, r, used, g, e, s, safe2)
    BY ONLY <2>3, <2>4, LessSafe
  <2>6. Entry(u)' = e
    BY <2>1, <2>2, EntryIsIn DEF EntryIn
  <2>7. QED
    BY <2>1, <2>2, <2>5, <2>6 DEF Knows, Reads
<1>5. QED
  BY <1>1, <1>2, <1>3, <1>4 DEF SlotsInv

\* A thread that gets no new key and is no less guarded exposes nothing.
LEMMA RacesSame ==
  ASSUME RacesExposed, NEW t \in Threads, exposed \subseteq exposed',
         \A u \in Threads \ {t} : th'[u] = th[u],
         th'[t] # Idle => th[t] # Idle /\ th'[t].key = th[t].key,
         Unguarded(t)' => Unguarded(t)
  PROVE  RacesExposed'
<1> SUFFICES ASSUME NEW v \in Threads, NEW u \in Threads, v # u, Unguarded(v)', th'[u] # Idle
             PROVE  th'[v].key \in exposed' /\ th'[u].key \in exposed'
  BY DEF RacesExposed
<1>1. Unguarded(v)
  BY DEF Unguarded
<1>2. th[u] # Idle /\ th'[u].key = th[u].key
  OBVIOUS
<1>3. th'[v] # Idle
  BY DEF Unguarded, Idle
<1>4. th'[v].key = th[v].key
  BY <1>3
<1>5. QED
  BY <1>1, <1>2, <1>4 DEF RacesExposed

\* A step of a call that goes on, on the same node and for the same key.
Goes(t) == /\ \A u \in Threads \ {t} : th'[u] = th[u]
           /\ th[t].pc \notin {"idle", "publish"} /\ th'[t].pc \notin {"idle", "publish"}
           /\ UNCHANGED <<nodes, root, segs, exposed, calls>>

\* Such a step does not change which node is in use.
LEMMA UseSame ==
  ASSUME NEW t \in Threads, Goes(t), NEW n
  PROVE  InUse(n)' <=> InUse(n)
<1>1. \A u \in Threads : th'[u].pc = "publish" <=> th[u].pc = "publish"
  BY DEF Goes
<1>2. \A u \in Threads : th[u].pc = "publish" => th'[u].node = th[u].node
  BY DEF Goes
<1>3. root' = root
  BY DEF Goes
<1>4. QED
  BY <1>1, <1>2, <1>3 DEF InUse

\* If what the thread then knows is right, the invariant is kept.
LEMMA Stays ==
  ASSUME LockingInv, SlotsInv, exposed # Keys, NEW t \in Threads, Goes(t),
         th'[t].key = th[t].key, th'[t].node = th[t].node, th'[t].unguarded = th[t].unguarded,
         Stands(t)',
         Known(th'[t], Reads(t)', InUse(th[t].node), nodes[th[t].node].gd,
               Entry(t), segs[Entry(t).seg], th[t].key \notin exposed)
  PROVE  SlotsInv'
<1>1. th[t] # Idle
  BY DEF Goes, Idle
<1>2. RacesExposed'
  <2>1. Unguarded(t)' => Unguarded(t)
    BY DEF Unguarded, Goes
  <2>2. RacesExposed /\ exposed \subseteq exposed' /\ \A u \in Threads \ {t} : th'[u] = th[u]
    BY DEF SlotsInv, Goes
  <2>3. QED
    BY ONLY <1>1, <2>1, <2>2, RacesSame, t \in Threads, th'[t].key = th[t].key
<1>3. Entry(t)' = Entry(t)
  BY EntryIsIn DEF EntryIn, Goes
<1>4. Knows(t)'
  <2>1. InUse(th[t].node)' <=> InUse(th[t].node)
    BY UseSame
  <2>2. InUse(th[t].node)' \in BOOLEAN /\ InUse(th[t].node) \in BOOLEAN
    BY DEF InUse
  <2>3. UNCHANGED <<nodes, segs, exposed>>
    BY DEF Goes
  <2>4. QED
    BY <1>3, <2>1, <2>2, <2>3 DEF Knows
<1>5. calls' \in Nat
  BY DEF SlotsInv, Goes
<1>6. \A n : InUse(n)' <=> InUse(n)
  BY UseSame
<1>7. QED
  BY <1>2, <1>4, <1>5, <1>6, Rests DEF Goes

\* A step that leaves the call waiting for its first lock or at its end.
LEMMA Leaves ==
  ASSUME LockingInv, SlotsInv, exposed # Keys, NEW t \in Threads,
         \A u \in Threads \ {t} : th'[u] = th[u], th[t].pc \notin {"idle", "publish"},
         UNCHANGED <<nodes, root, segs, exposed, calls>>,
         \/ th'[t] = Idle
         \/ /\ th'[t].pc = "root" \/ (th'[t].pc = "segment" /\ Reads(t)')
            /\ th'[t].key = th[t].key /\ th'[t].kind = th[t].kind /\ th'[t].val = th[t].val
            /\ th'[t].unguarded = th[t].unguarded /\ ~Unguarded(t)
  PROVE  SlotsInv'
<1>1. th[t] # Idle /\ th'[t].pc \in {"idle", "root", "segment"}
  BY DEF Idle
<1>2. th[t].kind \in {"insert", "search"} /\ th[t].val \in Values
  BY DEF SlotsInv, Knows, Known
<1>3. ~Unguarded(t)'
  BY DEF Unguarded, Idle
<1>4. RacesExposed'
  <2>1. RacesExposed /\ exposed \subseteq exposed' /\ (th'[t] # Idle => th'[t].key = th[t].key)
    BY DEF SlotsInv
  <2>2. QED
    BY <1>1, <1>3, <2>1, RacesSame
<1>5. Stands(t)'
  BY <1>1, <1>3 DEF Stands, Idle
<1>6. Knows(t)'
  <2>1. th'[t].pc # "idle" => th'[t].kind = th[t].kind /\ th'[t].val = th[t].val
    BY DEF Idle
  <2>2. QED
    BY <1>1, <1>2, <2>1 DEF Knows, Known
<1>7. ASSUME NEW n PROVE InUse(n)' <=> InUse(n)
  <2>1. \A u \in Threads : th'[u].pc = "publish" <=> th[u].pc = "publish"
    BY <1>1
  <2>2. \A u \in Threads : th[u].pc = "publish" => th'[u].node = th[u].node
    BY <1>1
  <2>3. QED
    BY <2>1, <2>2 DEF InUse
<1>8. calls' \in Nat
  BY DEF SlotsInv
<1>9. QED
  BY <1>4, <1>5, <1>6, <1>7, <1>8, Rests

\* What the scans look at.
LEMMA ScanParts ==
  ASSUME NEW t, NEW e, e = th[t].e, NEW k, k = th[t].key
  PROVE  /\ BucketAt(t, "shared") = S!SharedAddr(k, e) /\ BucketAt(t, "main") = S!MainAddr(k, e)
         /\ VersionAt(t, "shared") = S!SharedVersion(e) /\ VersionAt(t, "main") = S!MainVersion(e)
         /\ \A step : FoundAt(t, step) \subseteq 1..Slots
         /\ \A step : th[t].kind = "insert" =>
               FoundAt(t, step) = S!Hits(segs[e.seg][BucketAt(t, step)], VersionAt(t, step), k)
         /\ \A step : FreeAt(t, step) =
               {BucketAt(t, step)} \X S!FirstDead(segs[e.seg][BucketAt(t, step)], VersionAt(t, step))
<1>0. PICK n : n = th[t].node
  OBVIOUS
<1>1. BucketAt(t, "shared") = S!SharedAddr(k, e) /\ BucketAt(t, "main") = S!MainAddr(k, e)
  <2>1. Node(n, Quiet)!SharedAddr(k, e) = S!SharedAddr(k, e) /\ Node(n, Quiet)!MainAddr(k, e) = S!MainAddr(k, e)
    BY ONLY SameOperators
  <2>2. QED
    BY <1>0, <2>1 DEF BucketAt
<1>2. VersionAt(t, "shared") = S!SharedVersion(e) /\ VersionAt(t, "main") = S!MainVersion(e)
  BY DEF VersionAt, S!SharedVersion, S!MainVersion
<1>3. ASSUME NEW step PROVE FoundAt(t, step) \subseteq 1..Slots
  BY DEF FoundAt, Node!Hits, Node!Matches
<1>4. ASSUME NEW step, th[t].kind = "insert"
      PROVE  FoundAt(t, step) = S!Hits(segs[e.seg][BucketAt(t, step)], VersionAt(t, step), k)
  BY <1>4, SameOperators DEF FoundAt
<1>5. ASSUME NEW step
      PROVE  FreeAt(t, step) =
               {BucketAt(t, step)} \X S!FirstDead(segs[e.seg][BucketAt(t, step)], VersionAt(t, step))
  <2>1. PICK b, v : b = segs[e.seg][BucketAt(t, step)] /\ v = VersionAt(t, step)
    OBVIOUS
  <2>2. Node(n, Quiet)!FirstDead(b, v) = S!FirstDead(b, v)
    BY ONLY SameOperators
  <2>3. QED
    BY <1>0, <2>1, <2>2 DEF FreeAt
<1>6. QED
  BY <1>1, <1>2, <1>3, <1>4, <1>5

\* The least of the slots a scan reports.
LEMMA LeastFound ==
  ASSUME NEW A \in SUBSET (1..Slots), A # {}
  PROVE  Min(A) \in 1..Slots
<1>1. PICK x \in A : \A y \in A : x <= y
  BY NA, S!LeastSlot
<1>2. Min(A) \in A
  BY <1>1 DEF Min
<1>3. QED
  BY <1>2

\* No bucket has a free slot when there is no free slot of it.
LEMMA NoPairs ==
  ASSUME NEW a, NEW F
  PROVE  ({a} \X F = {}) <=> (F = {})
<1>1. ASSUME NEW x \in F PROVE <<a, x>> \in {a} \X F
  OBVIOUS
<1>2. ASSUME NEW y \in {a} \X F PROVE y[2] \in F
  OBVIOUS
<1>3. QED
  BY <1>1, <1>2

\* What a thread knows, in the names the steps use.
LEMMA KnownFacts ==
  ASSUME SlotsInv, exposed # Keys, NEW t \in Threads
  PROVE  /\ NodesSound /\ RacesExposed /\ Stands(t)
         /\ Known(th[t], Reads(t), InUse(th[t].node), nodes[th[t].node].gd,
                  Entry(t), segs[Entry(t).seg], th[t].key \notin exposed)
         /\ Reads(t) \in BOOLEAN /\ InUse(th[t].node) \in BOOLEAN
BY DEF SlotsInv, Knows, Reads, InUse

\* A call that begins while a thread is unguarded is exposed, and so is
\* everyone else.
LEMMA SlotsBegin ==
  ASSUME LockingInv, SlotsInv, exposed # Keys, NEW t \in Threads,
         NEW kind \in {"insert", "search"}, NEW k \in Keys, Begin(t, kind, k)
  PROVE  SlotsInv'
<1>1. PICK c : c = [pc |-> "root", kind |-> kind, key |-> k, val |-> calls + 1,
                 held |-> {}, node |-> root, e |-> Idle, at |-> <<>>, read |-> None,
                 unguarded |-> FALSE, done |-> done[k], current |-> current[k]]
  OBVIOUS
<1>2. /\ c.pc = "root" /\ c.kind = kind /\ c.key = k /\ c.val = calls + 1 /\ c.held = {}
      /\ c.unguarded = FALSE /\ c # Idle
  BY ONLY <1>1 DEF Idle
<1>3. th' = [th EXCEPT ![t] = c] /\ UNCHANGED <<nodes, root, segs>> /\ calls < MaxCalls /\ calls' = calls + 1
  BY <1>1 DEF Begin
<1>4. th'[t] = c /\ \A u \in Threads \ {t} : th'[u] = th[u]
  BY <1>3 DEF LockingInv, Shape
<1>5. calls \in Nat /\ calls' \in Nat /\ calls + 1 \in Values
  BY <1>3, CallsAssumption DEF SlotsInv, Values
<1>6. th[t] = Idle /\ th[t].pc = "idle"
  BY DEF Begin, Idle
<1>7. exposed \subseteq exposed'
  BY DEF Begin
<1>8. RacesExposed'
  <2> SUFFICES ASSUME NEW v \in Threads, NEW u \in Threads, v # u, Unguarded(v)', th'[u] # Idle
               PROVE  th'[v].key \in exposed' /\ th'[u].key \in exposed'
    BY DEF RacesExposed
  <2>1. v # t /\ th'[v] = th[v] /\ Unguarded(v) /\ th[v] # Idle
    BY <1>2, <1>4 DEF Unguarded, Idle
  <2>2. exposed' = exposed \union {k} \union KeysInHand
    BY <2>1 DEF Begin
  <2>3. th[v].key \in KeysInHand /\ (u # t => th[u].key \in KeysInHand)
    BY <1>4, <2>1 DEF KeysInHand
  <2>4. QED
    BY <1>2, <1>4, <2>1, <2>2, <2>3
<1>9. Stands(t)' /\ Knows(t)'
  <2>1. Stands(t)'
    BY <1>2, <1>4 DEF Stands, Unguarded
  <2>2. Knows(t)'
    BY <1>2, <1>4, <1>5 DEF Knows, Known
  <2>3. QED
    BY <2>1, <2>2
<1>10. ASSUME NEW n PROVE InUse(n)' <=> InUse(n)
  <2>1. \A u \in Threads : th'[u].pc = "publish" <=> th[u].pc = "publish"
    BY <1>2, <1>4, <1>6
  <2>2. \A u \in Threads : th[u].pc = "publish" => th'[u].node = th[u].node
    BY <1>4, <1>6
  <2>3. QED
    BY <1>3, <2>1, <2>2 DEF InUse
<1>11. QED
  BY <1>3, <1>4, <1>5, <1>7, <1>8, <1>9, <1>10, Rests

\* Steps after which the call waits for its first lock, or has ended.
LEMMA SlotsRestart ==
  ASSUME LockingInv, SlotsInv, exposed # Keys, NEW t \in Threads,
         UNCHANGED <<nodes, root, segs, exposed, calls>>,
         th[t].pc \in {"found", "free", "alone"}, th' = [th EXCEPT ![t] = Restarted(t)]
  PROVE  SlotsInv'
<1>1. PICK c, d : c = th[t] /\ d = Restarted(t)
  OBVIOUS
<1>2. c = [f \in Fields |-> c[f]]
  BY <1>1, InCall DEF IsCall
<1>3. d = [c EXCEPT !.pc = "root", !.held = {}, !.e = Idle, !.at = <<>>, !.read = None]
  BY <1>1 DEF Restarted
<1>4. /\ d.pc = "root" /\ d.key = c.key /\ d.kind = c.kind /\ d.val = c.val
      /\ d.unguarded = c.unguarded
  BY ONLY <1>2, <1>3 DEF Fields
<1>5. th'[t] = d /\ \A u \in Threads \ {t} : th'[u] = th[u]
  BY <1>1 DEF LockingInv, Shape
<1>6. ~Unguarded(t)
  BY KnownFacts DEF Stands
<1>7. /\ th'[t].pc = "root" /\ th'[t].key = th[t].key /\ th'[t].kind = th[t].kind
      /\ th'[t].val = th[t].val /\ th'[t].unguarded = th[t].unguarded
      /\ th[t].pc \notin {"idle", "publish"}
  BY <1>1, <1>4, <1>5
<1>8. UNCHANGED <<nodes, root, segs, exposed, calls>>
  OBVIOUS
<1>9. QED
  BY ONLY <1>5, <1>6, <1>7, <1>8, Leaves, LockingInv, SlotsInv, exposed # Keys, t \in Threads

\* A call that returns.
LEMMA SlotsReturn ==
  ASSUME LockingInv, SlotsInv, exposed # Keys, NEW t \in Threads, ReturnInsert(t) \/ ReturnSearch(t)
  PROVE  SlotsInv'
<1>1. /\ th' = [th EXCEPT ![t] = Idle] /\ UNCHANGED <<nodes, root, segs, exposed, calls>>
      /\ th[t].pc \notin {"idle", "publish"}
  BY DEF ReturnInsert, ReturnSearch, Same
<1>2. th'[t] = Idle /\ \A u \in Threads \ {t} : th'[u] = th[u]
  BY <1>1 DEF LockingInv, Shape
<1>3. QED
  BY <1>1, <1>2, Leaves

\* The directory of the root is read.
LEMMA SlotsDirectory ==
  ASSUME LockingInv, SlotsInv, exposed # Keys, NEW t \in Threads, LockDirectory(t)
  PROVE  SlotsInv'
<1>1. UNCHANGED <<nodes, root, segs, exposed, calls>> /\ th[t].pc = "root"
  BY DEF LockDirectory, Same
<1>2. PICK c, d, h, e : /\ c = th[t] /\ d = th'[t] /\ h = {<<"read", Directory(root)>>}
                        /\ e = Node(root, Quiet)!EntryOf(th[t].key)
  OBVIOUS
<1>3. th' = [th EXCEPT ![t].pc = "segment", ![t].node = root, ![t].held = h, ![t].e = e]
  BY <1>2 DEF LockDirectory
<1>4. /\ \A u \in Threads \ {t} : th'[u] = th[u]
      /\ d = [c EXCEPT !.pc = "segment", !.node = root, !.held = h, !.e = e]
  BY ONLY <1>2, <1>3, LockingInv, t \in Threads DEF LockingInv, Shape
<1>5. c = [f \in Fields |-> c[f]]
  BY <1>1, <1>2, InCall DEF IsCall
<1>6. /\ d.pc = "segment" /\ d.key = c.key /\ d.kind = c.kind /\ d.val = c.val
      /\ d.unguarded = c.unguarded /\ d.held = h
  BY ONLY <1>4, <1>5 DEF Fields
<1>7. Reads(t)'
  BY <1>2, <1>6 DEF Reads
<1>8. ~Unguarded(t)
  BY <1>1, KnownFacts DEF Stands
<1>9. /\ th'[t].pc = "segment" /\ th'[t].key = th[t].key /\ th'[t].kind = th[t].kind
      /\ th'[t].val = th[t].val /\ th'[t].unguarded = th[t].unguarded
      /\ th[t].pc \notin {"idle", "publish"}
  BY <1>1, <1>2, <1>6
<1>10. QED
  BY ONLY <1>1, <1>4, <1>7, <1>8, <1>9, Leaves, LockingInv, SlotsInv, exposed # Keys, t \in Threads

\* The entry read under both locks is the one in the directory.
LEMMA SlotsSegment ==
  ASSUME LockingInv, SlotsInv, exposed # Keys, NEW t \in Threads, LockSegment(t)
  PROVE  SlotsInv'
<1>1. UNCHANGED <<nodes, root, segs, exposed, calls>> /\ th[t].pc = "segment"
  BY DEF LockSegment, Same
<1>2. PICK c, d, lock, f : /\ c = th[t] /\ d = th'[t] /\ lock = <<"read", SegmentLock(th[t].e.seg)>>
                           /\ f = [ld |-> Entry(t).ld, off |-> Entry(t).off, seg |-> th[t].e.seg]
  OBVIOUS
<1>3. th' = [th EXCEPT ![t].pc = "shared", ![t].held = @ \union {lock}, ![t].e = f]
  BY <1>2 DEF LockSegment
<1>4. /\ \A u \in Threads \ {t} : th'[u] = th[u]
      /\ d = [c EXCEPT !.pc = "shared", !.held = @ \union {lock}, !.e = f]
  BY ONLY <1>2, <1>3, LockingInv, t \in Threads DEF LockingInv, Shape
<1>5. c = [x \in Fields |-> c[x]]
  BY <1>1, <1>2, InCall DEF IsCall
<1>6. /\ d.pc = "shared" /\ d.key = c.key /\ d.kind = c.kind /\ d.val = c.val /\ d.node = c.node
      /\ d.unguarded = c.unguarded /\ d.held = c.held \union {lock} /\ d.e = f
  BY ONLY <1>4, <1>5 DEF Fields
<1>7. Reads(t) /\ Reads(t)'
  BY <1>1, <1>2, <1>6, KnownFacts DEF Stands, Reads
<1>8. th[t].node = root /\ th[t].e.seg = Entry(t).seg
  BY <1>1, <1>7 DEF LockingInv, RootHeld, HasRoot
<1>9. InUse(th[t].node)
  BY <1>1, <1>7, <1>8, RootInUse
<1>10. f = Entry(t)
  <2>1. Entry(t) \in S!SegmentNode
    BY <1>1, <1>9, KnownFacts, Works
  <2>2. PICK e : e = Entry(t)
    OBVIOUS
  <2>3. QED
    BY <1>2, <1>8, <2>1, <2>2 DEF S!SegmentNode
<1>11. Stands(t)'
  BY <1>1, <1>2, <1>6, <1>7, KnownFacts DEF Stands, Unguarded
<1>12. ASSUME NEW r, NEW g, NEW s, NEW safe PROVE Known(d, r, TRUE, g, f, s, safe)
  <2>1. c.kind \in {"insert", "search"} /\ c.val \in Values
    BY <1>1, <1>2, KnownFacts DEF Known
  <2>2. QED
    BY <1>6, <2>1 DEF Known
<1>13. Goes(t)
  BY <1>1, <1>2, <1>4, <1>6 DEF Goes
<1>14. Known(th'[t], Reads(t)', InUse(th[t].node), nodes[th[t].node].gd,
             Entry(t), segs[Entry(t).seg], th[t].key \notin exposed)
  <2>1. InUse(th[t].node) = TRUE
    BY <1>9 DEF InUse
  <2>2. QED
    BY <1>2, <1>10, <1>12, <2>1
<1>15. QED
  BY <1>2, <1>6, <1>11, <1>13, <1>14, Stays

\* A scan that finds the sub-key has the address of a slot.
LEMMA SlotsFind ==
  ASSUME LockingInv, SlotsInv, exposed # Keys, NEW t \in Threads,
         NEW step \in {"shared", "main"}, Find(t, step)
  PROVE  SlotsInv'
<1>1. UNCHANGED <<nodes, root, segs, exposed, calls>> /\ th[t].pc = step
  BY DEF Find, Scanning, Same
<1>2. PICK c, d, at, r : /\ c = th[t] /\ d = th'[t]
                         /\ at = <<BucketAt(t, step), Min(FoundAt(t, step))>>
                         /\ r = segs[th[t].e.seg][at[1]][at[2]].val
  OBVIOUS
<1>3. th' = [th EXCEPT ![t].pc = "found", ![t].at = at, ![t].read = r]
  BY <1>2 DEF Find
<1>4. /\ \A u \in Threads \ {t} : th'[u] = th[u]
      /\ d = [c EXCEPT !.pc = "found", !.at = at, !.read = r]
  BY ONLY <1>2, <1>3, LockingInv, t \in Threads DEF LockingInv, Shape
<1>5. c = [x \in Fields |-> c[x]]
  BY <1>1, <1>2, InCall DEF IsCall
<1>6. /\ d.pc = "found" /\ d.key = c.key /\ d.kind = c.kind /\ d.val = c.val /\ d.node = c.node
      /\ d.unguarded = c.unguarded /\ d.held = c.held /\ d.e = c.e /\ d.at = at
  BY ONLY <1>4, <1>5 DEF Fields
<1>7. Reads(t) /\ Reads(t)'
  BY <1>1, <1>2, <1>6, KnownFacts DEF Stands, Reads
<1>8. InUse(th[t].node) /\ th[t].e = Entry(t)
  BY <1>1, KnownFacts DEF Known
<1>9. at[1] \in S!Addr /\ at[2] \in 1..Slots
  <2>1. th[t].e \in S!SegmentNode /\ th[t].key \in S!BitString(W)
    BY <1>1, <1>8, KnownFacts, Works
  <2>2. BucketAt(t, step) \in S!Addr
    BY <2>1, ScanParts, NA, S!TwoBuckets
  <2>3. FoundAt(t, step) \in SUBSET (1..Slots) /\ FoundAt(t, step) # {}
    BY ScanParts DEF Find
  <2>4. QED
    BY <1>2, <2>2, <2>3, LeastFound
<1>10. Stands(t)'
  BY <1>1, <1>2, <1>6, <1>7, KnownFacts DEF Stands, Unguarded
<1>11. ASSUME NEW q, NEW g, NEW s, NEW safe PROVE Known(d, q, TRUE, g, c.e, s, safe)
  <2>1. c.kind \in {"insert", "search"} /\ c.val \in Values
    BY <1>1, <1>2, KnownFacts DEF Known
  <2>2. QED
    BY <1>6, <1>9, <2>1 DEF Known
<1>12. Goes(t)
  BY <1>1, <1>2, <1>4, <1>6 DEF Goes
<1>13. Known(th'[t], Reads(t)', InUse(th[t].node), nodes[th[t].node].gd,
             Entry(t), segs[Entry(t).seg], th[t].key \notin exposed)
  <2>1. InUse(th[t].node) = TRUE
    BY <1>8 DEF InUse
  <2>2. QED
    BY <1>2, <1>8, <1>11, <2>1
<1>14. QED
  BY <1>2, <1>6, <1>10, <1>12, <1>13, Stays

\* A scan of the shared bucket that misses the sub-key has looked at every slot
\* that counts.
LEMMA SlotsMissShared ==
  ASSUME LockingInv, SlotsInv, exposed # Keys, NEW t \in Threads, MissShared(t)
  PROVE  SlotsInv'
<1>1. UNCHANGED <<nodes, root, segs, exposed, calls>> /\ th[t].pc = "shared"
  BY DEF MissShared, Scanning, Same
<1>2. PICK at : /\ IF FreeAt(t, "shared") = {} THEN at = <<>> ELSE at \in FreeAt(t, "shared")
                /\ th' = [th EXCEPT ![t].pc = "main", ![t].at = at]
  BY DEF MissShared
<1>3. PICK c, d, e, s, k, safe : /\ c = th[t] /\ d = th'[t] /\ e = Entry(t) /\ s = segs[Entry(t).seg]
                                 /\ k = th[t].key /\ safe = (th[t].key \notin exposed)
  OBVIOUS
<1>4. /\ \A u \in Threads \ {t} : th'[u] = th[u]
      /\ d = [c EXCEPT !.pc = "main", !.at = at]
  BY ONLY <1>2, <1>3, LockingInv, t \in Threads DEF LockingInv, Shape
<1>5. c = [x \in Fields |-> c[x]]
  BY <1>1, <1>3, InCall DEF IsCall
<1>6. /\ d.pc = "main" /\ d.key = c.key /\ d.kind = c.kind /\ d.val = c.val /\ d.node = c.node
      /\ d.unguarded = c.unguarded /\ d.held = c.held /\ d.e = c.e /\ d.at = at
  BY ONLY <1>4, <1>5 DEF Fields
<1>7. Reads(t) /\ Reads(t)'
  BY <1>1, <1>3, <1>6, KnownFacts DEF Stands, Reads
<1>8. InUse(th[t].node) /\ th[t].e = e
  BY <1>1, <1>3, KnownFacts DEF Known
<1>9. e \in S!SegmentNode /\ k \in S!BitString(W) /\ S!Ordered(e, s) /\ safe \in BOOLEAN
  BY <1>1, <1>3, <1>8, KnownFacts, Works
<1>10. c.kind = "insert" => S!SharedMissed(e, s, k, at, safe)
  <2>1. PICK a, v : a = S!SharedAddr(k, e) /\ v = S!SharedVersion(e)
    OBVIOUS
  <2>2. BucketAt(t, "shared") = a /\ VersionAt(t, "shared") = v /\ s = segs[th[t].e.seg]
    BY <1>3, <1>8, <2>1, ScanParts
  <2>3. FreeAt(t, "shared") = {a} \X S!FirstDead(s[a], v)
    BY <1>3, <1>8, <2>2, ScanParts
  <2>4. c.kind = "insert" => S!Hits(s[a], v, k) = {}
    BY <1>3, <1>8, <2>2, ScanParts DEF MissShared
  <2>5. IF S!FirstDead(s[a], v) = {} THEN at = <<>> ELSE at \in {a} \X S!FirstDead(s[a], v)
    <3>1. PICK F : F = S!FirstDead(s[a], v)
      OBVIOUS
    <3>2. ({a} \X F = {}) <=> (F = {})
      BY NoPairs
    <3>3. QED
      BY ONLY <1>2, <2>3, <3>1, <3>2
  <2>6. QED
    BY ONLY <1>9, <2>1, <2>4, <2>5, NA, S!SharedScanned
<1>11. Stands(t)'
  BY <1>1, <1>3, <1>6, <1>7, KnownFacts DEF Stands, Unguarded
<1>12. ASSUME NEW q, NEW g PROVE Known(d, q, TRUE, g, e, s, safe)
  <2>1. c.kind \in {"insert", "search"} /\ c.val \in Values
    BY <1>1, <1>3, KnownFacts DEF Known
  <2>2. QED
    BY <1>3, <1>6, <1>8, <1>10, <2>1 DEF Known
<1>13. Goes(t)
  BY <1>1, <1>3, <1>4, <1>6 DEF Goes
<1>14. Known(th'[t], Reads(t)', InUse(th[t].node), nodes[th[t].node].gd,
             Entry(t), segs[Entry(t).seg], th[t].key \notin exposed)
  <2>1. InUse(th[t].node) = TRUE
    BY <1>8 DEF InUse
  <2>2. QED
    BY <1>3, <1>8, <1>12, <2>1
<1>15. QED
  BY <1>3, <1>6, <1>11, <1>13, <1>14, Stays

\* After a scan of the main bucket that misses it the insert has chosen a free
\* slot, or both buckets are full.
LEMMA SlotsMissMain ==
  ASSUME LockingInv, SlotsInv, exposed # Keys, NEW t \in Threads, MissMain(t)
  PROVE  SlotsInv'
<1>1. UNCHANGED <<nodes, root, segs, exposed, calls>> /\ th[t].pc = "main"
  BY DEF MissMain, Scanning, Same
<1>2. PICK c, d, e, s, k, safe : /\ c = th[t] /\ d = th'[t] /\ e = Entry(t) /\ s = segs[Entry(t).seg]
                                 /\ k = th[t].key /\ safe = (th[t].key \notin exposed)
  OBVIOUS
<1>3. c = [x \in Fields |-> c[x]]
  BY <1>1, <1>2, InCall DEF IsCall
<1>4. PICK a, v : a = S!MainAddr(k, e) /\ v = S!MainVersion(e)
  OBVIOUS
<1> DEFINE New(pc, at, held) == /\ d.pc = pc /\ d.at = at /\ d.held = held
                                /\ d.key = c.key /\ d.kind = c.kind /\ d.val = c.val
                                /\ d.node = c.node /\ d.unguarded = c.unguarded /\ d.e = c.e
                                /\ \A u \in Threads \ {t} : th'[u] = th[u]
<1>5. PICK at, pc, held :
        /\ New(pc, at, held)
        /\ \/ pc = "answer" /\ held = c.held
           \/ pc = "free" /\ held = c.held /\ c.kind = "insert" /\ at = c.at /\ at # <<>>
           \/ pc = "free" /\ held = c.held /\ c.kind = "insert" /\ c.at = <<>> /\ at \in FreeAt(t, "main")
           \/ pc = "full" /\ held = {} /\ c.kind = "insert" /\ c.at = <<>> /\ FreeAt(t, "main") = {}
  <2>1. th = [u \in Threads |-> th[u]] /\ c = th[t] /\ t \in Threads /\ d = th'[t]
    BY <1>2 DEF LockingInv, Shape
  <2>2. ASSUME NEW p, th' = [th EXCEPT ![t].pc = p] PROVE New(p, c.at, c.held)
    BY ONLY <1>3, <2>1, <2>2 DEF Fields
  <2>3. ASSUME NEW p, NEW x, th' = [th EXCEPT ![t].pc = p, ![t].at = x] PROVE New(p, x, c.held)
    BY ONLY <1>3, <2>1, <2>3 DEF Fields
  <2>4. ASSUME NEW p, NEW h, th' = [th EXCEPT ![t].pc = p, ![t].held = h] PROVE New(p, c.at, h)
    BY ONLY <1>3, <2>1, <2>4 DEF Fields
  <2> HIDE DEF New
  <2>5. CASE c.kind = "search" /\ th' = [th EXCEPT ![t].pc = "answer"]
    BY <2>2, <2>5
  <2>6. CASE c.kind = "insert" /\ c.at # <<>> /\ th' = [th EXCEPT ![t].pc = "free"]
    BY <2>2, <2>6
  <2>7. CASE /\ c.kind = "insert" /\ c.at = <<>>
             /\ \E x \in FreeAt(t, "main") : th' = [th EXCEPT ![t].pc = "free", ![t].at = x]
    <3>1. PICK x \in FreeAt(t, "main") : th' = [th EXCEPT ![t].pc = "free", ![t].at = x]
      BY <2>7
    <3>2. New("free", x, c.held)
      BY <2>3, <3>1
    <3>3. QED
      BY <2>7, <3>2
  <2>8. CASE /\ c.kind = "insert" /\ c.at = <<>> /\ FreeAt(t, "main") = {}
             /\ th' = [th EXCEPT ![t].pc = "full", ![t].held = {}]
    <3>1. New("full", c.at, {})
      BY <2>4, <2>8
    <3>2. QED
      BY <2>8, <3>1
  <2>9. QED
    BY <1>2, <2>5, <2>6, <2>7, <2>8 DEF MissMain
<1>6. /\ \A u \in Threads \ {t} : th'[u] = th[u]
      /\ d.pc = pc /\ d.key = c.key /\ d.kind = c.kind /\ d.val = c.val /\ d.node = c.node
      /\ d.unguarded = c.unguarded /\ d.held = held /\ d.e = c.e /\ d.at = at
  BY <1>5
<1>7. pc \in {"answer", "free", "full"}
  BY <1>5
<1> HIDE DEF New
<1>8. InUse(th[t].node) /\ th[t].e = e
  BY <1>1, <1>2, KnownFacts DEF Known
<1>9. e \in S!SegmentNode /\ e.ld \in Nat /\ k \in S!BitString(W) /\ S!Ordered(e, s) /\ safe \in BOOLEAN
  BY <1>1, <1>2, <1>8, KnownFacts, Works
<1>10. FreeAt(t, "main") = {a} \X S!FirstDead(s[a], v) /\ (c.kind = "insert" => S!Hits(s[a], v, k) = {})
  <2>1. BucketAt(t, "main") = a /\ VersionAt(t, "main") = v /\ s = segs[th[t].e.seg]
    BY <1>2, <1>4, <1>8, ScanParts
  <2>2. FreeAt(t, "main") = {a} \X S!FirstDead(s[a], v)
    BY <1>2, <1>8, <2>1, ScanParts
  <2>3. c.kind = "insert" => S!Hits(s[a], v, k) = {}
    BY <1>2, <1>8, <2>1, ScanParts DEF MissMain
  <2>4. QED
    BY <2>2, <2>3
<1>11. /\ pc = "free" => S!Chosen(e, s, k, at[1], at[2], safe) /\ S!Preferred(e, s, k, at[1], at[2])
       /\ pc = "full" => S!BothFull(e, s, k, safe)
  <2>1. c.kind = "insert" => S!SharedMissed(e, s, k, c.at, safe)
    BY <1>1, <1>2, KnownFacts DEF Known
  <2>2. c.kind = "insert" =>
          /\ c.at # <<>> => S!Chosen(e, s, k, c.at[1], c.at[2], safe) /\ S!Preferred(e, s, k, c.at[1], c.at[2])
          /\ c.at = <<>> =>
              /\ \A x \in {a} \X S!FirstDead(s[a], v) :
                    S!Chosen(e, s, k, x[1], x[2], safe) /\ S!Preferred(e, s, k, x[1], x[2])
              /\ S!FirstDead(s[a], v) = {} => S!BothFull(e, s, k, safe)
    BY ONLY <1>4, <1>9, <1>10, <2>1, NA, S!MainScanned
  <2>3. PICK F : F = S!FirstDead(s[a], v)
    OBVIOUS
  <2>4. ({a} \X F = {}) => (F = {})
    BY NoPairs
  <2>5. QED
    BY ONLY <1>5, <1>10, <2>2, <2>3, <2>4
<1>12. Reads(t)
  BY <1>1, KnownFacts DEF Stands
<1>13. Stands(t)'
  BY <1>1, <1>2, <1>5, <1>6, <1>12, KnownFacts DEF Stands, Unguarded, Reads
<1>14. ASSUME NEW q, NEW g PROVE Known(d, q, TRUE, g, e, s, safe)
  <2>1. c.kind \in {"insert", "search"} /\ c.val \in Values
    BY <1>1, <1>2, KnownFacts DEF Known
  <2>2. CASE pc = "answer"
    BY <1>6, <2>1, <2>2 DEF Known
  <2>3. CASE pc = "free"
    BY <1>2, <1>6, <1>8, <1>11, <2>1, <2>3 DEF Known
  <2>4. CASE pc = "full"
    BY <1>2, <1>6, <1>8, <1>9, <1>11, <2>1, <2>4 DEF Known
  <2>5. QED
    BY <1>7, <2>2, <2>3, <2>4
<1>15. Goes(t)
  BY <1>1, <1>2, <1>6, <1>7 DEF Goes
<1>16. Known(th'[t], Reads(t)', InUse(th[t].node), nodes[th[t].node].gd,
             Entry(t), segs[Entry(t).seg], th[t].key \notin exposed)
  <2>1. InUse(th[t].node) = TRUE
    BY <1>8 DEF InUse
  <2>2. QED
    BY <1>2, <1>8, <1>14, <2>1
<1>17. QED
  BY <1>2, <1>6, <1>13, <1>15, <1>16, Stays

\* search returns the value it read or starts again.
LEMMA SlotsLookAgain ==
  ASSUME LockingInv, SlotsInv, exposed # Keys, NEW t \in Threads, LookAgain(t)
  PROVE  SlotsInv'
<1>1. UNCHANGED <<nodes, root, segs, exposed, calls>> /\ th[t].pc = "found"
  BY DEF LookAgain, Same
<1>2. CASE th' = [th EXCEPT ![t] = Restarted(t)]
  BY <1>1, <1>2, SlotsRestart
<1>3. CASE th' = [th EXCEPT ![t] = [@ EXCEPT !.pc = "answer"]]
  <2>1. PICK c, d : c = th[t] /\ d = th'[t]
    OBVIOUS
  <2>2. /\ \A u \in Threads \ {t} : th'[u] = th[u]
        /\ d = [c EXCEPT !.pc = "answer"]
    BY ONLY <1>3, <2>1, LockingInv, t \in Threads DEF LockingInv, Shape
  <2>3. c = [x \in Fields |-> c[x]]
    BY <1>1, <2>1, InCall DEF IsCall
  <2>4. /\ d.pc = "answer" /\ d.key = c.key /\ d.kind = c.kind /\ d.val = c.val /\ d.node = c.node
        /\ d.unguarded = c.unguarded /\ d.held = c.held
    BY ONLY <2>2, <2>3 DEF Fields
  <2>5. Reads(t) /\ Reads(t)' /\ ~Unguarded(t)
    BY <1>1, <2>1, <2>4, KnownFacts DEF Stands, Reads
  <2>6. Stands(t)'
    BY <1>1, <2>1, <2>4, <2>5 DEF Stands, Unguarded
  <2>7. ASSUME NEW r, NEW used, NEW g, NEW e, NEW s, NEW safe PROVE Known(d, r, used, g, e, s, safe)
    <3>1. c.kind \in {"insert", "search"} /\ c.val \in Values
      BY <1>1, <2>1, KnownFacts DEF Known
    <3>2. QED
      BY <2>4, <3>1 DEF Known
  <2>8. Goes(t)
    BY <1>1, <2>1, <2>2, <2>4 DEF Goes
  <2>9. QED
    BY <2>1, <2>4, <2>6, <2>7, <2>8, Stays
<1>4. QED
  BY <1>2, <1>3 DEF LookAgain

\* A slot that another insert has used is given up for another look.
LEMMA SlotsBucket ==
  ASSUME LockingInv, SlotsInv, exposed # Keys, NEW t \in Threads, LockBucket(t)
  PROVE  SlotsInv'
<1>1. UNCHANGED <<nodes, root, segs, exposed, calls>> /\ th[t].pc = "free"
  BY DEF LockBucket, Same
<1>2. CASE Taken(t)
  <2>1. th' = [th EXCEPT ![t] = Restarted(t)]
    BY <1>2 DEF LockBucket
  <2>2. QED
    BY <1>1, <2>1, SlotsRestart
<1>3. CASE ~Taken(t)
  <2>1. PICK c, d, lock, e, s, k, safe :
           /\ c = th[t] /\ d = th'[t] /\ lock = <<"write", BucketLock(th[t].e.seg, th[t].at[1])>>
           /\ e = Entry(t) /\ s = segs[Entry(t).seg] /\ k = th[t].key /\ safe = (th[t].key \notin exposed)
    OBVIOUS
  <2>2. th' = [th EXCEPT ![t].pc = "value", ![t].held = @ \union {lock}]
    BY <1>3, <2>1 DEF LockBucket
  <2>3. /\ \A u \in Threads \ {t} : th'[u] = th[u]
        /\ d = [c EXCEPT !.pc = "value", !.held = @ \union {lock}]
    BY ONLY <2>1, <2>2, LockingInv, t \in Threads DEF LockingInv, Shape
  <2>4. c = [x \in Fields |-> c[x]]
    BY <1>1, <2>1, InCall DEF IsCall
  <2>5. /\ d.pc = "value" /\ d.key = c.key /\ d.kind = c.kind /\ d.val = c.val /\ d.node = c.node
        /\ d.unguarded = c.unguarded /\ d.held = c.held \union {lock} /\ d.e = c.e /\ d.at = c.at
    BY ONLY <2>3, <2>4 DEF Fields
  <2>6. Reads(t) /\ Reads(t)' /\ ~Unguarded(t)
    BY <1>1, <2>1, <2>5, KnownFacts DEF Stands, Reads
  <2>7. InUse(th[t].node) /\ c.e = e
    BY <1>1, <2>1, KnownFacts DEF Known
  <2>8. S!Chosen(e, s, k, c.at[1], c.at[2], safe) /\ S!Preferred(e, s, k, c.at[1], c.at[2])
    BY <1>1, <2>1, <2>6, KnownFacts DEF Known
  <2>9. ~S!Beaten(e, s, k, c.at[1], c.at[2])
    <3>1. PICK slot, v : slot = s[c.at[1]][c.at[2]] /\ v = S!Expected(e, c.at[1][1])
      OBVIOUS
    <3>2. Slot(t) = slot /\ th[t].key = k
      BY <2>1, <2>7, <3>1 DEF Slot
    <3>3. VersionAt(t, IF th[t].at[1][1] = th[t].e.off THEN "shared" ELSE "main") = v
      BY <2>1, <2>7, <3>1 DEF VersionAt, S!Expected, S!SharedVersion, S!MainVersion
    <3>4. ~(slot.valid /\ slot.key # k /\ slot.ver = v)
      BY <1>3, <3>2, <3>3 DEF Taken
    <3>5. QED
      BY <3>1, <3>4 DEF S!Beaten, S!LiveIn, S!Live
  <2>10. Stands(t)'
    <3>1. lock \in d.held /\ d.e = c.e /\ d.at = c.at
      BY <2>5
    <3>2. <<"write", BucketLock(th[t].e.seg, th[t].at[1])>>' \in th[t].held'
      BY <2>1, <3>1 DEF BucketLock
    <3>3. QED
      BY <1>1, <2>1, <2>5, <2>6, <3>2 DEF Stands, Unguarded
  <2>11. ASSUME NEW r, NEW g PROVE Known(d, r, TRUE, g, e, s, safe)
    <3>1. c.kind \in {"insert", "search"} /\ c.val \in Values
      BY <1>1, <2>1, KnownFacts DEF Known
    <3>2. QED
      BY <2>1, <2>5, <2>7, <2>8, <2>9, <3>1 DEF Known
  <2>12. Goes(t)
    BY <1>1, <2>1, <2>3, <2>5 DEF Goes
  <2>13. Known(th'[t], Reads(t)', InUse(th[t].node), nodes[th[t].node].gd,
               Entry(t), segs[Entry(t).seg], th[t].key \notin exposed)
    <3>1. InUse(th[t].node) = TRUE
      BY <2>7 DEF InUse
    <3>2. QED
      BY <2>1, <2>11, <3>1
  <2>14. QED
    BY <2>1, <2>5, <2>10, <2>12, <2>13, Stays
<1>4. QED
  BY <1>2, <1>3

\* While the thread waits to write the directory, its entry can only get deeper.
LEMMA SlotsDirectoryWrite ==
  ASSUME LockingInv, SlotsInv, exposed # Keys, NEW t \in Threads, LockDirectoryWrite(t)
  PROVE  SlotsInv'
<1>1. UNCHANGED <<nodes, root, segs, exposed, calls>> /\ th[t].pc = "full"
  BY DEF LockDirectoryWrite, Same
<1>2. PICK c, d, h : c = th[t] /\ d = th'[t] /\ h = {<<"write", Directory(th[t].node)>>}
  OBVIOUS
<1>3. th' = [th EXCEPT ![t].pc = "alone", ![t].held = h]
  BY <1>2 DEF LockDirectoryWrite
<1>4. /\ \A u \in Threads \ {t} : th'[u] = th[u]
      /\ d = [c EXCEPT !.pc = "alone", !.held = h]
  BY ONLY <1>2, <1>3, LockingInv, t \in Threads DEF LockingInv, Shape
<1>5. c = [x \in Fields |-> c[x]]
  BY <1>1, <1>2, InCall DEF IsCall
<1>6. /\ d.pc = "alone" /\ d.key = c.key /\ d.kind = c.kind /\ d.val = c.val /\ d.node = c.node
      /\ d.unguarded = c.unguarded /\ d.held = h /\ d.e = c.e
  BY ONLY <1>4, <1>5 DEF Fields
<1>7. ~Unguarded(t)
  BY <1>1, KnownFacts DEF Stands
<1>8. Stands(t)'
  BY <1>1, <1>2, <1>6, <1>7 DEF Stands, Unguarded
<1>9. ASSUME NEW r, NEW r2, NEW used, NEW g, NEW e, NEW s, NEW safe, Known(c, r, used, g, e, s, safe)
      PROVE  Known(d, r2, used, g, e, s, safe)
  BY <1>1, <1>2, <1>6, <1>9 DEF Known
<1>10. Goes(t)
  BY <1>1, <1>2, <1>4, <1>6 DEF Goes
<1>11. Known(th'[t], Reads(t)', InUse(th[t].node), nodes[th[t].node].gd,
             Entry(t), segs[Entry(t).seg], th[t].key \notin exposed)
  BY <1>2, <1>9, KnownFacts
<1>12. QED
  BY <1>2, <1>6, <1>8, <1>10, <1>11, Stays

\* An entry as deep as before is the one whose buckets were full.
LEMMA SlotsSegmentWrite ==
  ASSUME LockingInv, SlotsInv, exposed # Keys, NEW t \in Threads, LockSegmentWrite(t)
  PROVE  SlotsInv'
<1>1. UNCHANGED <<nodes, root, segs, exposed, calls>> /\ th[t].pc = "alone"
  BY DEF LockSegmentWrite, Same
<1>2. CASE th' = [th EXCEPT ![t] = Restarted(t)]
  BY <1>1, <1>2, SlotsRestart
<1>3. PICK c, d, lock, e, s, k, safe, p, g :
         /\ c = th[t] /\ d = th'[t] /\ lock = <<"write", SegmentLock(th[t].e.seg)>>
         /\ e = Entry(t) /\ s = segs[Entry(t).seg] /\ k = th[t].key /\ safe = (th[t].key \notin exposed)
         /\ p = Restructuring(t) /\ g = nodes[th[t].node].gd
  OBVIOUS
<1>4. CASE /\ e.ld = c.e.ld /\ c.node = root
           /\ th' = [th EXCEPT ![t].pc = p, ![t].held = @ \union {lock}]
  <2>1. /\ \A u \in Threads \ {t} : th'[u] = th[u]
        /\ d = [c EXCEPT !.pc = p, !.held = @ \union {lock}]
    BY ONLY <1>3, <1>4, LockingInv, t \in Threads DEF LockingInv, Shape
  <2>2. c = [x \in Fields |-> c[x]]
    BY <1>1, <1>3, InCall DEF IsCall
  <2>3. /\ d.pc = p /\ d.key = c.key /\ d.kind = c.kind /\ d.val = c.val /\ d.node = c.node
        /\ d.unguarded = c.unguarded /\ d.held = c.held \union {lock}
    BY ONLY <2>1, <2>2 DEF Fields
  <2>4. p = IF e.ld < g THEN "split" ELSE "grow"
    BY <1>3 DEF Restructuring
  <2>5. <<"write", Directory(root)>> \in th[t].held
    BY <1>1, <1>3, <1>4 DEF LockingInv, LocksInOrder, InOrder
  <2>6. InUse(th[t].node)
    BY <1>1, <1>3, <1>4, <2>5, RootInUse
  <2>7. S!BothFull(e, s, k, safe)
    BY <1>1, <1>3, <1>4, <2>6, KnownFacts DEF Known
  <2>8. e.ld \in Nat /\ e.ld <= g /\ g \in Nat
    <3>1. S!Directed(nodes[th[t].node].gd, nodes[th[t].node].dir, Len(segs)) /\ th[t].node \in 1..Len(nodes)
      BY <1>1, <2>6, KnownFacts, Works DEF NodesSound, Sound
    <3>2. QED
      BY <1>1, <1>3, <2>6, <3>1, KnownFacts, Works DEF S!Directed
  <2>9. Stands(t)'
    BY <1>1, <1>3, <2>3, <2>4, KnownFacts DEF Stands, Unguarded
  <2>10. ASSUME NEW r PROVE Known(d, r, TRUE, g, e, s, safe)
    <3>1. c.kind \in {"insert", "search"} /\ c.val \in Values
      BY <1>1, <1>3, KnownFacts DEF Known
    <3>2. safe => ~S!HasKey(e, s, k)
      BY <2>7 DEF S!BothFull
    <3>3. QED
      BY <1>3, <2>3, <2>4, <2>8, <3>1, <3>2 DEF Known
  <2>11. Goes(t)
    BY <1>1, <1>3, <2>1, <2>3, <2>4 DEF Goes
  <2>12. Known(th'[t], Reads(t)', InUse(th[t].node), nodes[th[t].node].gd,
               Entry(t), segs[Entry(t).seg], th[t].key \notin exposed)
    <3>1. InUse(th[t].node) = TRUE
      BY <2>6 DEF InUse
    <3>2. QED
      BY <1>3, <2>10, <3>1
  <2>13. QED
    BY <1>3, <2>3, <2>9, <2>11, <2>12, Stays
<1>5. QED
  BY <1>2, <1>3, <1>4 DEF LockSegmentWrite

\* putSegNode takes the first slot of another version, which does not count.
LEMMA FreeParts ==
  ASSUME NEW t, NEW n, n = th[t].node, NEW k, k = th[t].key, NEW e, e = Entry(t), NEW s, s = segs[e.seg]
  PROVE  Node(n, Pending(t))!Free(k) \subseteq
            ({S!SharedAddr(k, e)} \X S!FirstOther(s[S!SharedAddr(k, e)], S!SharedVersion(e)))
              \union ({S!MainAddr(k, e)} \X S!FirstOther(s[S!MainAddr(k, e)], S!MainVersion(e)))
<1>1. PICK o, a, b, v, w : /\ o = Pending(t) /\ a = S!SharedAddr(k, e) /\ b = S!MainAddr(k, e)
                           /\ v = S!SharedVersion(e) /\ w = S!MainVersion(e)
  OBVIOUS
<1>2. o.pc = "retry"
  BY <1>1 DEF Pending
<1>3. \A x, y : Node(n, o)!FreeIn(x, y) = S!FirstOther(x, y)
  BY <1>2, SameOperators DEF Node!FreeIn
<1>4. Node(n, o)!EntryOf(k) = e
  <2>1. Node(n, o)!EntryOf(k) = EntryIn(n, k)
    BY ONLY SameOperators DEF EntryIn
  <2>2. QED
    BY <2>1, EntryIsIn
<1>5. Node(n, o)!SharedAddr(k, e) = a /\ Node(n, o)!MainAddr(k, e) = b
  BY ONLY <1>1, SameOperators
<1>6. Node(n, o)!SharedVersion(e) = v /\ Node(n, o)!MainVersion(e) = w
  BY <1>1 DEF Node!SharedVersion, Node!MainVersion, S!SharedVersion, S!MainVersion
<1>7. Node(n, o)!Free(k) \subseteq ({a} \X S!FirstOther(s[a], v)) \union ({b} \X S!FirstOther(s[b], w))
  BY <1>3, <1>4, <1>5, <1>6 DEF Node!Free
<1>8. QED
  BY <1>1, <1>7

\* The slot, or the next split, after a split or a doubling.
LEMMA SlotsPutSegNode ==
  ASSUME LockingInv, SlotsInv, exposed # Keys, NEW t \in Threads, PutSegNode(t)
  PROVE  SlotsInv'
<1>1. UNCHANGED <<nodes, root, segs, exposed, calls>> /\ th[t].pc = "again"
  BY DEF PutSegNode, Same
<1>2. PICK c, d, e, s, k, safe, n, g :
         /\ c = th[t] /\ d = th'[t] /\ e = Entry(t) /\ s = segs[Entry(t).seg] /\ k = th[t].key
         /\ safe = (th[t].key \notin exposed) /\ n = th[t].node /\ g = nodes[th[t].node].gd
  OBVIOUS
<1>3. c = [x \in Fields |-> c[x]]
  BY <1>1, <1>2, InCall DEF IsCall
<1> DEFINE New(pc, at) == /\ d.pc = pc /\ d.at = at /\ d.e = e /\ d.held = c.held
                          /\ d.key = c.key /\ d.kind = c.kind /\ d.val = c.val
                          /\ d.node = c.node /\ d.unguarded = c.unguarded
                          /\ \A u \in Threads \ {t} : th'[u] = th[u]
<1>4. PICK pc, at : /\ New(pc, at)
                    /\ \/ pc = "value" /\ at \in Node(n, Pending(t))!Free(k)
                       \/ pc = Restructuring(t)
  <2>1. th = [u \in Threads |-> th[u]] /\ c = th[t] /\ t \in Threads /\ d = th'[t]
    BY <1>2 DEF LockingInv, Shape
  <2>2. ASSUME NEW p, th' = [th EXCEPT ![t].pc = p, ![t].e = e] PROVE New(p, c.at)
    BY ONLY <1>3, <2>1, <2>2 DEF Fields
  <2>3. ASSUME NEW p, NEW x, th' = [th EXCEPT ![t].pc = p, ![t].at = x, ![t].e = e] PROVE New(p, x)
    BY ONLY <1>3, <2>1, <2>3 DEF Fields
  <2> HIDE DEF New
  <2>4. \/ th' = [th EXCEPT ![t].pc = Restructuring(t), ![t].e = e]
        \/ \E x \in Node(n, Pending(t))!Free(k) : th' = [th EXCEPT ![t].pc = "value", ![t].at = x, ![t].e = e]
    BY <1>2 DEF PutSegNode
  <2>5. QED
    BY <2>2, <2>3, <2>4
<1>5. /\ d.pc = pc /\ d.at = at /\ d.e = e /\ d.held = c.held /\ d.key = c.key /\ d.kind = c.kind
      /\ d.val = c.val /\ d.node = c.node /\ d.unguarded = c.unguarded
      /\ \A u \in Threads \ {t} : th'[u] = th[u]
  BY <1>4
<1> HIDE DEF New
<1>6. Restructuring(t) = IF e.ld < g THEN "split" ELSE "grow"
  BY <1>2 DEF Restructuring
<1>7. pc \in {"value", "split", "grow"}
  BY <1>4, <1>6
<1>8. ~Reads(t) /\ ~Reads(t)'
  BY <1>1, <1>2, <1>5 DEF LockingInv, LocksInOrder, InOrder, Reads
<1>9. InUse(th[t].node) /\ (safe => ~S!HasKey(e, s, k)) /\ e.ld >= 1
  BY <1>1, <1>2, KnownFacts DEF Known
<1>10. e \in S!SegmentNode /\ e.ld \in Nat /\ e.ld <= g /\ k \in S!BitString(W) /\ S!Ordered(e, s)
       /\ safe \in BOOLEAN
  BY <1>1, <1>2, <1>9, KnownFacts, Works
<1>11. g \in Nat
  BY <1>1, <1>2, <1>9, KnownFacts, Works DEF NodesSound, Sound, S!Directed
<1>12. pc = "value" => S!Chosen(e, s, k, at[1], at[2], safe) /\ ~S!Beaten(e, s, k, at[1], at[2])
  <2> SUFFICES ASSUME pc = "value"
               PROVE  S!Chosen(e, s, k, at[1], at[2], safe) /\ ~S!Beaten(e, s, k, at[1], at[2])
    OBVIOUS
  <2>1. at \in Node(n, Pending(t))!Free(k)
    BY <1>4, <1>6
  <2>2. PICK a, b, v, w : /\ a = S!SharedAddr(k, e) /\ b = S!MainAddr(k, e)
                          /\ v = S!SharedVersion(e) /\ w = S!MainVersion(e)
    OBVIOUS
  <2>3. at \in ({a} \X S!FirstOther(s[a], v)) \union ({b} \X S!FirstOther(s[b], w))
    BY <1>2, <2>1, <2>2, FreeParts
  <2>4. S!Expected(e, a[1]) = v /\ S!Expected(e, b[1]) = w
    BY ONLY <1>10, <2>2, NA, S!TwoBuckets
  <2>5. at[1] \in {a, b} /\ at[2] \in S!FirstOther(s[at[1]], S!Expected(e, at[1][1]))
    <3>1. CASE at \in {a} \X S!FirstOther(s[a], v)
      BY ONLY <2>4, <3>1
    <3>2. CASE at \in {b} \X S!FirstOther(s[b], w)
      BY ONLY <2>4, <3>2
    <3>3. QED
      BY <2>3, <3>1, <3>2
  <2>6. QED
    BY ONLY <1>9, <1>10, <2>2, <2>5, NA, S!PutChosen
<1>13. Stands(t)'
  <2>1. th[t].unguarded \/ (th[t].node = root /\ <<"write", Directory(root)>> \in th[t].held)
    BY <1>1 DEF LockingInv, RootHeld, HasRoot
  <2>2. QED
    BY <1>1, <1>2, <1>5, <1>7, <1>8, <2>1 DEF Stands, Unguarded
<1>14. ASSUME NEW r, ~r PROVE Known(d, r, TRUE, g, e, s, safe)
  <2>1. c.kind \in {"insert", "search"} /\ c.val \in Values
    BY <1>1, <1>2, KnownFacts DEF Known
  <2>2. CASE pc = "value"
    BY <1>2, <1>5, <1>12, <1>14, <2>1, <2>2 DEF Known
  <2>3. CASE pc \in {"split", "grow"}
    BY <1>2, <1>4, <1>5, <1>6, <1>9, <1>10, <1>11, <2>1, <2>3 DEF Known
  <2>4. QED
    BY <1>7, <2>2, <2>3
<1>15. Goes(t)
  BY <1>1, <1>2, <1>5, <1>7 DEF Goes
<1>16. Known(th'[t], Reads(t)', InUse(th[t].node), nodes[th[t].node].gd,
             Entry(t), segs[Entry(t).seg], th[t].key \notin exposed)
  <2>1. InUse(th[t].node) = TRUE
    BY <1>9 DEF InUse
  <2>2. QED
    BY <1>2, <1>8, <1>14, <2>1
<1>17. QED
  BY <1>2, <1>5, <1>13, <1>15, <1>16, Stays

\* The new node becomes the root without a change of the node in use; whoever
\* is in a call then is exposed.
LEMMA SlotsPublish ==
  ASSUME LockingInv, SlotsInv, exposed # Keys, NEW t \in Threads, Publish(t)
  PROVE  SlotsInv'
<1>1. /\ UNCHANGED <<nodes, segs, calls>> /\ th[t].pc = "publish" /\ root' = th[t].node
      /\ exposed \subseteq exposed'
  BY DEF Publish
<1>2. PICK c, d : c = th[t] /\ d = th'[t]
  OBVIOUS
<1>3. /\ \A u \in Threads \ {t} : th'[u] = th[u]
      /\ d = [c EXCEPT !.pc = "again", !.unguarded = TRUE]
  <2>1. th' = [th EXCEPT ![t].pc = "again", ![t].unguarded = TRUE]
    BY DEF Publish
  <2>2. QED
    BY ONLY <1>2, <2>1, LockingInv, t \in Threads DEF LockingInv, Shape
<1>4. c = [x \in Fields |-> c[x]]
  BY <1>1, <1>2, InCall DEF IsCall
<1>5. /\ d.pc = "again" /\ d.key = c.key /\ d.kind = c.kind /\ d.val = c.val /\ d.node = c.node
      /\ d.held = c.held
  BY ONLY <1>3, <1>4 DEF Fields
<1>6. <<"write", Directory(root)>> \in th[t].held
  BY <1>1 DEF LockingInv, RootHeld, HasRoot
<1>7. \A u \in Threads \ {t} : th[u].pc # "publish" /\ <<"write", Directory(root)>> \notin th[u].held
  <2>1. \A u \in Threads \ {t} : th[u].pc # "publish"
    BY <1>6, AloneWithRoot
  <2>2. \A u \in Threads \ {t} : <<"write", Directory(root)>> \notin th[u].held
    BY <1>6 DEF LockingInv, LocksExclude, Compatible
  <2>3. QED
    BY <2>1, <2>2
<1>8. ASSUME NEW n PROVE InUse(n)' <=> InUse(n)
  <2>1. InUse(n) <=> n = th[t].node
    BY <1>1, <1>7 DEF InUse
  <2>2. \A u \in Threads : th'[u].pc # "publish"
    BY <1>2, <1>3, <1>5, <1>7
  <2>3. QED
    BY <1>1, <2>1, <2>2 DEF InUse
<1>9. ~Reads(t) /\ ~Reads(t)'
  BY <1>1, <1>2, <1>5 DEF LockingInv, LocksInOrder, InOrder, Reads
<1>10. Stands(t)'
  BY <1>2, <1>5, <1>9 DEF Stands, Unguarded
<1>11. Knows(t)'
  <2>1. PICK r, used, g, e, s, safe, safe2 :
           /\ r = Reads(t) /\ used = InUse(th[t].node) /\ g = nodes[th[t].node].gd
           /\ e = Entry(t) /\ s = segs[Entry(t).seg]
           /\ safe = (th[t].key \notin exposed) /\ safe2 = (th[t].key \notin exposed')
    OBVIOUS
  <2>2. Known(c, r, used, g, e, s, safe) /\ (safe2 => safe)
    BY <1>1, <1>2, <2>1, KnownFacts
  <2>3. \A r2 : Known(d, r2, used, g, e, s, safe2)
    BY <1>1, <1>2, <1>5, <2>2 DEF Known
  <2>4. Entry(t)' = e
    BY <1>1, <1>2, <1>5, <2>1, EntryIsIn DEF EntryIn
  <2>5. InUse(th[t].node)' = used
    <3>1. th'[t].node = th[t].node
      BY <1>2, <1>5
    <3>2. InUse(th[t].node)' <=> InUse(th[t].node)
      BY <1>8, <3>1 DEF InUse
    <3>3. QED
      BY <2>1, <3>2 DEF InUse
  <2>6. QED
    BY <1>1, <1>2, <1>5, <2>1, <2>3, <2>4, <2>5 DEF Knows
<1>12. RacesExposed'
  <2> SUFFICES ASSUME NEW v \in Threads, NEW u \in Threads, v # u, Unguarded(v)', th'[u] # Idle
               PROVE  th'[v].key \in exposed' /\ th'[u].key \in exposed'
    BY DEF RacesExposed
  <2>1. th[v] # Idle /\ th[u] # Idle /\ th'[v].key = th[v].key /\ th'[u].key = th[u].key
    <3>1. th[t] # Idle /\ th'[t].key = th[t].key
      BY <1>1, <1>2, <1>5 DEF Idle
    <3>2. \A w \in Threads : th'[w] # Idle => th[w] # Idle /\ th'[w].key = th[w].key
      BY <1>3, <3>1
    <3>3. th'[v] # Idle
      BY DEF Unguarded, Idle
    <3>4. QED
      BY <3>2, <3>3
  <2>2. CASE v = t \/ u = t
    <3>1. Accompanied(t)
      BY <2>1, <2>2 DEF Accompanied
    <3>2. exposed' = exposed \union KeysInHand
      BY <3>1 DEF Publish
    <3>3. th[v].key \in KeysInHand /\ th[u].key \in KeysInHand
      BY <2>1 DEF KeysInHand
    <3>4. QED
      BY <2>1, <3>2, <3>3
  <2>3. CASE v # t /\ u # t
    <3>1. Unguarded(v)
      BY <1>3, <2>3 DEF Unguarded
    <3>2. th[v].key \in exposed /\ th[u].key \in exposed
      BY <2>1, <3>1, KnownFacts DEF RacesExposed
    <3>3. QED
      BY <1>1, <2>1, <3>2
  <2>4. QED
    BY <2>2, <2>3
<1>13. calls' \in Nat
  BY <1>1 DEF SlotsInv
<1>14. QED
  BY <1>1, <1>3, <1>7, <1>8, <1>10, <1>11, <1>12, <1>13, Rests

-----------------------------------------------------------------------------
(* Steps that write a slot.                                                *)

\* Of a node that is not in use a thread knows nothing.
LEMMA Unused ==
  ASSUME NEW c, NEW r, NEW g, NEW e, NEW s, NEW safe, Known(c, r, FALSE, g, e, s, safe), NEW s2
  PROVE  Known(c, r, FALSE, g, e, s2, safe)
BY DEF Known

\* Thread t changes segment m, that of its entry, and goes on.
Changes(t, m) ==
    /\ \A u \in Threads \ {t} : th'[u] = th[u]
    /\ th[t].pc \notin {"idle", "publish"} /\ th'[t].pc \notin {"idle", "publish"}
    /\ UNCHANGED <<nodes, root, exposed, calls>>
    /\ InUse(th[t].node) /\ m = Entry(t).seg
    /\ segs' \in Seq(S!Segment) /\ Len(segs') = Len(segs)
    /\ \A i \in 1..Len(segs) : i # m => segs'[i] = segs[i]

\* Changing one segment keeps the node sound if the segment is.
LEMMA ChangedSound ==
  ASSUME LockingInv, SlotsInv, exposed # Keys, NEW t \in Threads, NEW m, Changes(t, m),
         NEW e, e = Entry(t), S!Ordered(e, segs'[m]),
         \A k \in Keys \ exposed : S!Once(e, segs[m], k) => S!Once(e, segs'[m], k)
  PROVE  NodesSound'
<1>1. PICK n, g, d : n = th[t].node /\ g = nodes[n].gd /\ d = nodes[n].dir
  OBVIOUS
<1>2. /\ UNCHANGED <<nodes, root, exposed>> /\ InUse(n) /\ m = e.seg /\ th[t].pc # "idle"
      /\ segs' \in Seq(S!Segment) /\ Len(segs') = Len(segs)
      /\ \A i \in 1..Len(segs) : i # m => segs'[i] = segs[i]
  BY <1>1 DEF Changes
<1>3. S!Directed(g, d, Len(segs)) /\ S!SegmentsOrdered(g, d, segs, Keys \ exposed)
  BY <1>1, <1>2, KnownFacts, Works DEF NodesSound, Sound
<1>4. PICK num : num \in S!BitString(g) /\ e = d[num]
  <2>1. th[t].key \in Keys
    BY <1>2, InCall DEF IsCall
  <2>2. S!SegmentNumber(th[t].key, g) \in S!BitString(g)
    BY <1>3, <2>1, NumberType DEF S!Directed
  <2>3. QED
    BY <1>1, <2>2, EntryIsIn DEF EntryIn
<1>5. S!SegmentsOrdered(g, d, segs', Keys \ exposed)
  <2> SUFFICES ASSUME NEW p \in S!BitString(g)
               PROVE  /\ S!Ordered(d[p], segs'[d[p].seg])
                      /\ \A k \in Keys \ exposed : S!Once(d[p], segs'[d[p].seg], k)
    BY DEF S!SegmentsOrdered
  <2>1. S!Ordered(d[p], segs[d[p].seg]) /\ \A k \in Keys \ exposed : S!Once(d[p], segs[d[p].seg], k)
    BY <1>3 DEF S!SegmentsOrdered
  <2>2. d[p].seg \in 1..Len(segs) /\ (d[p].seg = m => d[p] = e)
    BY <1>2, <1>3, <1>4 DEF S!Directed
  <2>3. CASE d[p].seg = m
    BY <2>1, <2>2, <2>3
  <2>4. CASE d[p].seg # m
    BY <1>2, <2>1, <2>2, <2>4
  <2>5. QED
    BY <2>3, <2>4
<1>6. ASSUME NEW i, InUse(i)' PROVE i = n
  <2>1. \A u \in Threads : th'[u].pc # "publish" \/ u # t
    BY DEF Changes
  <2>2. InUse(i)
    BY <1>2, <1>6, <2>1 DEF InUse, Changes
  <2>3. QED
    BY <1>2, <2>2, OneInUse
<1>7. Sound(n)'
  <2>1. nodes[n] = [gd |-> nodes[n].gd, dir |-> nodes[n].dir]
    BY <1>1, <1>2, KnownFacts, Works DEF NodesSound, Sound
  <2>2. QED
    BY <1>1, <1>2, <1>3, <1>5, <2>1 DEF Sound
<1>8. \A i \in 1..Len(nodes') : InUse(i)' => Sound(i)'
  BY <1>6, <1>7 DEF Sound
<1>9. QED
  BY <1>2, <1>8 DEF NodesSound

\* The other threads and this one know what they must, if those who use the
\* same segment do.
LEMMA SegmentChanged ==
  ASSUME LockingInv, SlotsInv, exposed # Keys, NEW t \in Threads, NEW m, Changes(t, m),
         NEW e, e = Entry(t), S!Ordered(e, segs'[m]),
         \A k \in Keys \ exposed : S!Once(e, segs[m], k) => S!Once(e, segs'[m], k),
         th'[t].key = th[t].key, th'[t].node = th[t].node, th'[t].unguarded = th[t].unguarded,
         Stands(t)',
         Known(th'[t], Reads(t)', TRUE, nodes[th[t].node].gd, e, segs'[m], th[t].key \notin exposed),
         \A u \in Threads \ {t} : \A g :
            /\ th[u].pc # "idle" /\ th[u].node = th[t].node /\ Entry(u) = e
            /\ Known(th[u], Reads(u), TRUE, g, e, segs[m], th[u].key \notin exposed)
            => Known(th[u], Reads(u), TRUE, g, e, segs'[m], th[u].key \notin exposed)
  PROVE  SlotsInv'
<1>1. /\ UNCHANGED <<nodes, root, exposed, calls>> /\ \A u \in Threads \ {t} : th'[u] = th[u]
      /\ InUse(th[t].node) /\ m = e.seg /\ th[t].pc \notin {"idle", "publish"}
      /\ th'[t].pc \notin {"idle", "publish"}
      /\ \A i \in 1..Len(segs) : i # m => segs'[i] = segs[i]
  BY DEF Changes
<1>2. NodesSound'
  BY ChangedSound
<1>3. RacesExposed'
  <2>1. th[t] # Idle /\ (Unguarded(t)' => Unguarded(t))
    BY <1>1 DEF Unguarded, Idle
  <2>2. RacesExposed
    BY DEF SlotsInv
  <2>3. QED
    BY <1>1, <2>1, <2>2, RacesSame
<1>4. ASSUME NEW n PROVE InUse(n)' <=> InUse(n)
  <2>1. \A u \in Threads : th'[u].pc = "publish" <=> th[u].pc = "publish"
    BY <1>1
  <2>2. \A u \in Threads : th[u].pc = "publish" => th'[u].node = th[u].node
    BY <1>1
  <2>3. QED
    BY <1>1, <2>1, <2>2 DEF InUse
<1>5. Knows(t)'
  <2>1. Entry(t)' = e
    BY <1>1, EntryIsIn DEF EntryIn
  <2>2. InUse(th[t].node)' = TRUE
    BY <1>1, <1>4 DEF InUse
  <2>3. QED
    BY <1>1, <2>1, <2>2 DEF Knows
<1>6. ASSUME NEW u \in Threads, u # t PROVE Stands(u)'
  <2>1. th'[u] = th[u] /\ Stands(u) /\ root' = root
    BY <1>1, <1>6 DEF SlotsInv
  <2>2. (Reads(u)' <=> Reads(u)) /\ (Unguarded(u)' <=> Unguarded(u))
    BY <2>1 DEF Reads, Unguarded
  <2>3. QED
    BY <2>1, <2>2 DEF Stands
<1>7. ASSUME NEW u \in Threads, u # t PROVE Knows(u)'
  <2>1. th'[u] = th[u]
    BY <1>1, <1>7
  <2>2. PICK c, r, used, g, f, s, s2, safe :
           /\ c = th[u] /\ r = Reads(u) /\ used = InUse(th[u].node) /\ g = nodes[th[u].node].gd
           /\ f = Entry(u) /\ s = segs[f.seg] /\ s2 = segs'[f.seg] /\ safe = (th[u].key \notin exposed)
    OBVIOUS
  <2>3. Known(c, r, used, g, f, s, safe) /\ used \in BOOLEAN
    BY <2>2, KnownFacts
  <2>4. Known(c, r, used, g, f, s2, safe)
    <3>1. CASE c.pc = "idle"
      BY <3>1 DEF Known
    <3>2. CASE used = FALSE
      BY <2>3, <3>2, Unused
    <3>3. CASE used = TRUE /\ c.pc # "idle"
      <4>1. c.node = th[t].node
        BY <1>1, <2>2, <3>3, OneInUse
      <4>2. f.seg \in 1..Len(segs)
        BY <2>2, <3>3, KnownFacts, Works
      <4>3. CASE f.seg = m
        <5>1. f = e
          <6>1. c.key \in Keys /\ th[t].key \in Keys /\ c.node \in 1..Len(nodes)
            BY <1>1, <2>2, <3>3, InCall DEF IsCall
          <6>2. f = EntryIn(c.node, c.key) /\ e = EntryIn(c.node, th[t].key)
            BY <2>2, <4>1, EntryIsIn
          <6>3. QED
            BY <1>1, <4>1, <4>3, <6>1, <6>2, KnownFacts, SameSegment
        <5>2. QED
          BY <1>7, <2>2, <2>3, <3>3, <4>1, <4>3, <5>1
      <4>4. CASE f.seg # m
        BY <1>1, <2>2, <2>3, <4>2, <4>4
      <4>5. QED
        BY <4>3, <4>4
    <3>4. QED
      BY <2>3, <3>1, <3>2, <3>3
  <2>5. Entry(u)' = f
    BY <1>1, <2>1, <2>2, EntryIsIn DEF EntryIn
  <2>6. InUse(th[u].node)' = used
    <3>1. PICK n : n = th[u].node
      OBVIOUS
    <3>2. InUse(n)' <=> InUse(n)
      BY <1>4
    <3>3. th'[u].node = n
      BY <2>1, <3>1
    <3>4. InUse(th[u].node)' <=> InUse(n)
      BY <3>2, <3>3 DEF InUse
    <3>5. QED
      BY <2>2, <3>1, <3>4 DEF InUse
  <2>7. QED
    BY <1>1, <2>1, <2>2, <2>4, <2>5, <2>6 DEF Knows, Reads
<1>8. calls' \in Nat
  BY <1>1 DEF SlotsInv
<1>9. QED
  BY <1>2, <1>3, <1>5, <1>6, <1>7, <1>8 DEF SlotsInv

\* What a thread has chosen is a slot.
LEMMA ChosenSlot ==
  ASSUME NEW e \in S!SegmentNode, NEW s, NEW k \in S!BitString(W), NEW a, NEW j, NEW safe,
         S!Chosen(e, s, k, a, j, safe)
  PROVE  a \in S!Addr /\ j \in 1..Slots /\ S!Lead(e, s, a, j) /\ a \in {S!SharedAddr(k, e), S!MainAddr(k, e)}
<1>1. a \in {S!SharedAddr(k, e), S!MainAddr(k, e)} /\ S!Lead(e, s, a, j)
  BY DEF S!Chosen
<1>2. S!SharedAddr(k, e) \in S!Addr /\ S!MainAddr(k, e) \in S!Addr
  BY NA, S!TwoBuckets
<1>3. QED
  BY <1>1, <1>2 DEF S!Lead

\* Another thread's value changes nothing of what is known.
LEMMA KnownAfterValue ==
  ASSUME NEW c, NEW r, r \in BOOLEAN, NEW g, NEW e, e \in S!SegmentNode, NEW s, NEW z,
         S!SameHeaders(s, z), NEW safe, safe \in BOOLEAN, c.key \in S!BitString(W),
         Known(c, r, TRUE, g, e, s, safe)
  PROVE  Known(c, r, TRUE, g, e, z, safe)
<1>1. PICK k, a, j : k = c.key /\ a = c.at[1] /\ j = c.at[2]
  OBVIOUS
<1>2. /\ S!Chosen(e, s, k, a, j, safe) => /\ S!Chosen(e, z, k, a, j, safe)
                                          /\ S!Beaten(e, z, k, a, j) => S!Beaten(e, s, k, a, j)
      /\ S!Preferred(e, s, k, a, j) => S!Preferred(e, z, k, a, j)
      /\ S!SharedMissed(e, s, k, c.at, safe) => S!SharedMissed(e, z, k, c.at, safe)
      /\ S!BothFull(e, s, k, safe) => S!BothFull(e, z, k, safe)
      /\ S!HasKey(e, z, k) => S!HasKey(e, s, k)
  BY <1>1, NA, S!HeadersKeep
<1>3. c.pc = "header" /\ s[a][j].val \in Values => z[a][j].val \in Values
  <2> SUFFICES ASSUME c.pc = "header", s[a][j].val \in Values PROVE z[a][j].val \in Values
    OBVIOUS
  <2>1. S!Chosen(e, s, k, a, j, safe)
    BY <1>1 DEF Known
  <2>2. a \in S!Addr /\ j \in 1..Slots
    BY <1>1, <2>1, ChosenSlot
  <2>3. QED
    BY <2>2 DEF S!SameHeaders
<1>4. QED
  BY <1>1, <1>2, <1>3 DEF Known

\* Nor does its header, for threads that can come to it.
Apart(c, r, e, s, k0, a0, j0, safe0, safe) ==
    safe => /\ c.pc \notin {"split", "grow", "publish", "again"}
            /\ c.pc \in {"value", "header"} => c.at[1] # a0
            /\ c.pc \in {"main", "free", "value", "header"} => r
            /\ c.key = k0 => /\ safe0 /\ ~S!Beaten(e, s, k0, a0, j0)
                             /\ r => S!Preferred(e, s, k0, a0, j0)

\* What is known of a segment stays true when a key is put in a slot that the
\* thread concerned keeps apart from.
LEMMA KnownAfterHeader ==
  ASSUME NEW c, NEW r, r \in BOOLEAN, NEW g, NEW e, e \in S!SegmentNode, NEW s, NEW z,
         NEW safe, safe \in BOOLEAN, c.key \in S!BitString(W), Known(c, r, TRUE, g, e, s, safe),
         NEW k0, k0 \in S!BitString(W), NEW a0, NEW j0, NEW safe0, safe0 \in BOOLEAN,
         S!Chosen(e, s, k0, a0, j0, safe0), S!Writes(e, s, a0, j0, k0, z),
         Apart(c, r, e, s, k0, a0, j0, safe0, safe)
  PROVE  Known(c, r, TRUE, g, e, z, safe)
<1>1. PICK k, a, j : k = c.key /\ a = c.at[1] /\ j = c.at[2]
  OBVIOUS
<1>2. k \in S!BitString(W) /\ a0 \in S!Addr /\ j0 \in 1..Slots
  BY <1>1, ChosenSlot
<1>3. ASSUME S!Chosen(e, s, k, a, j, safe), c.pc \in {"free", "value", "header"}
      PROVE  /\ S!Chosen(e, z, k, a, j, safe)
             /\ S!Preferred(e, s, k, a, j) => S!Preferred(e, z, k, a, j)
  <2>1. S!Rivals(e, s, k0, a0, j0, safe0, k, safe)
    BY <1>1, <1>3 DEF Apart, S!Rivals
  <2>2. safe => S!Preferred(e, s, k, a, j)
    BY <1>1, <1>3 DEF Apart, Known
  <2>3. QED
    BY <1>2, <1>3, <2>1, <2>2, NA, S!ChosenKept
<1>4. ASSUME S!SharedMissed(e, s, k, c.at, safe), c.pc = "main"
      PROVE  S!SharedMissed(e, z, k, c.at, safe)
  <2>1. S!Rivals(e, s, k0, a0, j0, safe0, k, safe)
    BY <1>1, <1>4 DEF Apart, S!Rivals
  <2>2. QED
    BY <1>2, <1>4, <2>1, NA, S!SharedMissedKept
<1>5. ASSUME S!BothFull(e, s, k, safe)
      PROVE  S!BothFull(e, z, k, safe)
  <2>1. k = k0 => S!Preferred(e, s, k0, a0, j0)
    BY <1>5 DEF S!BothFull, S!Preferred
  <2>2. S!Rivals(e, s, k0, a0, j0, safe0, k, safe)
    BY <1>1, <2>1 DEF Apart, S!Rivals
  <2>3. QED
    BY <1>2, <1>5, <2>2, NA, S!BothFullKept
<1>6. ASSUME S!Chosen(e, s, k, a, j, safe), c.pc \in {"value", "header"}, safe, ~S!Beaten(e, s, k, a, j)
      PROVE  ~S!Beaten(e, z, k, a, j)
  <2>1. a \in S!Addr /\ j \in 1..Slots /\ a # a0
    BY <1>1, <1>2, <1>6, ChosenSlot DEF Apart
  <2>2. QED
    BY <1>2, <1>6, <2>1, NA, S!BeatenAfter
<1>7. ASSUME S!Chosen(e, s, k, a, j, safe), s[a][j].val \in Values
      PROVE  z[a][j].val \in Values
  <2>1. a \in S!Addr /\ j \in 1..Slots
    BY <1>2, <1>7, ChosenSlot
  <2>2. QED
    BY <1>7, <2>1 DEF S!Writes
<1>8. /\ c.pc \in {"free", "value", "header"} => S!Chosen(e, z, k, a, j, safe)
      /\ c.pc \in {"free", "value", "header"} /\ r => S!Preferred(e, z, k, a, j)
      /\ c.pc = "main" /\ c.kind = "insert" => S!SharedMissed(e, z, k, c.at, safe)
      /\ c.pc \in {"value", "header"} /\ safe => ~S!Beaten(e, z, k, a, j)
      /\ c.pc = "header" => z[a][j].val \in Values
      /\ c.pc \in {"full", "alone"} /\ c.e.ld = e.ld => S!BothFull(e, z, k, safe)
      /\ c.pc \in {"split", "grow", "publish", "again"} => ~safe
  <2>1. /\ c.pc \in {"free", "value", "header"} => S!Chosen(e, s, k, a, j, safe)
        /\ c.pc \in {"free", "value", "header"} /\ r => S!Preferred(e, s, k, a, j)
        /\ c.pc = "main" /\ c.kind = "insert" => S!SharedMissed(e, s, k, c.at, safe)
        /\ c.pc \in {"value", "header"} /\ safe => ~S!Beaten(e, s, k, a, j)
        /\ c.pc = "header" => s[a][j].val \in Values
        /\ c.pc \in {"full", "alone"} /\ c.e.ld = e.ld => S!BothFull(e, s, k, safe)
    BY <1>1 DEF Known
  <2>2. c.pc \in {"split", "grow", "publish", "again"} => ~safe
    BY DEF Apart
  <2>3. QED
    BY <1>3, <1>4, <1>5, <1>6, <1>7, <2>1, <2>2
<1>9. QED
  BY <1>1, <1>8 DEF Known

\* The segments when one slot is written.
Written(ss, m, a, j, slot) ==
    [ss EXCEPT ![m] = [ss[m] EXCEPT ![a] = [ss[m][a] EXCEPT ![j] = slot]]]

\* Segments that differ in one slot.
Differs(ss, tt, m, a, j, slot) ==
    /\ tt \in Seq(S!Segment) /\ Len(tt) = Len(ss)
    /\ \A i \in 1..Len(ss) : i # m => tt[i] = ss[i]
    /\ \A b \in S!Addr, i \in 1..Slots :
          tt[m][b][i] = IF b = a /\ i = j THEN slot ELSE ss[m][b][i]

\* Writing a slot changes no other.
LEMMA SlotWritten ==
  ASSUME NEW ss, ss \in Seq(S!Segment), NEW m, m \in 1..Len(ss), NEW a, a \in S!Addr,
         NEW j, j \in 1..Slots, NEW slot, slot \in S!Slot
  PROVE  Differs(ss, Written(ss, m, a, j, slot), m, a, j, slot)
<1>0. PICK tt : tt = Written(ss, m, a, j, slot)
  OBVIOUS
<1>1. ss[m] \in S!Segment
  OBVIOUS
<1>2. PICK z : z = [ss[m] EXCEPT ![a] = [ss[m][a] EXCEPT ![j] = slot]]
  OBVIOUS
<1>3. PICK y : y = [ss[m][a] EXCEPT ![j] = slot]
  OBVIOUS
<1>4. ss[m][a] \in S!Bucket
  BY <1>1 DEF S!Segment
<1>5. y \in S!Bucket
  BY <1>3, <1>4 DEF S!Bucket
<1>6. z \in S!Segment
  BY <1>1, <1>2, <1>3, <1>5 DEF S!Segment
<1>7. tt = [ss EXCEPT ![m] = z]
  BY <1>0, <1>2 DEF Written
<1>8. tt \in Seq(S!Segment) /\ Len(tt) = Len(ss) /\ \A i \in 1..Len(ss) : tt[i] = IF i = m THEN z ELSE ss[i]
  BY ONLY <1>6, <1>7, ss \in Seq(S!Segment), m \in 1..Len(ss), ExceptSeq
<1>9. \A b \in S!Addr, i \in 1..Slots : z[b][i] = IF b = a /\ i = j THEN slot ELSE ss[m][b][i]
  <2>1. DOMAIN ss[m] = S!Addr /\ \A b \in S!Addr : DOMAIN ss[m][b] = 1..Slots
    BY <1>1 DEF S!Segment, S!Bucket
  <2>2. z = [ss[m] EXCEPT ![a] = y]
    BY <1>2, <1>3
  <2>3. z[a] = y /\ \A b \in S!Addr : b # a => z[b] = ss[m][b]
    BY <2>1, <2>2
  <2>4. \A i \in 1..Slots : y[i] = IF i = j THEN slot ELSE ss[m][a][i]
    BY <1>3, <2>1
  <2>5. QED
    BY <2>3, <2>4
<1>10. tt[m] = z
  BY ONLY <1>8, m \in 1..Len(ss)
<1>11. Differs(ss, tt, m, a, j, slot)
  BY ONLY <1>8, <1>9, <1>10 DEF Differs
<1>12. QED
  BY <1>0, <1>11

\* A thread that is about to write a slot shares its segment only with threads
\* that read under locks, as it does itself, or have an exposed key; and its
\* bucket with none of the former.
LEMMA Contend ==
  ASSUME LockingInv, SlotsInv, exposed # Keys,
         NEW t \in Threads, th[t].pc \in {"value", "header"},
         NEW u \in Threads, u # t, th[u].pc # "idle", th[u].key \notin exposed
  PROVE  /\ th[u].pc \notin {"split", "grow", "publish", "again"}
         /\ th[u].pc \in {"main", "free", "value", "header"} => Reads(u)
         /\ Reads(u) => Reads(t)
         /\ th[u].pc \in {"value", "header"} /\ th[u].e.seg = th[t].e.seg => th[u].at[1] # th[t].at[1]
<1>1. RacesExposed /\ Stands(t) /\ Stands(u) /\ HasRoot(u)
  BY KnownFacts DEF LockingInv, RootHeld
<1>2. th[t] # Idle /\ th[u] # Idle
  BY DEF Idle
<1>3. ~th[t].unguarded /\ ~th[u].unguarded
  <2>1. ~Unguarded(t)
    BY <1>1, <1>2 DEF RacesExposed
  <2>2. ~Unguarded(u)
    BY <1>1, <1>2 DEF RacesExposed
  <2>3. QED
    BY <2>1, <2>2 DEF Unguarded
<1>4. \A l : ~(<<"write", l>> \in th[t].held /\ <<"write", l>> \in th[u].held)
  BY DEF LockingInv, LocksExclude, Compatible
<1>5. CASE Reads(t)
  <2>1. <<"write", Directory(root)>> \notin th[u].held
    BY <1>5, AloneWithRoot
  <2>2. th[u].pc \notin {"split", "grow", "publish", "again"}
    BY <1>1, <1>3, <2>1 DEF HasRoot
  <2>3. th[u].pc \in {"main", "free", "value", "header"} => Reads(u)
    BY <1>1, <1>3, <2>1 DEF Stands
  <2>4. <<"write", BucketLock(th[t].e.seg, th[t].at[1])>> \in th[t].held
    BY <1>1, <1>3, <1>5 DEF Stands
  <2>5. th[u].pc \in {"value", "header"} => <<"write", BucketLock(th[u].e.seg, th[u].at[1])>> \in th[u].held
    BY <1>1, <1>3, <2>1 DEF Stands
  <2>6. QED
    BY <1>4, <1>5, <2>2, <2>3, <2>4, <2>5
<1>6. CASE <<"write", Directory(root)>> \in th[t].held
  <2>1. ~Reads(u) /\ th[u].pc \notin {"split", "grow", "publish", "again"}
    BY <1>3, <1>6, AloneWithRoot
  <2>2. th[u].pc \notin {"main", "free", "value", "header"}
    BY <1>1, <1>3, <1>4, <1>6, <2>1 DEF Stands
  <2>3. QED
    BY <2>1, <2>2
<1>7. QED
  BY <1>1, <1>3, <1>5, <1>6 DEF Stands

\* So what the others know of the segment of thread t bears its write.
LEMMA OthersApart ==
  ASSUME LockingInv, SlotsInv, exposed # Keys,
         NEW t \in Threads, th[t].pc \in {"value", "header"}, NEW e, e = Entry(t), NEW s, s = segs[e.seg],
         NEW u \in Threads, u # t, th[u].pc # "idle",
         NEW g, NEW safe, safe = (th[u].key \notin exposed), Known(th[u], Reads(u), TRUE, g, e, s, safe)
  PROVE  Apart(th[u], Reads(u), e, s, th[t].key, th[t].at[1], th[t].at[2], th[t].key \notin exposed, safe)
<1>1. PICK c, k0, a0, j0, safe0 :
         /\ c = th[t] /\ k0 = th[t].key /\ a0 = th[t].at[1] /\ j0 = th[t].at[2]
         /\ safe0 = (th[t].key \notin exposed)
  OBVIOUS
<1>2. /\ safe0 => ~S!Beaten(e, s, k0, a0, j0)
      /\ Reads(t) => S!Preferred(e, s, k0, a0, j0)
      /\ th[t].e = e
  BY <1>1, KnownFacts DEF Known
<1>3. th[u].pc \in {"value", "header"} => th[u].e = e
  BY DEF Known
<1>4. ASSUME safe
      PROVE  /\ th[u].pc \notin {"split", "grow", "publish", "again"}
             /\ th[u].pc \in {"main", "free", "value", "header"} => Reads(u)
             /\ Reads(u) => Reads(t)
             /\ th[u].pc \in {"value", "header"} => th[u].at[1] # a0
  BY <1>1, <1>2, <1>3, <1>4, Contend
<1>5. th[u].key = k0 => safe0 = safe
  BY <1>1
<1>6. Apart(th[u], Reads(u), e, s, k0, a0, j0, safe0, safe)
  BY <1>2, <1>4, <1>5 DEF Apart
<1>7. QED
  BY <1>1, <1>6

\* Writing the value of a slot: the one found, or the one chosen.
LEMMA ValueWritten ==
  ASSUME LockingInv, SlotsInv, exposed # Keys, NEW t \in Threads,
         th[t].pc = "value" \/ (th[t].pc = "found" /\ th[t].kind = "insert"),
         NEW p \in {"return", "header"}, p = "header" => th[t].pc = "value",
         th' = [th EXCEPT ![t].pc = p], UNCHANGED <<nodes, root, exposed, calls>>,
         segs' = [segs EXCEPT ![th[t].e.seg][th[t].at[1]][th[t].at[2]].val = th[t].val]
  PROVE  SlotsInv'
<1>1. PICK c, d, e, s, z, k, a, j, v, m, safe :
         /\ c = th[t] /\ d = th'[t] /\ e = Entry(t) /\ s = segs[Entry(t).seg] /\ z = segs'[Entry(t).seg]
         /\ k = th[t].key /\ a = th[t].at[1] /\ j = th[t].at[2] /\ v = th[t].val /\ m = Entry(t).seg
         /\ safe = (th[t].key \notin exposed)
  OBVIOUS
<1>2. InUse(th[t].node) /\ c.e = e /\ v \in Values /\ c.kind \in {"insert", "search"}
  BY <1>1, KnownFacts DEF Known
<1>3. /\ e \in S!SegmentNode /\ m \in 1..Len(segs) /\ s \in S!Segment /\ S!Ordered(e, s)
      /\ k \in S!BitString(W) /\ segs \in Seq(S!Segment) /\ safe \in BOOLEAN
  BY <1>1, <1>2, KnownFacts, Works DEF NodesSound
<1>4. a \in S!Addr /\ j \in 1..Slots
  <2>1. CASE c.pc = "found"
    BY <1>1, <2>1, KnownFacts DEF Known
  <2>2. CASE c.pc = "value"
    <3>1. S!Chosen(e, s, k, a, j, safe)
      BY <1>1, <2>2, KnownFacts DEF Known
    <3>2. QED
      BY <1>3, <3>1, ChosenSlot
  <2>3. QED
    BY <1>1, <2>1, <2>2
<1>5. PICK slot : slot = [segs[m][a][j] EXCEPT !.val = v]
  OBVIOUS
<1>6. segs[m][a][j] \in S!Slot
  <2>1. segs[m] \in S!Segment
    BY ONLY <1>3
  <2>2. segs[m][a] \in S!Bucket
    BY ONLY <1>4, <2>1 DEF S!Segment
  <2>3. QED
    BY ONLY <1>4, <2>2 DEF S!Bucket
<1>7. /\ slot \in S!Slot /\ slot.val = v /\ slot.valid = segs[m][a][j].valid
      /\ slot.ver = segs[m][a][j].ver /\ slot.key = segs[m][a][j].key
  <2>1. PICK x : x = segs[m][a][j]
    OBVIOUS
  <2>2. x \in S!Slot /\ slot = [x EXCEPT !.val = v] /\ v \in Values \union {None}
    BY <1>2, <1>5, <1>6, <2>1
  <2>3. slot \in S!Slot /\ slot.val = v /\ slot.valid = x.valid /\ slot.ver = x.ver /\ slot.key = x.key
    BY ONLY <2>2 DEF S!Slot
  <2>4. QED
    BY <2>1, <2>3
<1>8. segs' = Written(segs, m, a, j, slot)
  <2>1. th[t].e.seg = m
    BY <1>1, <1>2
  <2>2. segs' = [segs EXCEPT ![m][a][j].val = v]
    BY <1>1, <2>1
  <2>3. QED
    BY ONLY <1>5, <2>2 DEF Written
<1>9. /\ segs' \in Seq(S!Segment) /\ Len(segs') = Len(segs)
      /\ \A i \in 1..Len(segs) : i # m => segs'[i] = segs[i]
      /\ \A b \in S!Addr, i \in 1..Slots :
            segs'[m][b][i] = IF b = a /\ i = j THEN slot ELSE segs[m][b][i]
  <2>1. Differs(segs, segs', m, a, j, slot)
    BY ONLY <1>3, <1>4, <1>7, <1>8, SlotWritten
  <2>2. QED
    BY ONLY <2>1 DEF Differs
<1>10. \A b \in S!Addr, i \in 1..Slots : z[b][i] = IF b = a /\ i = j THEN slot ELSE s[b][i]
  <2>1. z = segs'[m] /\ s = segs[m]
    BY <1>1
  <2>2. QED
    BY ONLY <1>9, <2>1
<1>11. S!SameHeaders(s, z)
  <2>1. /\ slot.val = v /\ slot.valid = s[a][j].valid
        /\ slot.ver = s[a][j].ver /\ slot.key = s[a][j].key
    BY <1>1, <1>7
  <2>2. QED
    BY ONLY <1>2, <1>10, <2>1 DEF S!SameHeaders
<1>12. S!Ordered(e, z) /\ \A l : S!Once(e, s, l) => S!Once(e, z, l)
  BY <1>3, <1>11, NA, S!HeadersOrdered
<1>13. /\ \A u \in Threads \ {t} : th'[u] = th[u]
       /\ d = [c EXCEPT !.pc = p]
  BY ONLY <1>1, th' = [th EXCEPT ![t].pc = p], LockingInv, t \in Threads DEF LockingInv, Shape
<1>14. c = [x \in Fields |-> c[x]]
  BY <1>1, InCall DEF IsCall
<1>15. /\ d.pc = p /\ d.key = c.key /\ d.kind = c.kind /\ d.val = c.val /\ d.node = c.node
       /\ d.unguarded = c.unguarded /\ d.held = c.held /\ d.e = c.e /\ d.at = c.at
  BY ONLY <1>13, <1>14 DEF Fields
<1>16. Reads(t)' <=> Reads(t)
  BY <1>1, <1>15 DEF Reads
<1>17. Stands(t)'
  <2>1. Stands(t) /\ (Unguarded(t)' <=> Unguarded(t))
    BY <1>1, <1>15, KnownFacts DEF Unguarded
  <2>2. CASE p = "return"
    BY <1>1, <1>15, <1>16, <2>1, <2>2 DEF Stands
  <2>3. CASE p = "header"
    BY <1>1, <1>15, <1>16, <2>1, <2>3 DEF Stands
  <2>4. QED
    BY <2>2, <2>3
<1>18. ASSUME NEW r \in BOOLEAN, r => Reads(t), NEW g PROVE Known(d, r, TRUE, g, e, z, safe)
  <2>1. CASE p = "return"
    BY <1>1, <1>2, <1>15, <2>1 DEF Known
  <2>2. CASE p = "header"
    <3>1. /\ S!Chosen(e, s, k, a, j, safe) /\ (safe => ~S!Beaten(e, s, k, a, j))
          /\ r => S!Preferred(e, s, k, a, j)
      BY <1>1, <1>18, <2>2, KnownFacts DEF Known
    <3>2. /\ S!Chosen(e, z, k, a, j, safe) /\ (safe => ~S!Beaten(e, z, k, a, j))
          /\ r => S!Preferred(e, z, k, a, j)
      BY <1>3, <1>11, <3>1, NA, S!HeadersKeep
    <3>3. z[a][j].val \in Values
      BY <1>2, <1>4, <1>7, <1>10
    <3>4. QED
      BY <1>1, <1>2, <1>15, <2>2, <3>2, <3>3 DEF Known
  <2>3. QED
    BY <2>1, <2>2
<1>19. Known(th'[t], Reads(t)', TRUE, nodes[th[t].node].gd, e, segs'[m], th[t].key \notin exposed)
  <2>1. Reads(t)' \in BOOLEAN
    BY DEF Reads
  <2>2. QED
    BY <1>1, <1>16, <1>18, <2>1
<1>20. ASSUME NEW u \in Threads, u # t, NEW g, th[u].pc # "idle",
              Known(th[u], Reads(u), TRUE, g, e, segs[m], th[u].key \notin exposed)
       PROVE  Known(th[u], Reads(u), TRUE, g, e, segs'[m], th[u].key \notin exposed)
  <2>1. PICK r, safe2 : r = Reads(u) /\ safe2 = (th[u].key \notin exposed)
    OBVIOUS
  <2>2. r \in BOOLEAN /\ safe2 \in BOOLEAN
    BY <2>1 DEF Reads
  <2>3. th[u].key \in S!BitString(W)
    <3>1. th[u].key \in Keys
      BY <1>20, InCall DEF IsCall
    <3>2. QED
      BY <3>1, NumberType, 0 \in Nat
  <2>4. Known(th[u], r, TRUE, g, e, s, safe2)
    BY <1>1, <1>20, <2>1
  <2>5. Known(th[u], r, TRUE, g, e, z, safe2)
    <3>1. PICK x : x = th[u]
      OBVIOUS
    <3>2. /\ e \in S!SegmentNode /\ S!SameHeaders(s, z) /\ r \in BOOLEAN /\ safe2 \in BOOLEAN
          /\ x.key \in S!BitString(W) /\ Known(x, r, TRUE, g, e, s, safe2)
      BY <1>3, <1>11, <2>2, <2>3, <2>4, <3>1
    <3>3. Known(x, r, TRUE, g, e, z, safe2)
      BY ONLY <3>2, KnownAfterValue
    <3>4. QED
      BY <3>1, <3>3
  <2>6. QED
    BY <1>1, <2>1, <2>5
<1>21. Changes(t, m)
  BY <1>1, <1>2, <1>9, <1>13, <1>15 DEF Changes
<1>22. QED
  BY <1>1, <1>12, <1>15, <1>17, <1>19, <1>20, <1>21, SegmentChanged

\* The value is exchanged under the lock of the segment only.
LEMMA SlotsExchange ==
  ASSUME LockingInv, SlotsInv, exposed # Keys, NEW t \in Threads, Exchange(t)
  PROVE  SlotsInv'
<1>1. /\ UNCHANGED <<nodes, root, exposed, calls>> /\ th[t].pc = "found" /\ th[t].kind = "insert"
  BY DEF Exchange, Same
<1>2. CASE th' = [th EXCEPT ![t] = Restarted(t)] /\ UNCHANGED segs
  BY <1>1, <1>2, SlotsRestart
<1>3. CASE /\ segs' = [segs EXCEPT ![th[t].e.seg][th[t].at[1]][th[t].at[2]].val = th[t].val]
           /\ th' = [th EXCEPT ![t].pc = "return"]
  BY <1>1, <1>3, ValueWritten
<1>4. QED
  BY <1>2, <1>3 DEF Exchange

\* So is that of a slot chosen, before its header.
LEMMA SlotsPutValue ==
  ASSUME LockingInv, SlotsInv, exposed # Keys, NEW t \in Threads, PutValue(t)
  PROVE  SlotsInv'
<1>1. /\ UNCHANGED <<nodes, root, exposed, calls>> /\ th[t].pc = "value"
      /\ segs' = [segs EXCEPT ![th[t].e.seg][th[t].at[1]][th[t].at[2]].val = th[t].val]
  BY DEF PutValue, Same
<1>2. PICK p \in {"return", "header"} : th' = [th EXCEPT ![t].pc = p]
  BY DEF PutValue
<1>3. QED
  BY <1>1, <1>2, ValueWritten

\* The header makes the slot count: for a key that no race exposed it is the
\* only one.
LEMMA SlotsPutHeader ==
  ASSUME LockingInv, SlotsInv, exposed # Keys, NEW t \in Threads, PutHeader(t)
  PROVE  SlotsInv'
<1>1. PICK c, d, e, s, z, k, a, j, m, safe :
         /\ c = th[t] /\ d = th'[t] /\ e = Entry(t) /\ s = segs[Entry(t).seg] /\ z = segs'[Entry(t).seg]
         /\ k = th[t].key /\ a = th[t].at[1] /\ j = th[t].at[2] /\ m = Entry(t).seg
         /\ safe = (th[t].key \notin exposed)
  OBVIOUS
<1>2. /\ UNCHANGED <<nodes, root, exposed, calls>> /\ c.pc = "header" /\ th' = [th EXCEPT ![t].pc = "return"]
  BY <1>1 DEF PutHeader, Same
<1>3. /\ InUse(th[t].node) /\ c.e = e /\ c.kind \in {"insert", "search"} /\ c.val \in Values
      /\ S!Chosen(e, s, k, a, j, safe) /\ (safe => ~S!Beaten(e, s, k, a, j)) /\ s[a][j].val \in Values
  BY <1>1, <1>2, KnownFacts DEF Known
<1>4. /\ e \in S!SegmentNode /\ m \in 1..Len(segs) /\ s \in S!Segment /\ S!Ordered(e, s)
      /\ k \in S!BitString(W) /\ segs \in Seq(S!Segment) /\ safe \in BOOLEAN /\ e.ld \in Nat
  BY <1>1, <1>2, <1>3, KnownFacts, Works DEF NodesSound
<1>5. /\ a \in S!Addr /\ j \in 1..Slots /\ S!Lead(e, s, a, j)
      /\ a \in {S!SharedAddr(k, e), S!MainAddr(k, e)} /\ (safe => S!OnlyAt(e, s, k, S!Addr, a, j))
  BY <1>3, <1>4, ChosenSlot DEF S!Chosen
<1>6. PICK v, w, slot : /\ v = S!Expected(e, a[1]) /\ w = s[a][j].val
                        /\ slot = [valid |-> TRUE, ver |-> v, key |-> k, val |-> w]
  OBVIOUS
<1>7. v \in Int
  BY <1>4, <1>6 DEF S!Expected, S!SharedVersion, S!MainVersion
<1>8. slot \in S!Slot
  <2>1. w \in Values \union {None}
    BY <1>3, <1>6
  <2>2. QED
    BY ONLY <1>4, <1>6, <1>7, <2>1 DEF S!Slot
<1>9. segs' = Written(segs, m, a, j, slot)
  <2>1. th[t].e.seg = m /\ segs[m][a][j].val = w
    BY <1>1, <1>3, <1>6
  <2>2. (IF th[t].at[1][1] = th[t].e.off THEN Entry(t).ld - 1 ELSE Entry(t).ld) = v
    BY <1>1, <1>3, <1>6 DEF S!Expected, S!SharedVersion, S!MainVersion
  <2>3. segs' = [segs EXCEPT ![m][a][j] = [valid |-> TRUE, ver |-> v, key |-> k, val |-> @.val]]
    BY <1>1, <2>1, <2>2 DEF PutHeader
  <2>4. segs' = [segs EXCEPT ![m][a][j] = [valid |-> TRUE, ver |-> v, key |-> k, val |-> segs[m][a][j].val]]
    BY ONLY <2>3
  <2>5. segs' = [segs EXCEPT ![m][a][j] = slot]
    BY <1>6, <2>1, <2>4
  <2>6. QED
    BY ONLY <2>5 DEF Written
<1>10. /\ segs' \in Seq(S!Segment) /\ Len(segs') = Len(segs)
       /\ \A i \in 1..Len(segs) : i # m => segs'[i] = segs[i]
       /\ \A b \in S!Addr, i \in 1..Slots :
             segs'[m][b][i] = IF b = a /\ i = j THEN slot ELSE segs[m][b][i]
  <2>1. segs \in Seq(S!Segment) /\ m \in 1..Len(segs) /\ a \in S!Addr /\ j \in 1..Slots
    BY <1>4, <1>5
  <2>2. Differs(segs, segs', m, a, j, slot)
    BY ONLY <1>8, <1>9, <2>1, SlotWritten
  <2>3. QED
    BY ONLY <2>2 DEF Differs
<1>11. S!Writes(e, s, a, j, k, z)
  <2>1. z = segs'[m] /\ s = segs[m]
    BY <1>1
  <2>2. slot.valid /\ slot.ver = v /\ slot.key = k /\ slot.val = w /\ w \in Values
    BY <1>3, <1>6
  <2>3. z[a][j] = slot /\ \A b \in S!Addr, i \in 1..Slots : ~(b = a /\ i = j) => z[b][i] = s[b][i]
    BY ONLY <1>5, <1>10, <2>1
  <2>4. QED
    BY <1>6, <2>2, <2>3 DEF S!Writes
<1>12. S!Ordered(e, z)
  BY <1>4, <1>5, <1>11, NA, S!WriteOrdered
<1>13. ASSUME NEW l \in Keys \ exposed, S!Once(e, s, l) PROVE S!Once(e, z, l)
  <2>1. l = k => S!OnlyAt(e, s, k, S!Addr, a, j) /\ ~S!Beaten(e, s, k, a, j)
    BY <1>1, <1>3, <1>5
  <2>2. QED
    BY <1>5, <1>11, <1>13, <2>1, NA, S!WriteOnce
<1>14. /\ \A u \in Threads \ {t} : th'[u] = th[u]
       /\ d = [c EXCEPT !.pc = "return"]
  BY ONLY <1>1, <1>2, LockingInv, t \in Threads DEF LockingInv, Shape
<1>15. c = [x \in Fields |-> c[x]]
  BY <1>1, <1>2, InCall DEF IsCall
<1>16. /\ d.pc = "return" /\ d.key = c.key /\ d.kind = c.kind /\ d.val = c.val /\ d.node = c.node
       /\ d.unguarded = c.unguarded /\ d.held = c.held
  BY ONLY <1>14, <1>15 DEF Fields
<1>17. Stands(t)'
  <2>1. Stands(t) /\ (Unguarded(t)' <=> Unguarded(t)) /\ (Reads(t)' <=> Reads(t))
    BY <1>1, <1>2, <1>16, KnownFacts DEF Unguarded, Reads
  <2>2. QED
    BY <1>1, <1>2, <1>16, <2>1 DEF Stands
<1>18. Known(th'[t], Reads(t)', TRUE, nodes[th[t].node].gd, e, segs'[m], th[t].key \notin exposed)
  BY <1>1, <1>3, <1>16 DEF Known
<1>19. ASSUME NEW u \in Threads, u # t, NEW g, th[u].pc # "idle",
              Known(th[u], Reads(u), TRUE, g, e, segs[m], th[u].key \notin exposed)
       PROVE  Known(th[u], Reads(u), TRUE, g, e, segs'[m], th[u].key \notin exposed)
  <2>1. PICK x, r, safe2 : x = th[u] /\ r = Reads(u) /\ safe2 = (th[u].key \notin exposed)
    OBVIOUS
  <2>2. r \in BOOLEAN /\ safe2 \in BOOLEAN
    BY <2>1 DEF Reads
  <2>3. x.key \in S!BitString(W)
    <3>1. x.key \in Keys
      BY <1>19, <2>1, InCall DEF IsCall
    <3>2. QED
      BY <3>1, NumberType, 0 \in Nat
  <2>4. Known(x, r, TRUE, g, e, s, safe2)
    BY <1>1, <1>19, <2>1
  <2>5. Apart(x, r, e, s, k, a, j, safe, safe2)
    <3>1. Known(th[u], Reads(u), TRUE, g, e, s, safe2)
      BY <2>1, <2>4
    <3>2. Apart(th[u], Reads(u), e, s, th[t].key, th[t].at[1], th[t].at[2], th[t].key \notin exposed, safe2)
      BY <1>1, <1>2, <1>19, <2>1, <3>1, OthersApart
    <3>3. QED
      BY <1>1, <2>1, <3>2
  <2>6. Known(x, r, TRUE, g, e, z, safe2)
    BY ONLY <1>3, <1>4, <1>11, <2>2, <2>3, <2>4, <2>5, KnownAfterHeader
  <2>7. QED
    BY <1>1, <2>1, <2>6
<1>20. Changes(t, m)
  BY <1>1, <1>2, <1>3, <1>10, <1>14, <1>16 DEF Changes
<1>21. QED
  BY <1>1, <1>12, <1>13, <1>16, <1>17, <1>18, <1>19, <1>20, SegmentChanged

-----------------------------------------------------------------------------
(* Steps that change the directory.                                        *)

\* While a thread restructures, and none is unguarded, the others are at the
\* ends of their calls or wait for its locks.
LEMMA Frozen ==
  ASSUME LockingInv, SlotsInv, exposed # Keys, NEW t \in Threads,
         <<"write", Directory(root)>> \in th[t].held,
         NEW u \in Threads, u # t, ~Unguarded(u)
  PROVE  th[u].pc \notin {"segment", "shared", "main", "found", "free", "answer", "value",
                          "header", "split", "grow", "publish", "again"}
<1>1. /\ ~Reads(u) /\ th[u].pc # "publish"
      /\ th[u].pc \in {"split", "grow", "again"} => th[u].unguarded
  BY AloneWithRoot
<1>2. <<"write", Directory(root)>> \notin th[u].held
  BY DEF LockingInv, LocksExclude, Compatible
<1>3. th[u].pc # "idle" => ~th[u].unguarded
  BY DEF Unguarded
<1>4. Stands(u)
  BY KnownFacts
<1>5. QED
  BY <1>1, <1>2, <1>3, <1>4 DEF Stands

\* The segments after that of entry e was split, the new shared region being
\* newOff, and the entries of its halves.
Parted(ss, e, newOff) ==
    Append([ss EXCEPT ![e.seg] = S!LowerHalf(@, e.off, e.ld)],
           S!UpperHalf(ss[e.seg], e.off, newOff, e.ld))
Upper(e, newOff, n) == [ld |-> e.ld + 1, off |-> newOff, seg |-> n + 1]
Lower(e) == [ld |-> e.ld + 1, off |-> (e.off + 1) % 3, seg |-> e.seg]

\* The halves are in order and have nothing the segment did not have.
Halves(ss, tt, e, up, lo) ==
    /\ tt \in Seq(S!Segment) /\ Len(tt) = Len(ss) + 1
    /\ \A m \in 1..Len(ss) : m # e.seg => tt[m] = ss[m]
    /\ S!Ordered(lo, tt[e.seg]) /\ S!Ordered(up, tt[Len(ss) + 1])
    /\ \A k : S!Once(e, ss[e.seg], k) => S!Once(lo, tt[e.seg], k) /\ S!Once(up, tt[Len(ss) + 1], k)
    /\ \A k : S!HasKey(lo, tt[e.seg], k) \/ S!HasKey(up, tt[Len(ss) + 1], k) => S!HasKey(e, ss[e.seg], k)

\* Both halves keep this, and their entries are entries.
LEMMA SegmentParted ==
  ASSUME NEW ss, ss \in Seq(S!Segment), NEW e, e \in S!SegmentNode, e.seg \in 1..Len(ss),
         S!Ordered(e, ss[e.seg]), NEW newOff, newOff \in S!Region
  PROVE  /\ Halves(ss, Parted(ss, e, newOff), e, Upper(e, newOff, Len(ss)), Lower(e))
         /\ Upper(e, newOff, Len(ss)) \in S!SegmentNode /\ Lower(e) \in S!SegmentNode
<1>1. PICK s, low, high, up, lo, m, n, r, tt :
         /\ s = ss[e.seg] /\ low = S!LowerHalf(s, e.off, e.ld) /\ high = S!UpperHalf(s, e.off, newOff, e.ld)
         /\ up = Upper(e, newOff, Len(ss)) /\ lo = Lower(e) /\ m = e.seg /\ n = Len(ss)
         /\ r = [ss EXCEPT ![m] = low] /\ tt = Append(r, high)
  OBVIOUS
<1>2. s \in S!Segment /\ n \in Nat /\ m \in 1..n
  BY <1>1
<1>3. e.ld \in Nat /\ e.off \in 0..2
  BY DEF S!SegmentNode, S!Region
<1>4. up \in S!SegmentNode /\ up.ld = e.ld + 1 /\ up.off = newOff
  BY <1>1, <1>2, <1>3 DEF Upper, S!SegmentNode
<1>5. lo \in S!SegmentNode /\ lo.ld = e.ld + 1 /\ lo.off = (e.off + 1) % 3
  <2>1. (e.off + 1) % 3 \in 0..2
    BY <1>3
  <2>2. QED
    BY <1>1, <1>2, <1>3, <2>1 DEF Lower, S!SegmentNode, S!Region
<1>6. /\ low \in S!Segment /\ S!Ordered(lo, low) /\ high \in S!Segment /\ S!Ordered(up, high)
      /\ \A k : S!Once(e, s, k) => S!Once(lo, low, k) /\ S!Once(up, high, k)
      /\ \A k : S!HasKey(lo, low, k) \/ S!HasKey(up, high, k) => S!HasKey(e, s, k)
  BY <1>1, <1>2, <1>4, <1>5, NA, S!HalvesKeep
<1>7. r \in Seq(S!Segment) /\ Len(r) = n /\ \A i \in 1..n : r[i] = IF i = m THEN low ELSE ss[i]
  BY ONLY <1>1, <1>2, <1>6, ss \in Seq(S!Segment), ExceptSeq
<1>8. /\ tt \in Seq(S!Segment) /\ Len(tt) = n + 1
      /\ tt[n + 1] = high /\ \A i \in 1..n : tt[i] = r[i]
  BY ONLY <1>1, <1>6, <1>7, AppendProperties
<1>9. tt[m] = low /\ \A i \in 1..n : i # m => tt[i] = ss[i]
  BY <1>2, <1>7, <1>8
<1>10. Halves(ss, tt, e, up, lo)
  BY <1>1, <1>6, <1>8, <1>9 DEF Halves
<1>11. tt = Parted(ss, e, newOff)
  BY <1>1 DEF Parted
<1>12. QED
  BY <1>1, <1>4, <1>5, <1>10, <1>11

\* The splits of a node are these.
LEMMA SameSplits ==
  ASSUME NEW t, NEW n, NEW g, g = nodes[n].gd, NEW d, d = nodes[n].dir, NEW e,
         NEW num, num = S!SegmentNumber(th[t].key, g)
  PROVE  /\ \A off : Node(n, Pending(t))!SplitSegment(e, off) = Parted(segs, e, off)
         /\ DOMAIN d = S!BitString(g) =>
               Node(n, Pending(t))!SplitDirectory(e)
                  = S!Halved(g, g, d, num, e, Upper(e, e.off, Len(segs)), Lower(e))
         /\ num \in S!BitString(g) /\ g \in Nat /\ e.ld = g =>
               Node(n, Pending(t))!GrownDirectory(e)
                  = S!Halved(g + 1, g, d, num, e, Upper(e, 0, Len(segs)), Lower(e))
<1>1. PICK o : o = Pending(t)
  OBVIOUS
<1>2. o.key = th[t].key
  BY <1>1 DEF Pending
<1>3. \A off : Node(n, o)!SplitSegment(e, off) = Parted(segs, e, off)
  <2> SUFFICES ASSUME NEW off PROVE Node(n, o)!SplitSegment(e, off) = Parted(segs, e, off)
    OBVIOUS
  <2>1. PICK x : x = segs[e.seg]
    OBVIOUS
  <2>2. /\ Node(n, o)!LowerHalf(x, e.off, e.ld) = S!LowerHalf(x, e.off, e.ld)
        /\ Node(n, o)!UpperHalf(x, e.off, off, e.ld) = S!UpperHalf(x, e.off, off, e.ld)
    BY ONLY SameHalves
  <2>3. Node(n, o)!SplitSegment(e, off)
           = Append([segs EXCEPT ![e.seg] = Node(n, o)!LowerHalf(x, e.off, e.ld)],
                    Node(n, o)!UpperHalf(x, e.off, off, e.ld))
    BY <2>1 DEF Node!SplitSegment
  <2>4. Parted(segs, e, off)
           = Append([segs EXCEPT ![e.seg] = S!LowerHalf(x, e.off, e.ld)],
                    S!UpperHalf(x, e.off, off, e.ld))
    BY <2>1 DEF Parted
  <2>5. QED
    BY <2>2, <2>3, <2>4
<1>4. /\ \A off : Node(n, o)!UpperEntry(e, off) = Upper(e, off, Len(segs))
      /\ Node(n, o)!LowerEntry(e) = Lower(e)
  BY DEF Node!UpperEntry, Node!LowerEntry, Upper, Lower
<1>5. Node(n, o)!SegmentNumber(o.key, g) = num
  BY <1>2 DEF Node!SegmentNumber, Node!Slice, S!SegmentNumber, S!Slice
<1>6. ASSUME DOMAIN d = S!BitString(g)
      PROVE  Node(n, o)!SplitDirectory(e)
                = S!Halved(g, g, d, num, e, Upper(e, e.off, Len(segs)), Lower(e))
  <2>1. \A p \in S!BitString(g) : S!Prefix(p, g) = p
    BY DEF S!Prefix, S!BitString
  <2>2. Node(n, o)!SplitDirectory(e)
           = [p \in DOMAIN d |->
                IF \E i \in 1..e.ld : p[i] # num[i] THEN d[p]
                ELSE IF p[e.ld + 1] = 1 THEN Upper(e, e.off, Len(segs)) ELSE Lower(e)]
    BY <1>4, <1>5 DEF Node!SplitDirectory
  <2>3. QED
    BY <1>6, <2>1, <2>2 DEF S!Halved
<1>7. ASSUME num \in S!BitString(g), g \in Nat, e.ld = g
      PROVE  Node(n, o)!GrownDirectory(e)
                = S!Halved(g + 1, g, d, num, e, Upper(e, 0, Len(segs)), Lower(e))
  <2>1. ASSUME NEW p \in S!BitString(g + 1)
        PROVE  (S!Prefix(p, g) # num) <=> \E i \in 1..e.ld : p[i] # num[i]
    BY <1>7 DEF S!Prefix, S!BitString
  <2>2. Node(n, o)!GrownDirectory(e)
           = [p \in S!BitString(g + 1) |->
                IF S!Prefix(p, g) # num THEN d[S!Prefix(p, g)]
                ELSE IF p[g + 1] = 1 THEN Upper(e, 0, Len(segs)) ELSE Lower(e)]
    BY <1>4, <1>5 DEF Node!GrownDirectory, Node!BitString, Node!Bit, S!BitString, S!Bit, S!Prefix
  <2>3. QED
    BY <1>7, <2>1, <2>2 DEF S!Halved
<1>8. QED
  BY <1>1, <1>3, <1>6, <1>7

\* What is true of every entry of the directory after the segment of entry e
\* was split: it is one of the halves, or an entry of another segment.
LEMMA EntryHalved ==
  ASSUME NEW g2, NEW g, NEW d, NEW num, NEW e, NEW up, NEW lo, NEW ss, NEW tt,
         S!Halving(g2, g, d, Len(ss), num, e, up, lo), Halves(ss, tt, e, up, lo),
         NEW l, l \in Keys, NEW f, f = S!Halved(g2, g, d, num, e, up, lo)[S!SegmentNumber(l, g2)],
         NEW f0, f0 = d[S!SegmentNumber(l, g)]
  PROVE  /\ \/ f0 = e /\ (f = up \/ f = lo)
            \/ f0 # e /\ f0 = f /\ tt[f.seg] = ss[f0.seg]
         /\ S!HasKey(f, tt[f.seg], l) /\ f0 = e => S!HasKey(e, ss[e.seg], l)
<1>1. g \in Nat /\ g2 \in Nat /\ g <= g2
  BY DEF S!Halving, S!Directed
<1>2. PICK p, o : p = S!SegmentNumber(l, g2) /\ o = S!SegmentNumber(l, g)
  OBVIOUS
<1>3. p \in S!BitString(g2) /\ o \in S!BitString(g)
  BY <1>1, <1>2, NumberType
<1>4. S!Prefix(p, g) = o
  BY <1>1, <1>2 DEF S!Prefix, S!SegmentNumber, S!Slice
<1>5. /\ d[o].seg \in 1..Len(ss)
      /\ (d[o] = e /\ (f = up \/ f = lo)) \/ (d[o].seg # e.seg /\ f = d[o])
  <2> DEFINE G == \A i \in 1..e.ld : p[i] = num[i]
             q == S!Prefix(p, g)
             r == S!Halved(g2, g, d, num, e, up, lo)[p]
  <2>1. /\ d[q].seg \in 1..Len(ss)
        /\ G => d[q] = e
        /\ ~G => d[q].seg # e.seg /\ r = d[q]
        /\ G /\ p[e.ld + 1] = 1 => r = up
        /\ G /\ p[e.ld + 1] = 0 => r = lo
        /\ p[e.ld + 1] \in {0, 1}
    BY ONLY <1>3, NA, S!HalvedEntry, S!Halving(g2, g, d, Len(ss), num, e, up, lo)
  <2>2. r = f /\ q = o
    BY <1>2, <1>4
  <2> HIDE DEF G, q, r
  <2>3. QED
    BY <2>1, <2>2
<1>6. f0 = d[o] /\ up.seg = Len(ss) + 1 /\ lo.seg = e.seg
  BY <1>2 DEF S!Halving
<1>7. CASE f0 = e /\ (f = up \/ f = lo)
  BY <1>6, <1>7 DEF Halves
<1>8. CASE f0.seg # e.seg /\ f = f0
  BY <1>5, <1>6, <1>8 DEF Halves
<1>9. QED
  BY <1>5, <1>6, <1>7, <1>8

\* Thread t has split the segment of its entry e, of the root n, and n2 is the
\* node in use then: n, or a new one in which nobody else works.
Halving(t, n, e, newOff, n2, g2) ==
    /\ th[t].pc \in {"split", "grow"} /\ <<"write", Directory(root)>> \in th[t].held
    /\ \A u \in Threads : ~Unguarded(u)
    /\ UNCHANGED <<root, calls, exposed>>
    /\ \A u \in Threads \ {t} : th'[u] = th[u]
    /\ th'[t].pc \in {"publish", "again"} /\ th'[t].node = n2
    /\ th'[t].key = th[t].key /\ th'[t].kind = th[t].kind /\ th'[t].val = th[t].val
    /\ th'[t].held = th[t].held /\ th'[t].unguarded = th[t].unguarded
    /\ n = root /\ n = th[t].node /\ e = Entry(t) /\ newOff \in S!Region
    /\ g2 \in Nat /\ nodes[n].gd <= g2 /\ e.ld < g2
    /\ segs' = Parted(segs, e, newOff)
    /\ nodes'[n2] = [gd |-> g2, dir |-> S!Halved(g2, nodes[n].gd, nodes[n].dir,
                                                 S!SegmentNumber(th[t].key, nodes[n].gd), e,
                                                 Upper(e, newOff, Len(segs)), Lower(e))]
    /\ \A x : InUse(x)' <=> x = n2
    /\ \A u \in Threads \ {t} : th[u].pc # "idle" /\ th[u].node = n2 => n2 = n

\* The directory and the segments are sound again.
LEMMA HalvingSound ==
  ASSUME LockingInv, SlotsInv, exposed # Keys, NEW t \in Threads, NEW n, NEW e, NEW newOff, NEW n2, NEW g2,
         Halving(t, n, e, newOff, n2, g2), NEW up, NEW lo, up = Upper(e, newOff, Len(segs)), lo = Lower(e)
  PROVE  /\ InUse(n) /\ NodesSound'
         /\ S!Halving(g2, nodes[n].gd, nodes[n].dir, Len(segs),
                      S!SegmentNumber(th[t].key, nodes[n].gd), e, up, lo)
         /\ Halves(segs, segs', e, up, lo)
         /\ e.ld \in Nat /\ up.ld = e.ld + 1 /\ lo.ld = e.ld + 1
<1>1. PICK g, d, num, h : /\ g = nodes[n].gd /\ d = nodes[n].dir /\ num = S!SegmentNumber(th[t].key, g)
                          /\ h = S!Halved(g2, g, d, num, e, up, lo)
  OBVIOUS
<1>2. /\ th[t].pc \in {"split", "grow"} /\ <<"write", Directory(root)>> \in th[t].held
      /\ exposed' = exposed /\ n = root /\ n = th[t].node /\ e = Entry(t) /\ newOff \in S!Region
      /\ g2 \in Nat /\ g <= g2 /\ e.ld < g2 /\ segs' = Parted(segs, e, newOff)
      /\ nodes'[n2] = [gd |-> g2, dir |-> h] /\ \A x : InUse(x)' <=> x = n2
  BY <1>1 DEF Halving
<1>3. InUse(n)
  BY <1>2, RootInUse
<1>4. /\ e \in S!SegmentNode /\ e.ld \in Nat /\ e.seg \in 1..Len(segs) /\ S!Ordered(e, segs[e.seg])
      /\ th[t].key \in Keys /\ n \in 1..Len(nodes)
  BY <1>2, <1>3, KnownFacts, Works
<1>5. /\ S!Directed(g, d, Len(segs)) /\ S!SegmentsOrdered(g, d, segs, Keys \ exposed)
      /\ segs \in Seq(S!Segment)
  BY <1>1, <1>3, <1>4, KnownFacts DEF NodesSound, Sound
<1>6. num \in S!BitString(g) /\ e = d[num]
  <2>1. num \in S!BitString(g)
    BY <1>1, <1>4, <1>5, NumberType DEF S!Directed
  <2>2. e = EntryIn(n, th[t].key)
    BY <1>2, EntryIsIn
  <2>3. QED
    BY <1>1, <2>1, <2>2 DEF EntryIn
<1>7. Halves(segs, segs', e, up, lo) /\ up \in S!SegmentNode /\ lo \in S!SegmentNode
  BY <1>2, <1>4, <1>5, SegmentParted
<1>8. /\ up.ld = e.ld + 1 /\ up.seg = Len(segs) + 1 /\ lo.ld = e.ld + 1 /\ lo.seg = e.seg
      /\ Len(segs) \in Nat
  BY <1>5 DEF Upper, Lower
<1>9. S!Halving(g2, g, d, Len(segs), num, e, up, lo)
  BY <1>2, <1>5, <1>6, <1>7, <1>8 DEF S!Halving
<1>10. S!Directed(g2, h, Len(segs'))
  <2>1. S!Directed(g2, h, Len(segs) + 1)
    BY <1>1, <1>9, NA, S!HalvedDirected
  <2>2. Len(segs') = Len(segs) + 1
    BY <1>7 DEF Halves
  <2>3. QED
    BY <2>1, <2>2
<1>11. S!SegmentsOrdered(g2, h, segs', Keys \ exposed)
  <2>1. PICK K, tt, ss, len : K = Keys \ exposed /\ tt = segs' /\ ss = segs /\ len = Len(segs)
    OBVIOUS
  <2>2. \A k \in K : S!Once(e, ss[e.seg], k)
    BY <1>5, <1>6, <2>1 DEF S!SegmentsOrdered
  <2>3. /\ \A m \in 1..len : m # e.seg => tt[m] = ss[m]
        /\ S!Ordered(lo, tt[e.seg]) /\ S!Ordered(up, tt[len + 1])
        /\ \A k \in K : S!Once(lo, tt[e.seg], k) /\ S!Once(up, tt[len + 1], k)
    BY <1>7, <2>1, <2>2 DEF Halves
  <2>4. S!Halving(g2, g, d, len, num, e, up, lo) /\ S!SegmentsOrdered(g, d, ss, K)
    BY <1>5, <1>9, <2>1
  <2>5. S!SegmentsOrdered(g2, h, tt, K)
    BY ONLY <1>1, <2>3, <2>4, NA, S!HalvedOrdered
  <2>6. QED
    BY <2>1, <2>5
<1>12. Sound(n2)'
  <2>1. nodes'[n2].gd = g2 /\ nodes'[n2].dir = h
    BY <1>2
  <2>2. QED
    BY <1>2, <1>10, <1>11, <2>1 DEF Sound
<1>13. NodesSound'
  BY <1>2, <1>7, <1>12 DEF NodesSound, Halves
<1>14. QED
  BY <1>1, <1>3, <1>4, <1>7, <1>8, <1>9, <1>13

\* And the threads know what they must: what waits has an entry that is the
\* same, or deeper.
LEMMA SlotsHalved ==
  ASSUME LockingInv, SlotsInv, exposed # Keys, NEW t \in Threads, NEW n, NEW e, NEW newOff, NEW n2, NEW g2,
         Halving(t, n, e, newOff, n2, g2)
  PROVE  SlotsInv'
<1>1. PICK g, d, up, lo, h, num : /\ g = nodes[n].gd /\ d = nodes[n].dir
                             /\ up = Upper(e, newOff, Len(segs)) /\ lo = Lower(e)
                             /\ num = S!SegmentNumber(th[t].key, g)
                             /\ h = S!Halved(g2, g, d, num, e, up, lo)
  OBVIOUS
<1>2. /\ th[t].pc \in {"split", "grow"} /\ <<"write", Directory(root)>> \in th[t].held
      /\ \A u \in Threads : ~Unguarded(u)
      /\ UNCHANGED <<root, calls, exposed>> /\ \A u \in Threads \ {t} : th'[u] = th[u]
      /\ th'[t].pc \in {"publish", "again"} /\ th'[t].node = n2
      /\ th'[t].key = th[t].key /\ th'[t].kind = th[t].kind /\ th'[t].val = th[t].val
      /\ th'[t].held = th[t].held /\ th'[t].unguarded = th[t].unguarded
      /\ n = root /\ n = th[t].node /\ e = Entry(t)
      /\ nodes'[n2].gd = g2 /\ nodes'[n2].dir = h /\ \A x : InUse(x)' <=> x = n2
      /\ \A u \in Threads \ {t} : th[u].pc # "idle" /\ th[u].node = n2 => n2 = n
  BY <1>1 DEF Halving
<1>3. /\ InUse(n) /\ NodesSound' /\ S!Halving(g2, g, d, Len(segs), num, e, up, lo)
      /\ Halves(segs, segs', e, up, lo) /\ e.ld \in Nat /\ up.ld = e.ld + 1 /\ lo.ld = e.ld + 1
  BY <1>1, HalvingSound
<1>4. RacesExposed'
  <2>1. \A u \in Threads : ~Unguarded(u)'
    BY <1>2 DEF Unguarded
  <2>2. QED
    BY <2>1 DEF RacesExposed
<1>5. \A u \in Threads : Stands(u)'
  <2>1. Stands(t)'
    BY <1>2 DEF Stands, Unguarded
  <2>2. ASSUME NEW u \in Threads, u # t PROVE Stands(u)'
    <3>1. th'[u] = th[u] /\ Stands(u) /\ root' = root
      BY <1>2, <2>2, KnownFacts
    <3>2. (Reads(u)' <=> Reads(u)) /\ (Unguarded(u)' <=> Unguarded(u))
      BY <3>1 DEF Reads, Unguarded
    <3>3. QED
      BY <3>1, <3>2 DEF Stands
  <2>3. QED
    BY <2>1, <2>2
<1>6. Knows(t)'
  <2>1. PICK k, f, safe : /\ k = th[t].key /\ f = h[S!SegmentNumber(k, g2)]
                          /\ safe = (th[t].key \notin exposed)
    OBVIOUS
  <2>2. k \in Keys
    BY <1>2, <2>1, InCall DEF IsCall
  <2>3. Entry(t)' = f
    BY <1>2, <2>1, EntryIsIn DEF EntryIn
  <2>4. e = d[S!SegmentNumber(k, g)]
    BY <1>1, <1>3, <2>1 DEF S!Halving
  <2>5. /\ f = up \/ f = lo
        /\ S!HasKey(f, segs'[f.seg], k) => S!HasKey(e, segs[e.seg], k)
    <3>1. PICK ss, tt : ss = segs /\ tt = segs'
      OBVIOUS
    <3>2. S!Halving(g2, g, d, Len(ss), num, e, up, lo) /\ Halves(ss, tt, e, up, lo)
      BY <1>3, <3>1
    <3>3. /\ f = up \/ f = lo
          /\ S!HasKey(f, tt[f.seg], k) => S!HasKey(e, ss[e.seg], k)
      <4>1. k \in Keys /\ f = S!Halved(g2, g, d, num, e, up, lo)[S!SegmentNumber(k, g2)]
        BY <1>1, <2>1, <2>2
      <4>2. QED
        BY ONLY <2>4, <3>2, <4>1, EntryHalved
    <3>4. QED
      BY <3>1, <3>3
  <2>6. /\ th[t].kind \in {"insert", "search"} /\ th[t].val \in Values
        /\ safe => ~S!HasKey(e, segs[e.seg], k)
    BY <1>2, <2>1, KnownFacts DEF Known
  <2>7. f.ld >= 1
    BY <1>3, <2>5
  <2>8. \A r, x : Known(th'[t], r, TRUE, x, f, segs'[f.seg], safe)
    BY <1>2, <2>1, <2>5, <2>6, <2>7 DEF Known
  <2>9. InUse(th[t].node)' = TRUE
    BY <1>2 DEF InUse
  <2>10. QED
    BY <1>2, <2>1, <2>3, <2>8, <2>9 DEF Knows
<1>7. ASSUME NEW u \in Threads, u # t PROVE Knows(u)'
  <2>1. th'[u] = th[u]
    BY <1>2, <1>7
  <2>2. PICK c, k, f, f0, safe :
           /\ c = th[u] /\ k = th[u].key /\ f0 = Entry(u) /\ f = Entry(u)' /\ safe = (th[u].key \notin exposed)
    OBVIOUS
  <2>3. c.pc \notin {"segment", "shared", "main", "found", "free", "answer", "value",
                     "header", "split", "grow", "publish", "again"}
    BY <1>2, <1>7, <2>2, Frozen
  <2>4. /\ c.pc # "idle" => c.kind \in {"insert", "search"} /\ c.val \in Values
        /\ c.pc \in {"full", "alone"} => c.e.ld \in Nat
    BY <2>2, KnownFacts DEF Known
  <2>5. ASSUME c.pc \in {"full", "alone"}, c.node = n2
        PROVE  c.e.ld <= f.ld /\ (c.e.ld = f.ld => S!BothFull(f, segs'[f.seg], k, safe))
    <3>1. c.node = n /\ n2 = n
      BY <1>2, <1>7, <2>2, <2>5
    <3>2. InUse(th[u].node)
      BY <1>3, <2>2, <3>1
    <3>3. c.e.ld <= f0.ld /\ (c.e.ld = f0.ld => S!BothFull(f0, segs[f0.seg], k, safe))
      BY <2>2, <2>5, <3>2, KnownFacts DEF Known
    <3>4. k \in Keys
      BY <2>2, <2>5, InCall DEF IsCall
    <3>5. f0 = d[S!SegmentNumber(k, g)] /\ f = h[S!SegmentNumber(k, g2)]
      <4>1. f0 = EntryIn(n, k)
        BY <2>2, <3>1, EntryIsIn
      <4>2. f = EntryIn(th[u].node, th[u].key)'
        BY <2>2, EntryIsIn
      <4>3. th'[u].node = n2 /\ th'[u].key = k
        BY <2>1, <2>2, <3>1
      <4>4. f = nodes'[n2].dir[S!SegmentNumber(k, nodes'[n2].gd)]
        BY <4>2, <4>3 DEF EntryIn
      <4>5. QED
        BY <1>1, <1>2, <4>1, <4>4 DEF EntryIn
    <3>6. (f0 = e /\ (f = up \/ f = lo)) \/ (f0 = f /\ segs'[f.seg] = segs[f0.seg])
      <4>1. PICK ss, tt : ss = segs /\ tt = segs'
        OBVIOUS
      <4>2. S!Halving(g2, g, d, Len(ss), num, e, up, lo) /\ Halves(ss, tt, e, up, lo)
        BY <1>3, <4>1
      <4>3. (f0 = e /\ (f = up \/ f = lo)) \/ (f0 = f /\ tt[f.seg] = ss[f0.seg])
        <5>1. f = S!Halved(g2, g, d, num, e, up, lo)[S!SegmentNumber(k, g2)]
          BY <1>1, <3>5
        <5>2. QED
          BY ONLY <3>4, <3>5, <4>2, <5>1, EntryHalved
      <4>4. QED
        BY <4>1, <4>3
    <3>7. CASE f0 = e /\ (f = up \/ f = lo)
      BY <1>3, <2>4, <2>5, <3>3, <3>7
    <3>8. CASE f0 = f /\ segs'[f.seg] = segs[f0.seg]
      BY <3>3, <3>8
    <3>9. QED
      BY <3>6, <3>7, <3>8
  <2>6. InUse(th[u].node)' <=> c.node = n2
    BY <1>2, <2>1, <2>2 DEF InUse
  <2>7. QED
    BY <1>2, <2>1, <2>2, <2>3, <2>4, <2>5, <2>6 DEF Knows, Known
<1>8. calls' \in Nat
  BY <1>2 DEF SlotsInv
<1>9. QED
  BY <1>3, <1>4, <1>5, <1>6, <1>7, <1>8 DEF SlotsInv

\* What a thread that restructures has, unless everything gets exposed.
LEMMA Restructurer ==
  ASSUME LockingInv, SlotsInv, exposed # Keys, NEW t \in Threads, th[t].pc \in {"split", "grow"},
         exposed' = Restructured, exposed' # Keys
  PROVE  /\ exposed' = exposed /\ \A u \in Threads : ~Unguarded(u)
         /\ th[t].node = root /\ <<"write", Directory(root)>> \in th[t].held /\ InUse(root)
         /\ \A x : InUse(x) <=> x = root
<1>1. exposed' = exposed /\ \A u \in Threads : ~Unguarded(u)
  BY DEF Restructured
<1>2. ~th[t].unguarded
  BY <1>1 DEF Unguarded
<1>3. th[t].node = root /\ <<"write", Directory(root)>> \in th[t].held
  BY <1>2 DEF LockingInv, RootHeld, HasRoot
<1>4. \A x : InUse(x) <=> x = root
  BY <1>3, RootInUse
<1>5. QED
  BY <1>1, <1>3, <1>4

\* A split in place.
LEMMA SlotsSplit ==
  ASSUME LockingInv, SlotsInv, exposed # Keys, NEW t \in Threads, Split(t)
  PROVE  SlotsInv'
<1> SUFFICES ASSUME exposed' # Keys PROVE SlotsInv'
  BY DEF SlotsInv
<1>1. /\ th[t].pc = "split" /\ UNCHANGED <<root, calls>> /\ exposed' = Restructured
      /\ th' = [th EXCEPT ![t].pc = "again"]
  BY DEF Split
<1>2. /\ exposed' = exposed /\ \A u \in Threads : ~Unguarded(u)
      /\ th[t].node = root /\ <<"write", Directory(root)>> \in th[t].held /\ InUse(root)
      /\ \A x : InUse(x) <=> x = root
  BY <1>1, Restructurer
<1>3. PICK n, g, dir, e, num, c, d, h :
         /\ n = root /\ g = nodes[n].gd /\ dir = nodes[n].dir /\ e = Entry(t)
         /\ num = S!SegmentNumber(th[t].key, g) /\ c = th[t] /\ d = th'[t]
         /\ h = S!Halved(g, g, dir, num, e, Upper(e, e.off, Len(segs)), Lower(e))
  OBVIOUS
<1>4. /\ e \in S!SegmentNode /\ e.ld < g /\ n \in 1..Len(nodes)
  BY <1>1, <1>2, <1>3, KnownFacts, Works DEF Known
<1>5. /\ nodes[n] = [gd |-> g, dir |-> dir] /\ g \in Nat /\ dir \in [S!BitString(g) -> S!SegmentNode]
  BY <1>2, <1>3, <1>4, KnownFacts DEF NodesSound, Sound, S!Directed
<1>6. segs' = Parted(segs, e, e.off)
  <2>1. Node(n, Pending(t))!SplitSegment(e, e.off) = Parted(segs, e, e.off)
    BY ONLY <1>3, SameSplits
  <2>2. QED
    BY <1>2, <1>3, <2>1 DEF Split
<1>7. nodes' = [nodes EXCEPT ![n].dir = h]
  <2>1. Node(n, Pending(t))!SplitDirectory(e) = h
    <3>1. DOMAIN dir = S!BitString(g)
      BY ONLY <1>5
    <3>2. QED
      BY ONLY <1>3, <3>1, SameSplits
  <2>2. QED
    BY <1>2, <1>3, <2>1 DEF Split
<1>8. nodes'[n] = [gd |-> g, dir |-> h]
  <2>1. nodes = [x \in 1..Len(nodes) |-> nodes[x]]
    BY DEF LockingInv, Shape
  <2>2. nodes'[n] = [nodes[n] EXCEPT !.dir = h]
    BY ONLY <1>4, <1>7, <2>1
  <2>3. QED
    BY ONLY <1>5, <2>2
<1>9. \A u \in Threads \ {t} : th'[u] = th[u]
  BY <1>1 DEF LockingInv, Shape
<1>10. /\ d.pc = "again" /\ d.key = c.key /\ d.kind = c.kind /\ d.val = c.val /\ d.node = c.node
       /\ d.unguarded = c.unguarded /\ d.held = c.held
  <2>1. c = [x \in Fields |-> c[x]]
    BY <1>1, <1>3, InCall DEF IsCall
  <2>2. d = [c EXCEPT !.pc = "again"]
    BY ONLY <1>1, <1>3, LockingInv, t \in Threads DEF LockingInv, Shape
  <2>3. QED
    BY ONLY <2>1, <2>2 DEF Fields
<1>11. \A x : InUse(x)' <=> x = n
  <2>1. \A u \in Threads : th'[u].pc # "publish"
    <3>1. \A u \in Threads \ {t} : th[u].pc # "publish"
      BY <1>2, Frozen
    <3>2. QED
      BY <1>3, <1>9, <1>10, <3>1
  <2>2. QED
    BY <1>1, <1>3, <2>1 DEF InUse
<1>12. Halving(t, n, e, e.off, n, g)
  <2>1. e.off \in S!Region
    BY <1>4 DEF S!SegmentNode
  <2>2. g <= g
    BY <1>5
  <2>3. QED
    BY <1>1, <1>2, <1>3, <1>4, <1>5, <1>6, <1>8, <1>9, <1>10, <1>11, <2>1, <2>2 DEF Halving
<1>13. QED
  BY <1>12, SlotsHalved

\* A doubling, into a new node that the thread is to publish.
LEMMA SlotsGrow ==
  ASSUME LockingInv, SlotsInv, exposed # Keys, NEW t \in Threads, Grow(t)
  PROVE  SlotsInv'
<1> SUFFICES ASSUME exposed' # Keys PROVE SlotsInv'
  BY DEF SlotsInv
<1>1. /\ th[t].pc = "grow" /\ UNCHANGED <<root, calls>> /\ exposed' = Restructured
  BY DEF Grow
<1>2. /\ exposed' = exposed /\ \A u \in Threads : ~Unguarded(u)
      /\ th[t].node = root /\ <<"write", Directory(root)>> \in th[t].held /\ InUse(root)
      /\ \A x : InUse(x) <=> x = root
  BY <1>1, Restructurer
<1>3. PICK n, n2, g, dir, e, num, c, d, h :
         /\ n = root /\ n2 = Len(nodes) + 1 /\ g = nodes[n].gd /\ dir = nodes[n].dir /\ e = Entry(t)
         /\ num = S!SegmentNumber(th[t].key, g) /\ c = th[t] /\ d = th'[t]
         /\ h = S!Halved(g + 1, g, dir, num, e, Upper(e, 0, Len(segs)), Lower(e))
  OBVIOUS
<1>4. e.ld = g /\ n \in 1..Len(nodes) /\ th[t].key \in Keys
  BY <1>1, <1>2, <1>3, KnownFacts, Works DEF Known
<1>5. g \in Nat
  BY <1>2, <1>3, <1>4, KnownFacts DEF NodesSound, Sound, S!Directed
<1>6. segs' = Parted(segs, e, 0)
  <2>1. Node(n, Pending(t))!SplitSegment(e, 0) = Parted(segs, e, 0)
    BY ONLY <1>3, SameSplits
  <2>2. QED
    BY <1>2, <1>3, <2>1 DEF Grow
<1>7. nodes' = Append(nodes, [gd |-> g + 1, dir |-> h])
  <2>1. num \in S!BitString(g)
    BY <1>3, <1>4, <1>5, NumberType
  <2>2. Node(n, Pending(t))!GrownDirectory(e) = h
    BY ONLY <1>3, <1>4, <1>5, <2>1, SameSplits
  <2>3. QED
    BY <1>2, <1>3, <2>2 DEF Grow
<1>8. nodes'[n2] = [gd |-> g + 1, dir |-> h]
  <2>1. PICK x, Z : x = [gd |-> g + 1, dir |-> h] /\ Z = {nodes[i] : i \in 1..Len(nodes)} \union {x}
    OBVIOUS
  <2>2. nodes \in Seq(Z) /\ x \in Z
    BY <2>1 DEF LockingInv, Shape
  <2>3. Append(nodes, x)[Len(nodes) + 1] = x
    BY ONLY <2>2, AppendProperties
  <2>4. QED
    BY <1>3, <1>7, <2>1, <2>3
<1>9. \A u \in Threads \ {t} : th'[u] = th[u]
  BY DEF Grow, LockingInv, Shape
<1>10. /\ d.pc = "publish" /\ d.key = c.key /\ d.kind = c.kind /\ d.val = c.val /\ d.node = n2
       /\ d.unguarded = c.unguarded /\ d.held = c.held
  <2>1. c = [x \in Fields |-> c[x]]
    BY <1>1, <1>3, InCall DEF IsCall
  <2>2. th' = [th EXCEPT ![t].pc = "publish", ![t].node = n2]
    BY <1>3 DEF Grow
  <2>3. d = [c EXCEPT !.pc = "publish", !.node = n2]
    BY ONLY <1>3, <2>2, LockingInv, t \in Threads DEF LockingInv, Shape
  <2>4. QED
    BY ONLY <2>1, <2>3 DEF Fields
<1>11. \A x : InUse(x)' <=> x = n2
  <2>1. \A u \in Threads \ {t} : th'[u].pc # "publish"
    <3>1. \A u \in Threads \ {t} : th[u].pc # "publish"
      BY <1>2, Frozen
    <3>2. QED
      BY <1>9, <3>1
  <2>2. th'[t].pc = "publish" /\ th'[t].node = n2
    BY <1>3, <1>10
  <2>3. QED
    BY <2>1, <2>2 DEF InUse
<1>12. \A u \in Threads \ {t} : th[u].pc # "idle" => th[u].node # n2
  <2>1. Len(nodes) \in Nat
    BY DEF LockingInv, Shape
  <2>2. SUFFICES ASSUME NEW u \in Threads, th[u].pc # "idle" PROVE th[u].node # n2
    OBVIOUS
  <2>3. th[u].node \in 1..Len(nodes)
    BY <2>2, InCall DEF IsCall
  <2>4. QED
    BY ONLY <1>3, <2>1, <2>3
<1>13. Halving(t, n, e, 0, n2, g + 1)
  <2>1. 0 \in S!Region /\ g + 1 \in Nat /\ g <= g + 1 /\ e.ld < g + 1
    BY <1>4, <1>5 DEF S!Region
  <2>2. QED
    BY <1>1, <1>2, <1>3, <1>6, <1>8, <1>9, <1>10, <1>11, <1>12, <2>1 DEF Halving
<1>14. QED
  BY <1>13, SlotsHalved

-----------------------------------------------------------------------------
(* The theorems.                                                           *)

\* Nothing is locked at first.
LEMMA LockingStarts == Init => LockingInv
<1> SUFFICES ASSUME Init PROVE LockingInv
  OBVIOUS
<1>1. PICK x : nodes = <<x>>
  BY DEF Init
<1>2. \A t \in Threads : th[t] = Idle /\ th[t].pc = "idle" /\ th[t].held = {} /\ ~Reads(t)
  BY DEF Init, Idle, Reads
<1>3. Shape
  BY <1>1, <1>2 DEF Init, Shape
<1>4. LocksExclude /\ LocksInOrder /\ RootHeld
  BY <1>2 DEF LocksExclude, LocksInOrder, InOrder, RootHeld, HasRoot
<1>5. QED
  BY <1>3, <1>4 DEF LockingInv

\* Every step keeps the invariant.
LEMMA LockingStep ==
  ASSUME LockingInv, [Next]_vars
  PROVE  LockingInv'
<1>1. CASE \E t \in Threads, kind \in {"insert", "search"}, k \in Keys : Begin(t, kind, k)
  BY <1>1, BeginStep
<1>2. CASE \E t \in Threads : Step(t)
  BY <1>2, DirectoryStep, SegmentStep, ScanSteps, ValueSteps, BucketStep, DirectoryWriteStep,
     SegmentWriteStep, SplitStep, GrowStep, PublishStep, PutSegNodeStep, ReturnSteps DEF Step
<1>3. CASE UNCHANGED vars
  <2>1. \A t \in Threads : (Reads(t)' <=> Reads(t)) /\ Entry(t)' = Entry(t)
    BY <1>3 DEF vars, Reads, Entry, Node!EntryOf
  <2>2. Shape' /\ LocksExclude' /\ LocksInOrder'
    BY <1>3, <2>1 DEF vars, LockingInv, Shape, IsCall, LocksExclude, LocksInOrder, InOrder
  <2>3. RootHeld'
    BY <1>3, <2>1 DEF vars, LockingInv, RootHeld, HasRoot
  <2>4. QED
    BY <2>2, <2>3 DEF LockingInv
<1>4. QED
  BY <1>1, <1>2, <1>3 DEF Next, Finished

\* The first node and its segment are sound, and nobody is in a call.
LEMMA SlotsStart == Init => SlotsInv
<1> SUFFICES ASSUME Init PROVE SlotsInv
  OBVIOUS
<1>1. PICK s : s = S!NewSegment
  OBVIOUS
<1>2. PICK f : f = [ld |-> 0, off |-> 0, seg |-> 1]
  OBVIOUS
<1>3. /\ \A t \in Threads : th[t] = Idle /\ th[t].pc = "idle" /\ th[t].held = {} /\ ~Reads(t)
      /\ calls = 0 /\ root = 1
  BY DEF Init, Idle, Reads
<1>4. segs = <<s>> /\ Len(segs) = 1 /\ segs[1] = s
  BY <1>1, SameHalves DEF Init
<1>5. PICK d : d = [p \in {<<>>} |-> f]
  OBVIOUS
<1>6. nodes = <<[gd |-> 0, dir |-> d]>> /\ Len(nodes) = 1
  BY <1>2, <1>5 DEF Init
<1>7. nodes[1] = [gd |-> 0, dir |-> d] /\ nodes[1].gd = 0 /\ nodes[1].dir = d
  BY <1>6
<1>8. S!BitString(0) = {<<>>}
  <2>1. S!BitString(0) = [1..0 -> {0, 1}]
    BY DEF S!BitString, S!Bit
  <2>2. ASSUME NEW x \in [1..0 -> {0, 1}] PROVE x = <<>>
    <3>1. x \in Seq({0, 1}) /\ Len(x) = 0
      BY <2>2
    <3>2. QED
      BY ONLY <3>1, EmptySeq
  <2>3. <<>> \in [1..0 -> {0, 1}]
    OBVIOUS
  <2>4. QED
    BY <2>1, <2>2, <2>3
<1>9. f \in S!SegmentNode
  BY <1>2 DEF S!SegmentNode, S!Region
<1>10. S!Directed(0, d, 1)
  <2>1. d \in [S!BitString(0) -> S!SegmentNode] /\ \A p \in S!BitString(0) : d[p] = f
    BY <1>5, <1>8, <1>9
  <2>2. f.seg = 1 /\ f.ld = 0
    BY <1>2
  <2>3. QED
    BY <1>8, <2>1, <2>2 DEF S!Directed
<1>11. S!SegmentsOrdered(0, d, segs, Keys \ exposed)
  <2>1. S!Ordered(f, s) /\ \A k : S!Once(f, s, k)
    BY <1>1, S!FreshInOrder, NA DEF S!SegInv
  <2>2. \A p \in S!BitString(0) : d[p] = f /\ segs[d[p].seg] = s
    BY <1>2, <1>4, <1>5, <1>8
  <2>3. QED
    BY <2>1, <2>2 DEF S!SegmentsOrdered
<1>12. NodesSound
  <2>1. s \in S!Segment
    BY <1>1, NA, S!FreshTypes
  <2>2. segs \in Seq(S!Segment)
    BY <1>4, <2>1
  <2>3. Sound(1)
    BY <1>4, <1>7, <1>10, <1>11 DEF Sound
  <2>4. QED
    BY <1>6, <2>2, <2>3 DEF NodesSound
<1>13. RacesExposed
  BY <1>3 DEF RacesExposed
<1>14. \A t \in Threads : Stands(t) /\ Knows(t)
  BY <1>3 DEF Stands, Knows, Known, Unguarded
<1>15. QED
  BY <1>3, <1>12, <1>13, <1>14 DEF SlotsInv

\* Every step keeps it, as long as some key is not exposed.
LEMMA SlotsStep ==
  ASSUME LockingInv, SlotsInv, [Next]_vars
  PROVE  SlotsInv'
<1>1. CASE exposed = Keys
  <2>1. exposed' \in SUBSET Keys
    BY LockingStep DEF LockingInv, Shape
  <2>2. exposed \subseteq exposed'
    <3>1. exposed' = Restructured => exposed \subseteq exposed'
      BY <1>1 DEF Restructured
    <3>2. CASE \E t \in Threads, kind \in {"insert", "search"}, k \in Keys : Begin(t, kind, k)
      BY <3>2 DEF Begin
    <3>3. CASE \E t \in Threads : Step(t)
      <4>1. PICK t \in Threads : Step(t)
        BY <3>3
      <4>2. Split(t) \/ Grow(t) => exposed' = Restructured
        BY DEF Split, Grow
      <4>3. Publish(t) => exposed \subseteq exposed'
        BY DEF Publish
      <4>4. LockDirectory(t) \/ LockSegment(t) \/ (\E step \in {"shared", "main"} : Find(t, step))
               \/ MissShared(t) \/ MissMain(t) \/ Exchange(t) \/ LookAgain(t) => exposed' = exposed
        BY DEF Same, LockDirectory, LockSegment, Find, Scanning, MissShared, MissMain, Exchange, LookAgain
      <4>5. LockBucket(t) \/ LockDirectoryWrite(t) \/ LockSegmentWrite(t) \/ PutSegNode(t)
               \/ PutValue(t) \/ PutHeader(t) \/ ReturnInsert(t) \/ ReturnSearch(t) => exposed' = exposed
        BY DEF Same, LockBucket, LockDirectoryWrite, LockSegmentWrite, PutSegNode, PutValue, PutHeader,
               ReturnInsert, ReturnSearch
      <4>6. QED
        BY <3>1, <4>1, <4>2, <4>3, <4>4, <4>5 DEF Step
    <3>4. CASE UNCHANGED vars
      BY <3>4 DEF vars
    <3>5. QED
      BY <3>2, <3>3, <3>4 DEF Next, Finished
  <2>3. QED
    BY <1>1, <2>1, <2>2 DEF SlotsInv
<1>2. CASE exposed # Keys
  <2>1. CASE \E t \in Threads, kind \in {"insert", "search"}, k \in Keys : Begin(t, kind, k)
    BY <1>2, <2>1, SlotsBegin
  <2>2. CASE \E t \in Threads : Step(t)
    BY <1>2, <2>2, SlotsDirectory, SlotsSegment, SlotsFind, SlotsMissShared, SlotsMissMain, SlotsExchange,
       SlotsLookAgain, SlotsBucket, SlotsDirectoryWrite, SlotsSegmentWrite, SlotsSplit, SlotsGrow,
       SlotsPublish, SlotsPutSegNode, SlotsPutValue, SlotsPutHeader, SlotsReturn DEF Step
  <2>3. CASE UNCHANGED vars
    <3>1. /\ nodes' = nodes /\ root' = root /\ segs' = segs /\ th' = th /\ calls' = calls
          /\ exposed' = exposed
      BY <2>3 DEF vars
    <3>2. NodesSound' /\ RacesExposed' /\ calls' \in Nat
      BY <1>2, <3>1 DEF SlotsInv, NodesSound, Sound, InUse, RacesExposed, Unguarded
    <3>3. ASSUME NEW t \in Threads PROVE Stands(t)' /\ Knows(t)'
      <4>1. Entry(t)' = Entry(t)
        BY <3>1, EntryIsIn DEF EntryIn
      <4>2. (Reads(t)' = Reads(t)) /\ (Unguarded(t)' = Unguarded(t))
        BY <3>1 DEF Reads, Unguarded
      <4>3. InUse(th[t].node)' = InUse(th[t].node)
        BY <3>1 DEF InUse
      <4>4. QED
        BY <1>2, <3>1, <4>1, <4>2, <4>3 DEF SlotsInv, Stands, Knows
    <3>4. QED
      BY <3>2, <3>3 DEF SlotsInv
  <2>4. QED
    BY <2>1, <2>2, <2>3 DEF Next, Finished
<1>3. QED
  BY <1>1, <1>2

\* While the directory of the root can be read nobody is about to publish
\* another, so the root is the sound node in use, and has no key twice.
LEMMA TwinsExcluded ==
  ASSUME LockingInv, SlotsInv
  PROVE  NoTwins
<1> SUFFICES ASSUME CanRead(Directory(root)), NEW k \in Keys \ exposed
             PROVE  LET e == Node(root, Quiet)!EntryOf(k)
                        copies(a, ver) == Cardinality(Node(root, Quiet)!Matches(segs[e.seg][a], ver, k))
                    IN  copies(Node(root, Quiet)!SharedAddr(k, e), e.ld - 1)
                          + copies(Node(root, Quiet)!MainAddr(k, e), e.ld) <= 1
  BY DEF NoTwins
<1>1. exposed # Keys
  OBVIOUS
<1>2. PICK n, e, s, a, b : /\ n = root /\ e = EntryIn(n, k) /\ s = segs[e.seg]
                           /\ a = S!SharedAddr(k, e) /\ b = S!MainAddr(k, e)
  OBVIOUS
<1>3. InUse(n)
  <2>1. \A t \in Threads : th[t].pc # "publish"
    BY <1>1, Readable DEF LockingInv, RootHeld, HasRoot
  <2>2. QED
    BY <1>2, <2>1 DEF InUse
<1>4. /\ e \in S!SegmentNode /\ k \in S!BitString(W) /\ S!Once(e, s, k)
  <2>1. NodesSound /\ n \in 1..Len(nodes)
    BY <1>1, <1>2 DEF SlotsInv, LockingInv, Shape
  <2>2. k \in S!BitString(W)
    BY NumberType
  <2>3. QED
    BY <1>2, <1>3, <2>1, <2>2, EntryFacts
<1>5. /\ a \in S!Addr /\ b \in S!Addr /\ a # b
      /\ S!Expected(e, a[1]) = e.ld - 1 /\ S!Expected(e, b[1]) = e.ld
  BY ONLY <1>2, <1>4, NA, S!TwoBuckets DEF S!SharedVersion, S!MainVersion
<1>6. Cardinality(S!Matches(s[a], e.ld - 1, k)) + Cardinality(S!Matches(s[b], e.ld, k)) <= 1
  <2>1. S!Cardinality(S!Matches(s[a], S!Expected(e, a[1]), k))
           + S!Cardinality(S!Matches(s[b], S!Expected(e, b[1]), k)) <= 1
    BY ONLY <1>4, <1>5, NA, S!CopiesOnce
  <2>2. \A X : S!Cardinality(X) = Cardinality(X)
    BY DEF S!Cardinality, Cardinality
  <2>3. QED
    BY ONLY <1>5, <2>1, <2>2
<1>7. /\ Node(root, Quiet)!EntryOf(k) = e
      /\ Node(root, Quiet)!SharedAddr(k, e) = a /\ Node(root, Quiet)!MainAddr(k, e) = b
      /\ Node(root, Quiet)!Matches(s[a], e.ld - 1, k) = S!Matches(s[a], e.ld - 1, k)
      /\ Node(root, Quiet)!Matches(s[b], e.ld, k) = S!Matches(s[b], e.ld, k)
  <2>1. PICK m : m = root
    OBVIOUS
  <2>2. Node(m, Quiet)!EntryOf(k) = EntryIn(m, k)
    BY ONLY SameOperators DEF EntryIn
  <2>3. Node(m, Quiet)!SharedAddr(k, e) = S!SharedAddr(k, e) /\ Node(m, Quiet)!MainAddr(k, e) = S!MainAddr(k, e)
    BY ONLY SameOperators
  <2>4. /\ Node(m, Quiet)!Matches(s[a], e.ld - 1, k) = S!Matches(s[a], e.ld - 1, k)
        /\ Node(m, Quiet)!Matches(s[b], e.ld, k) = S!Matches(s[b], e.ld, k)
    BY ONLY SameOperators
  <2>5. QED
    BY ONLY <1>2, <2>1, <2>2, <2>3, <2>4
<1>8. QED
  BY <1>2, <1>6, <1>7

\* LocksExclude: whatever the threads do, a lock that one has to write nobody
\* else has.
THEOREM LocksStayExclusive == Spec => []LocksExclude
<1>1. Init => LockingInv
  BY LockingStarts
<1>2. LockingInv /\ [Next]_vars => LockingInv'
  BY LockingStep
<1>3. LockingInv => LocksExclude
  BY DEF LockingInv
<1>4. QED
  BY <1>1, <1>2, <1>3, PTL DEF Spec

\* NoTwins: two inserters of one new key never both take a slot for it, for the
\* later one, under the lock of the bucket, still finds the slot free it saw
\* free, so it is the one slot the other would have taken.
THEOREM TwinsNeverArise == Spec => []NoTwins
<1>1. Init => LockingInv /\ SlotsInv
  BY LockingStarts, SlotsStart
<1>2. LockingInv /\ SlotsInv /\ [Next]_vars => LockingInv' /\ SlotsInv'
  BY LockingStep, SlotsStep
<1>3. LockingInv /\ SlotsInv => NoTwins
  BY TwinsExcluded
<1>4. QED
  BY <1>1, <1>2, <1>3, PTL DEF Spec

\* SnapshotCurrent: the segment pointer read under the lock of the directory
\* and the depth and offset read under that of the segment are those of one
\* entry of the node that is still the root, for as long as they are used.
THEOREM SnapshotStaysCurrent == Spec => []SnapshotCurrent
<1>1. Init => LockingInv
  BY LockingStarts
<1>2. LockingInv /\ [Next]_vars => LockingInv'
  BY LockingStep
<1>3. LockingInv => SnapshotCurrent
  <2> SUFFICES ASSUME LockingInv, exposed # Keys, NEW t \in Threads, NEW s,
                      <<"read", SegmentLock(s)>> \in th[t].held
               PROVE  th[t].node = root /\ SameEntry(th[t].e, Entry(t))
    BY DEF SnapshotCurrent
  <2>1. Reads(t) /\ HasRoot(t) /\ InOrder(t)
    BY DEF LockingInv, LocksInOrder, RootHeld, Reads
  <2>2. <<"read", SegmentLock(s)>> # <<"read", Directory(th[t].node)>>
    BY DEF SegmentLock, Directory
  <2>3. th[t].pc # "segment"
    BY <2>1, <2>2 DEF InOrder
  <2>4. QED
    BY <2>1, <2>3 DEF HasRoot
<1>4. QED
  BY <1>1, <1>2, <1>3, PTL DEF Spec

=============================================================================
