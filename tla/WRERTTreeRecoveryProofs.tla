---------------------- MODULE WRERTTreeRecoveryProofs -----------------------
(***************************************************************************)
(* Theorems about WRERTTreeRecovery, for every set of keys and values: what*)
(* a tree is after the death of its process and the walk of recoveryTree,  *)
(* wherever the death fell but between the stores that no reader may see   *)
(* one without the other.                                                  *)
(***************************************************************************)
EXTENDS WRERTTreeRecovery, WRERTTreeProofs

-----------------------------------------------------------------------------
(* Trees that are not the one in use, and the inductive invariant.  The    *)
(* stores still to be done lead through trees that are in no variable, so  *)
(* what TreeInv and Bound say is said here of any nodes ns, records ks and *)
(* root r.                                                                 *)

Typed(ns, ks, r) ==
    /\ ns \in Seq(TreeNode)
    /\ ks \in Seq([key : Keys, val : Values])
    /\ r \in 1..Len(ns)

TopPlain(ns, r) ==
    /\ ns[r].depth = 0
    /\ ns[r].prefixLength \in {0, 1, Unset}
    /\ ns[r].prefixLength = 1 => ns[r].prefix \in SubKeys
    /\ ns[r].prefixLength = Unset => ns[r].slots = NoSlots

TopSlots(ns, ks, r) ==
    \A s \in SubKeys :
        LET slot == ns[r].slots[s]
        IN  /\ slot.kind = "value" => ns[r].prefixLength = 1
            /\ slot.kind \in {"kv", "node"} => ns[r].prefixLength = 0
            /\ slot.kind = "kv" => slot.at \in 1..Len(ks) /\ ks[slot.at].key[1] = s
            /\ slot.kind = "node" =>
                  /\ slot.at \in (1..Len(ns)) \ {r}
                  /\ ns[slot.at].depth = 1 /\ ns[slot.at].prefixLength = 0
                  /\ \A t \in SubKeys : ns[slot.at].slots[t].kind \in {"nothing", "value"}

OneSlot(ns, r) ==
    \A s, t \in SubKeys :
        ns[r].slots[s].kind = "node" /\ ns[r].slots[s] = ns[r].slots[t] => s = t

\* A tree that can be searched, and recovered: its root and what the root
\* leads to are as they should be.
Usable(ns, ks, r) == Typed(ns, ks, r) /\ TopPlain(ns, r) /\ TopSlots(ns, ks, r) /\ OneSlot(ns, r)

\* A tree between inserts: there is no node that nothing leads to.
Whole(ns, ks, r) ==
    /\ Usable(ns, ks, r)
    /\ ns[r].prefixLength # 0 => Len(ns) = 1
    /\ \A n \in (1..Len(ns)) \ {r} : \E s \in SubKeys : ns[r].slots[s] = Child(n)

LeafFinds(ns, n, s) == IF ns[n].slots[s].kind = "value" THEN ns[n].slots[s].val ELSE None
RecordFinds(ks, i, k) == IF ks[i].key = k THEN ks[i].val ELSE None
SlotFinds(ns, ks, slot, k) ==
    IF slot.kind = "kv" THEN RecordFinds(ks, slot.at, k)
    ELSE IF slot.kind = "node" THEN LeafFinds(ns, slot.at, k[2]) ELSE None
Finds(ns, ks, r, k) ==
    IF ns[r].prefixLength = 0 THEN SlotFinds(ns, ks, ns[r].slots[k[1]], k)
    ELSE IF ns[r].prefixLength = 1 /\ k[1] = ns[r].prefix THEN LeafFinds(ns, r, k[2])
    ELSE None

\* The tree is a map from the keys to what f gives them.
Maps(ns, ks, r, f) == \A k \in Keys : Finds(ns, ks, r, k) = f[k]

\* What the insert in progress will have acknowledged when it returns.
Target == [acked EXCEPT ![op.key] = op.val]

\* Between inserts, or on the way down: what was acknowledged is there.
Walking == /\ todo = <<>>
           /\ TreeInv
           /\ Maps(nodes, kvs, root, acked)

\* With stores to do: the last of them makes the tree whole and the insert's
\* key bound; before the first of them nothing that leads anywhere has changed.
Storing ==
    /\ \E S : todo \in Seq(S)
    /\ todo # <<>>
    /\ op \in [pc : {"return", "stored"}, key : Keys, val : Values, node : Nat, pos : {0, 1}]
    /\ Whole(todo[Len(todo)].nodes, kvs, todo[Len(todo)].root)
    /\ Maps(todo[Len(todo)].nodes, kvs, todo[Len(todo)].root, Target)
    /\ op.pc = "return" => Usable(nodes, kvs, root) /\ Maps(nodes, kvs, root, acked)

\* With all stores done.
Done ==
    /\ todo = <<>>
    /\ op \in [pc : {"stored"}, key : Keys, val : Values, node : Nat, pos : {0, 1}]
    /\ Whole(nodes, kvs, root)
    /\ Maps(nodes, kvs, root, Target)

\* The recovery has the root to visit, or the children of a root it has
\* visited; then each slot that is followed has been relocated once.
AtRoot == /\ walk.visits = {Visit(root, 0, 0)}
          /\ \A at \in (1..Len(nodes)) \X SubKeys : walk.moved[at] = 0
BelowRoot == \A visit \in walk.visits : visit.pos = 1 /\ visit.n \in (1..Len(nodes)) \ {root}
                                         /\ nodes[visit.n].prefixLength = 0
MovedOnce == \A at \in Followed : walk.moved[at] = 1

Recovering ==
    /\ Usable(nodes, kvs, root)
    /\ \A k \in Keys : Finds(nodes, kvs, root, k) \in {acked[k]} \union CutOff(k)
    /\ \/ /\ walk.phase = "walking"
          /\ walk.moved = [at \in (1..Len(nodes)) \X SubKeys |-> walk.moved[at]]
          /\ AtRoot \/ (BelowRoot /\ MovedOnce)
       \/ walk.phase = "recovered" /\ MovedOnce

WalkTyped ==
    walk.phase = "walking" =>
        walk = [phase |-> "walking", visits |-> walk.visits, moved |-> walk.moved]

RecoveryInv ==
    /\ acked = [k \in Keys |-> acked[k]]
    /\ walk = Up => Walking \/ Storing \/ Done
    /\ walk # Up => WalkTyped /\ (crash.between \/ Recovering)

-----------------------------------------------------------------------------
(* The tree in use, and trees that grow.                                   *)

\* Between inserts, or on the way down, the tree is whole.
LEMMA TreeIsWhole == TreeInv => Whole(nodes, kvs, root)
<1> SUFFICES ASSUME TreeInv PROVE Whole(nodes, kvs, root)
  OBVIOUS
<1>1. Typed(nodes, kvs, root)
  BY DEF TreeInv, TreeTypeOK, Typed
<1>2. TopPlain(nodes, root) /\ OneSlot(nodes, root)
  BY DEF TreeInv, RootPlain, OneParent, TopPlain, OneSlot
<1>3. TopSlots(nodes, kvs, root)
  BY DEF TreeInv, RootSlots, ChildrenPlain, TopSlots
<1>4. QED
  BY <1>1, <1>2, <1>3 DEF Whole, Usable, TreeInv, RootPlain, ChildrenPlain

\* And a whole tree is one that the next insert can start on.
LEMMA WholeIsTree ==
    ASSUME Whole(nodes, kvs, root), op = IdleOp
    PROVE  TreeInv
<1>1. TreeTypeOK /\ OpStands
  BY DEF Whole, Usable, Typed, TreeTypeOK, OpStands
<1>2. RootPlain /\ OneParent /\ RootSlots
  BY DEF Whole, Usable, TopPlain, OneSlot, TopSlots, RootPlain, OneParent, RootSlots
<1>3. ChildrenPlain
  <2> SUFFICES ASSUME NEW n \in (1..Len(nodes)) \ {root}
               PROVE  /\ nodes[n].depth = 1 /\ nodes[n].prefixLength = 0
                      /\ \E s \in SubKeys : nodes[root].slots[s] = Child(n)
                      /\ \A s \in SubKeys : nodes[n].slots[s].kind \in {"nothing", "value"}
    BY DEF ChildrenPlain
  <2>1. PICK s \in SubKeys : nodes[root].slots[s] = Child(n)
    BY DEF Whole
  <2>2. Child(n).kind = "node" /\ Child(n).at = n
    BY DEF Child
  <2>3. QED
    BY <2>1, <2>2 DEF Whole, Usable, TopSlots
<1>4. QED
  BY <1>1, <1>2, <1>3 DEF TreeInv

\* That is so after a step, too.
LEMMA WholeIsTreeAgain == (Whole(nodes, kvs, root) /\ op = IdleOp)' => TreeInv'
<1>1. Whole(nodes, kvs, root) /\ op = IdleOp => TreeInv
  BY WholeIsTree
<1>2. QED
  BY <1>1, PTL

\* What the tree in use finds is what it binds.
LEMMA BoundFinds == \A k : Bound(k) = Finds(nodes, kvs, root, k)
BY DEF Bound, SlotBound, RecordBound, LeafBound, Finds, SlotFinds, RecordFinds, LeafFinds

\* search, down its cases, returns what the tree finds.
LEMMA SearchFinds ==
    ASSUME Usable(nodes, kvs, root), NEW k \in Keys
    PROVE  Search(k) = Finds(nodes, kvs, root, k)
<1>1. k[1] \in SubKeys /\ k[2] \in SubKeys
  BY KeyHalves
<1>2. \A n, s : SearchSlot(n, s, k) =
         LET slot == nodes[n].slots[s]
         IN  IF slot.kind = "value" THEN slot.val
             ELSE IF slot.kind = "kv" THEN RecordFinds(kvs, slot.at, k) ELSE None
  BY DEF SearchSlot, RecordFinds
<1>3. CASE nodes[root].prefixLength = Unset
  BY <1>3 DEF Search, Finds, Unset
<1>4. CASE nodes[root].prefixLength = 1
  <2>1. nodes[root].slots[k[2]].kind \notin {"kv", "node"}
    BY <1>1, <1>4 DEF Usable, TopSlots
  <2>2. Search(k) = IF k[1] = nodes[root].prefix THEN SearchSlot(root, k[2], k) ELSE None
    BY <1>4, <2>1 DEF Search, PrefixMatches, Unset
  <2>3. QED
    BY <1>2, <1>4, <2>1, <2>2 DEF Finds, LeafFinds
<1>5. CASE nodes[root].prefixLength = 0
  <2> DEFINE slot == nodes[root].slots[k[1]]
  <2>1. Search(k) = IF slot.kind = "node" THEN SearchSlot(slot.at, k[2], k)
                    ELSE SearchSlot(root, k[1], k)
    BY <1>5 DEF Search, PrefixMatches, Unset
  <2>2. slot.kind # "value"
    BY <1>1, <1>5 DEF Usable, TopSlots
  <2>3. slot.kind = "node" => nodes[slot.at].slots[k[2]].kind \in {"nothing", "value"}
    BY <1>1 DEF Usable, TopSlots
  <2>4. QED
    BY <1>2, <1>5, <2>1, <2>2, <2>3 DEF Finds, SlotFinds, LeafFinds
<1>6. QED
  BY <1>3, <1>4, <1>5 DEF Usable, TopPlain

\* One node more, and perhaps a record.
Extends(ms, js, ns, ks) ==
    /\ ms \in Seq(TreeNode) /\ Len(ms) = Len(ns) + 1 /\ \A m \in 1..Len(ns) : ms[m] = ns[m]
    /\ js \in Seq([key : Keys, val : Values]) /\ Len(js) \in {Len(ks), Len(ks) + 1}
    /\ \A j \in 1..Len(ks) : js[j] = ks[j]

\* A node that nothing leads to, and records that no slot points at, change
\* nothing that is found.
LEMMA Allocated ==
    ASSUME NEW ns, NEW ks, NEW r, Usable(ns, ks, r), NEW ms, NEW js, Extends(ms, js, ns, ks)
    PROVE  /\ Usable(ms, js, r)
           /\ \A k \in Keys : Finds(ms, js, r, k) = Finds(ns, ks, r, k)
<1> USE DEF Extends
<1>1. /\ r \in 1..Len(ns) /\ r \in 1..Len(ms) /\ ms[r] = ns[r]
      /\ \A m \in 1..Len(ns) : m \in 1..Len(ms)
      /\ \A j \in 1..Len(ks) : j \in 1..Len(js)
  <2>1. Len(ns) \in Nat /\ Len(ks) \in Nat /\ r \in 1..Len(ns)
    BY DEF Usable, Typed
  <2>2. QED
    BY <2>1
<1>2. Typed(ms, js, r) /\ TopPlain(ms, r) /\ OneSlot(ms, r)
  BY <1>1 DEF Usable, Typed, TopPlain, OneSlot
<1>3. TopSlots(ms, js, r)
  <2> SUFFICES ASSUME NEW s \in SubKeys
               PROVE  LET slot == ms[r].slots[s]
                      IN  /\ slot.kind = "value" => ms[r].prefixLength = 1
                          /\ slot.kind \in {"kv", "node"} => ms[r].prefixLength = 0
                          /\ slot.kind = "kv" => slot.at \in 1..Len(js) /\ js[slot.at].key[1] = s
                          /\ slot.kind = "node" =>
                                /\ slot.at \in (1..Len(ms)) \ {r}
                                /\ ms[slot.at].depth = 1 /\ ms[slot.at].prefixLength = 0
                                /\ \A t \in SubKeys : ms[slot.at].slots[t].kind \in {"nothing", "value"}
    BY DEF TopSlots
  <2>1. PICK slot : slot = ns[r].slots[s]
    OBVIOUS
  <2>2. /\ slot.kind = "value" => ns[r].prefixLength = 1
        /\ slot.kind \in {"kv", "node"} => ns[r].prefixLength = 0
        /\ slot.kind = "kv" => slot.at \in 1..Len(ks) /\ ks[slot.at].key[1] = s
        /\ slot.kind = "node" =>
              /\ slot.at \in (1..Len(ns)) \ {r}
              /\ ns[slot.at].depth = 1 /\ ns[slot.at].prefixLength = 0
              /\ \A t \in SubKeys : ns[slot.at].slots[t].kind \in {"nothing", "value"}
    BY <2>1 DEF Usable, TopSlots
  <2>3. slot.kind = "kv" => slot.at \in 1..Len(js) /\ js[slot.at] = ks[slot.at]
    BY <1>1, <2>2
  <2>4. slot.kind = "node" => slot.at \in (1..Len(ms)) \ {r} /\ ms[slot.at] = ns[slot.at]
    BY <1>1, <2>2
  <2>5. QED
    BY <1>1, <2>1, <2>2, <2>3, <2>4
<1>4. ASSUME NEW k \in Keys PROVE Finds(ms, js, r, k) = Finds(ns, ks, r, k)
  <2>1. k[1] \in SubKeys
    BY KeyHalves
  <2> DEFINE slot == ns[r].slots[k[1]]
  <2>2. /\ slot.kind = "node" => ms[slot.at] = ns[slot.at]
        /\ slot.kind = "kv" => js[slot.at] = ks[slot.at]
    BY <2>1 DEF Usable, TopSlots
  <2>3. SlotFinds(ms, js, slot, k) = SlotFinds(ns, ks, slot, k)
    BY <2>2 DEF SlotFinds, LeafFinds, RecordFinds
  <2>4. QED
    BY <1>1, <2>3 DEF Finds, LeafFinds
<1>5. QED
  BY <1>2, <1>3, <1>4 DEF Usable

-----------------------------------------------------------------------------
(* The trees that the last stores lead to.                                 *)

\* ms is ns with a new child under the slot of the key's upper half, which
\* holds the key's value and what the slot's record bound.
WithChild(ms, ns, ks, r, key, val) ==
    LET kv == ks[ns[r].slots[key[1]].at]
        c == Len(ns) + 1
    IN  /\ ms \in Seq(TreeNode)
        /\ Len(ms) = c
        /\ \A m \in 1..Len(ns) :
              /\ ms[m].depth = ns[m].depth
              /\ ms[m].prefixLength = ns[m].prefixLength
              /\ ms[m].prefix = ns[m].prefix
              /\ \A s \in SubKeys :
                    ms[m].slots[s] = IF m = r /\ s = key[1] THEN Child(c) ELSE ns[m].slots[s]
        /\ ms[c].depth = 1 /\ ms[c].prefixLength = 0
        /\ \A s \in SubKeys :
              ms[c].slots[s] = IF s = key[2] THEN LeafValue(val)
                               ELSE IF s = kv.key[2] THEN LeafValue(kv.val) ELSE Nothing

\* Such a tree is whole if ns was (case 2.2.4).
LEMMA ChildWhole ==
    ASSUME NEW ns, NEW ks, NEW r, Whole(ns, ks, r), NEW key \in Keys, NEW val,
           ns[r].prefixLength = 0, ns[r].slots[key[1]].kind = "kv",
           NEW ms, WithChild(ms, ns, ks, r, key, val)
    PROVE  Whole(ms, ks, r)
<1>0. PICK c : c = Len(ns) + 1
  OBVIOUS
<1>1. /\ Typed(ns, ks, r) /\ TopPlain(ns, r) /\ TopSlots(ns, ks, r) /\ OneSlot(ns, r)
      /\ \A n \in (1..Len(ns)) \ {r} : \E s \in SubKeys : ns[r].slots[s] = Child(n)
  BY DEF Whole, Usable
<1>2. /\ r \in 1..Len(ns) /\ Len(ns) \in Nat /\ r # c /\ c \in 1..c /\ key[1] \in SubKeys
      /\ \A m \in 1..Len(ns) : m \in 1..c /\ m # c
      /\ \A m \in 1..c : m # c => m \in 1..Len(ns)
      /\ Child(c).kind = "node" /\ Child(c).at = c
  BY <1>0, <1>1, KeyHalves DEF Typed, Child
<1>3. /\ ms \in Seq(TreeNode) /\ Len(ms) = c
      /\ ms[r].depth = ns[r].depth /\ ms[r].prefixLength = 0
      /\ \A s \in SubKeys : ms[r].slots[s] = IF s = key[1] THEN Child(c) ELSE ns[r].slots[s]
      /\ ms[c].depth = 1 /\ ms[c].prefixLength = 0
  BY <1>0, <1>2 DEF WithChild
<1>4. \A s \in SubKeys : ms[c].slots[s].kind \in {"nothing", "value"}
  <2>1. PICK kv : \A s \in SubKeys :
           ms[c].slots[s] = IF s = key[2] THEN LeafValue(val)
                            ELSE IF s = kv.key[2] THEN LeafValue(kv.val) ELSE Nothing
    BY <1>0 DEF WithChild
  <2>2. \A v : LeafValue(v).kind = "value" /\ Nothing.kind = "nothing"
    BY DEF LeafValue, Nothing
  <2>3. QED
    BY <2>1, <2>2
<1>5. \A m \in (1..Len(ns)) \ {r} :
         /\ ms[m].depth = ns[m].depth /\ ms[m].prefixLength = ns[m].prefixLength
         /\ \A s \in SubKeys : ms[m].slots[s] = ns[m].slots[s]
  BY DEF WithChild
<1>6. Typed(ms, ks, r)
  BY <1>1, <1>2, <1>3 DEF Typed
<1>7. TopPlain(ms, r)
  BY <1>1, <1>3 DEF TopPlain, Unset
<1>8. TopSlots(ms, ks, r)
  <2> SUFFICES ASSUME NEW s \in SubKeys
               PROVE  LET slot == ms[r].slots[s]
                      IN  /\ slot.kind = "value" => ms[r].prefixLength = 1
                          /\ slot.kind \in {"kv", "node"} => ms[r].prefixLength = 0
                          /\ slot.kind = "kv" => slot.at \in 1..Len(ks) /\ ks[slot.at].key[1] = s
                          /\ slot.kind = "node" =>
                                /\ slot.at \in (1..Len(ms)) \ {r}
                                /\ ms[slot.at].depth = 1 /\ ms[slot.at].prefixLength = 0
                                /\ \A t \in SubKeys : ms[slot.at].slots[t].kind \in {"nothing", "value"}
    BY DEF TopSlots
  <2>1. CASE s = key[1]
    <3>1. ms[r].slots[s].kind = "node" /\ ms[r].slots[s].at = c /\ c \in (1..Len(ms)) \ {r}
      BY <1>2, <1>3, <2>1
    <3>2. QED
      BY <1>3, <1>4, <3>1
  <2>2. CASE s # key[1]
    <3>1. PICK slot : slot = ns[r].slots[s] /\ ms[r].slots[s] = slot
      BY <1>3, <2>2
    <3>2. /\ slot.kind # "value"
          /\ slot.kind = "kv" => slot.at \in 1..Len(ks) /\ ks[slot.at].key[1] = s
          /\ slot.kind = "node" =>
                /\ slot.at \in (1..Len(ns)) \ {r}
                /\ ns[slot.at].depth = 1 /\ ns[slot.at].prefixLength = 0
                /\ \A t \in SubKeys : ns[slot.at].slots[t].kind \in {"nothing", "value"}
      <4>1. TopSlots(ns, ks, r) /\ s \in SubKeys /\ ns[r].prefixLength = 0
        BY <1>1
      <4>0. ns[r].slots[s].kind = "value" => ns[r].prefixLength = 1
        BY ONLY <4>1 DEF TopSlots
      <4>2. LET top == ns[r].slots[s]
            IN  /\ top.kind = "kv" => top.at \in 1..Len(ks) /\ ks[top.at].key[1] = s
                /\ top.kind = "node" =>
                      /\ top.at \in (1..Len(ns)) \ {r}
                      /\ ns[top.at].depth = 1 /\ ns[top.at].prefixLength = 0
                      /\ \A t \in SubKeys : ns[top.at].slots[t].kind \in {"nothing", "value"}
        BY ONLY <4>1 DEF TopSlots
      <4>3. PICK top : top = ns[r].slots[s]
        OBVIOUS
      <4>4. top.kind # "value"
        BY ONLY ns[r].prefixLength = 0, <4>0, <4>3
      <4>5. slot = top
        BY ONLY <3>1, <4>3
      <4>6. QED
        BY ONLY <4>2, <4>3, <4>4, <4>5
    <3>3. slot.kind = "node" =>
             /\ slot.at \in (1..Len(ms)) \ {r}
             /\ ms[slot.at].depth = 1 /\ ms[slot.at].prefixLength = 0
             /\ \A t \in SubKeys : ms[slot.at].slots[t].kind \in {"nothing", "value"}
      <4>1. PICK m : m = slot.at
        OBVIOUS
      <4>2. m \in (1..Len(ns)) \ {r} => m \in (1..Len(ms)) \ {r}
        BY ONLY <1>2, <1>3
      <4>3. QED
        BY ONLY <1>5, <3>2, <4>1, <4>2
    <3>4. QED
      BY ONLY <1>3, <3>1, <3>2, <3>3
  <2>3. QED
    BY <2>1, <2>2
<1>9. OneSlot(ms, r)
  <2>1. ASSUME NEW s \in SubKeys, ns[r].slots[s] = Child(c) PROVE FALSE
    <3>1. ns[r].slots[s].kind = "node" /\ ns[r].slots[s].at = c
      BY <1>2, <2>1
    <3>2. ns[r].slots[s].at \in 1..Len(ns)
      BY <1>1, <3>1 DEF TopSlots
    <3>3. QED
      BY <1>2, <3>1, <3>2
  <2>2. QED
    BY <1>1, <1>2, <1>3, <2>1 DEF OneSlot
<1>10. ASSUME NEW n \in (1..Len(ms)) \ {r} PROVE \E s \in SubKeys : ms[r].slots[s] = Child(n)
  <2>1. CASE n = c
    BY <1>2, <1>3, <2>1
  <2>2. CASE n # c
    <3>1. PICK s \in SubKeys : ns[r].slots[s] = Child(n)
      BY <1>1, <1>2, <1>3, <2>2
    <3>2. s # key[1]
      BY <3>1 DEF Child
    <3>3. QED
      BY <1>3, <3>1, <3>2
  <2>3. QED
    BY <2>1, <2>2
<1>11. QED
  BY <1>3, <1>6, <1>7, <1>8, <1>9, <1>10 DEF Whole, Usable

\* The child keeps what the record bound and binds the new key.
LEMMA ChildMaps ==
    ASSUME NEW ns, NEW ks, NEW r, Whole(ns, ks, r), NEW key \in Keys, NEW val,
           ns[r].prefixLength = 0, ns[r].slots[key[1]].kind = "kv",
           ks[ns[r].slots[key[1]].at].key # key,
           NEW ms, WithChild(ms, ns, ks, r, key, val), NEW k \in Keys
    PROVE  Finds(ms, ks, r, k) = IF k = key THEN val ELSE Finds(ns, ks, r, k)
<1>0. PICK c : c = Len(ns) + 1
  OBVIOUS
<1>1. Typed(ns, ks, r) /\ TopSlots(ns, ks, r)
  BY DEF Whole, Usable
<1>2. /\ r \in 1..Len(ns) /\ key[1] \in SubKeys /\ k[1] \in SubKeys /\ k[2] \in SubKeys
      /\ (k[1] = key[1] /\ k[2] = key[2] <=> k = key)
  BY <1>1, KeyHalves DEF Typed
<1>3. PICK i \in 1..Len(ks) : i = ns[r].slots[key[1]].at /\ ks[i].key # key /\ ks[i].key[1] = key[1]
  <2>1. PICK i : i = ns[r].slots[key[1]].at
    OBVIOUS
  <2>2. i \in 1..Len(ks) /\ ks[i].key[1] = key[1]
    BY <1>1, <1>2, <2>1 DEF TopSlots
  <2>3. QED
    BY <2>1, <2>2
<1>4. ks[i].key \in Keys
  <2>1. ks[i] \in [key : Keys, val : Values]
    BY <1>1, <1>3, ElementOfSeq DEF Typed
  <2>2. QED
    BY <2>1
<1>5. k[1] = ks[i].key[1] /\ k[2] = ks[i].key[2] <=> k = ks[i].key
  BY <1>4, KeyHalves
<1>6. /\ ms[r].prefixLength = 0
      /\ ms[r].slots[k[1]] = IF k[1] = key[1] THEN Child(c) ELSE ns[r].slots[k[1]]
  BY <1>0, <1>2 DEF WithChild
<1>7. CASE k[1] = key[1]
  <2>1. Finds(ns, ks, r, k) = IF ks[i].key = k THEN ks[i].val ELSE None
    BY <1>3, <1>7 DEF Finds, SlotFinds, RecordFinds
  <2>2. Finds(ms, ks, r, k) = LeafFinds(ms, c, k[2])
    BY <1>6, <1>7 DEF Finds, SlotFinds, Child
  <2>3. ms[c].slots[k[2]] = IF k[2] = key[2] THEN LeafValue(val)
                            ELSE IF k[2] = ks[i].key[2] THEN LeafValue(ks[i].val) ELSE Nothing
    BY <1>0, <1>2, <1>3 DEF WithChild
  <2>4. LeafFinds(ms, c, k[2]) = IF k[2] = key[2] THEN val
                                 ELSE IF k[2] = ks[i].key[2] THEN ks[i].val ELSE None
    BY <2>3 DEF LeafFinds, LeafValue, Nothing
  <2>5. QED
    BY <1>2, <1>3, <1>5, <1>7, <2>1, <2>2, <2>4
<1>8. CASE k[1] # key[1]
  <2>1. PICK slot : slot = ns[r].slots[k[1]]
    OBVIOUS
  <2>2. slot.kind = "node" => LeafFinds(ms, slot.at, k[2]) = LeafFinds(ns, slot.at, k[2])
    <3>1. slot.kind = "node" => slot.at \in 1..Len(ns) /\ slot.at # r
      BY <1>1, <1>2, <2>1 DEF TopSlots
    <3>2. \A m \in 1..Len(ns) : m # r => \A s \in SubKeys : ms[m].slots[s] = ns[m].slots[s]
      BY ONLY WithChild(ms, ns, ks, r, key, val) DEF WithChild
    <3>3. QED
      BY ONLY <1>2, <3>1, <3>2 DEF LeafFinds
  <2>3. QED
    BY <1>2, <1>6, <1>8, <2>1, <2>2 DEF Finds, SlotFinds
<1>9. QED
  BY <1>7, <1>8

\* ms is the one node of ns, which has lost its prefix, and above it a root
\* with the key that did not match, in record j.
WithTop(ms, ns, key, j) ==
    /\ ms \in Seq(TreeNode)
    /\ Len(ms) = 2
    /\ ms[1].depth = 1 /\ ms[1].prefixLength = 0 /\ ms[1].slots = ns[1].slots
    /\ ms[2].depth = 0 /\ ms[2].prefixLength = 0
    /\ \A s \in SubKeys :
          ms[2].slots[s] = IF s = ns[1].prefix THEN Child(1)
                           ELSE IF s = key[1] THEN KeyValue(j) ELSE Nothing

\* Record j of js is the key's.
HasRecord(js, j, key, val) ==
    js \in Seq([key : Keys, val : Values]) /\ j \in 1..Len(js) /\ js[j].key = key /\ js[j].val = val

\* Such a tree is whole, and binds the key beside those of ns (case 3).
LEMMA TopWhole ==
    ASSUME NEW ns, NEW ks, Whole(ns, ks, 1), NEW key \in Keys, NEW val,
           ns[1].prefixLength = 1, ns[1].prefix # key[1],
           NEW js, NEW j, HasRecord(js, j, key, val), NEW ms, WithTop(ms, ns, key, j)
    PROVE  /\ Whole(ms, js, 2)
           /\ \A k \in Keys : Finds(ms, js, 2, k) = IF k = key THEN val ELSE Finds(ns, ks, 1, k)
<1> USE DEF HasRecord
<1>1. Typed(ns, ks, 1) /\ TopPlain(ns, 1) /\ TopSlots(ns, ks, 1)
  BY DEF Whole, Usable
<1>2. /\ KeyValue(j).kind = "kv" /\ KeyValue(j).at = j /\ Nothing.kind = "nothing"
      /\ Child(1).kind = "node" /\ Child(1).at = 1
      /\ ns[1].prefix \in SubKeys /\ key[1] \in SubKeys
      /\ 2 \in 1..2 /\ (1..2) \ {2} = {1}
  BY <1>1, KeyHalves DEF KeyValue, Child, Nothing, TopPlain
<1>3. \A s \in SubKeys : ns[1].slots[s].kind \in {"nothing", "value"}
  <2>1. ns[1] \in TreeNode
    BY <1>1, ElementOfSeq DEF Typed
  <2>2. \A s \in SubKeys : ns[1].slots[s].kind \in {"nothing", "value", "kv", "node"}
    BY <2>1 DEF TreeNode, SlotValue, Nothing, LeafValue, KeyValue, Child
  <2>3. ASSUME NEW s \in SubKeys PROVE ns[1].slots[s].kind \notin {"kv", "node"}
    <3>1. ns[1].slots[s].kind \in {"kv", "node"} => ns[1].prefixLength = 0
      BY <1>1 DEF TopSlots
    <3>2. ns[1].prefixLength # 0
      OBVIOUS
    <3>3. QED
      BY ONLY <3>1, <3>2
  <2>4. QED
    BY <2>2, <2>3
<1>4. Typed(ms, js, 2) /\ TopPlain(ms, 2) /\ OneSlot(ms, 2)
  <2>1. Typed(ms, js, 2)
    BY DEF Typed, WithTop
  <2>2. TopPlain(ms, 2)
    BY DEF TopPlain, WithTop, Unset
  <2>3. OneSlot(ms, 2)
    BY <1>2 DEF OneSlot, WithTop
  <2>4. QED
    BY <2>1, <2>2, <2>3
<1>5. TopSlots(ms, js, 2)
  <2> SUFFICES ASSUME NEW s \in SubKeys
               PROVE  LET slot == ms[2].slots[s]
                      IN  /\ slot.kind = "value" => ms[2].prefixLength = 1
                          /\ slot.kind \in {"kv", "node"} => ms[2].prefixLength = 0
                          /\ slot.kind = "kv" => slot.at \in 1..Len(js) /\ js[slot.at].key[1] = s
                          /\ slot.kind = "node" =>
                                /\ slot.at \in (1..Len(ms)) \ {2}
                                /\ ms[slot.at].depth = 1 /\ ms[slot.at].prefixLength = 0
                                /\ \A t \in SubKeys : ms[slot.at].slots[t].kind \in {"nothing", "value"}
    BY DEF TopSlots
  <2>1. /\ Len(ms) = 2 /\ ms[2].prefixLength = 0
        /\ ms[1].depth = 1 /\ ms[1].prefixLength = 0 /\ ms[1].slots = ns[1].slots
        /\ ms[2].slots[s] = IF s = ns[1].prefix THEN Child(1)
                            ELSE IF s = key[1] THEN KeyValue(j) ELSE Nothing
    BY DEF WithTop
  <2>2. CASE s = ns[1].prefix
    BY <1>2, <1>3, <2>1, <2>2
  <2>3. CASE s = key[1] /\ s # ns[1].prefix
    BY <1>2, <2>1, <2>3
  <2>4. CASE s # key[1] /\ s # ns[1].prefix
    BY <1>2, <2>1, <2>4
  <2>5. QED
    BY <2>2, <2>3, <2>4
<1>6. \A n \in (1..Len(ms)) \ {2} : \E s \in SubKeys : ms[2].slots[s] = Child(n)
  BY <1>2 DEF WithTop
<1>7. ASSUME NEW k \in Keys PROVE Finds(ms, js, 2, k) = IF k = key THEN val ELSE Finds(ns, ks, 1, k)
  <2>1. k[1] \in SubKeys
    BY KeyHalves
  <2>2. /\ ms[2].prefixLength = 0 /\ ms[1].slots = ns[1].slots
        /\ ms[2].slots[k[1]] = IF k[1] = ns[1].prefix THEN Child(1)
                               ELSE IF k[1] = key[1] THEN KeyValue(j) ELSE Nothing
    BY <2>1 DEF WithTop
  <2>3. Finds(ns, ks, 1, k) = IF k[1] = ns[1].prefix THEN LeafFinds(ns, 1, k[2]) ELSE None
    BY DEF Finds
  <2>4. LeafFinds(ms, 1, k[2]) = LeafFinds(ns, 1, k[2])
    BY <2>2 DEF LeafFinds
  <2>5. Finds(ms, js, 2, k) = SlotFinds(ms, js, ms[2].slots[k[1]], k)
    BY <2>2 DEF Finds
  <2>6. CASE k[1] = ns[1].prefix
    BY <1>2, <2>2, <2>3, <2>4, <2>5, <2>6 DEF SlotFinds
  <2>7. CASE k[1] = key[1]
    BY <1>2, <2>2, <2>3, <2>5, <2>7 DEF SlotFinds, RecordFinds
  <2>8. CASE k[1] # ns[1].prefix /\ k[1] # key[1]
    BY <1>2, <2>2, <2>3, <2>5, <2>8 DEF SlotFinds
  <2>9. QED
    BY <2>6, <2>7, <2>8
<1>8. ms[2].prefixLength = 0
  BY DEF WithTop
<1>9. QED
  BY <1>4, <1>5, <1>6, <1>7, <1>8 DEF Whole, Usable

-----------------------------------------------------------------------------
(* What the steps of an insert do.                                         *)

\* The key and value of an insert whose program counter moves stay.
LEMMA OpMoves ==
    ASSUME NEW o, NEW P, NEW N, o \in [pc : P, key : Keys, val : Values, node : N, pos : {0, 1}],
           NEW p, NEW o2, o2 = [o EXCEPT !.pc = p]
    PROVE  /\ o2 \in [pc : {p}, key : Keys, val : Values, node : N, pos : {0, 1}]
           /\ o2.pc = p /\ o2.key = o.key /\ o2.val = o.val
OBVIOUS

\* Case 2.2.4 allocates the child and has two stores to do, the last of which
\* links it.
LEMMA StartChildDoes ==
    ASSUME TreeInv, StartChild
    PROVE  /\ nodes' \in Seq(TreeNode) /\ Len(nodes') = Len(nodes) + 1
           /\ \A m \in 1..Len(nodes) : nodes'[m] = nodes[m]
           /\ \E first, ms : /\ todo' = <<first, [nodes |-> ms, root |-> root]>>
                             /\ WithChild(ms, nodes, kvs, root, op.key, op.val)
           /\ nodes[root].prefixLength = 0
           /\ nodes[root].slots[op.key[1]].kind = "kv"
           /\ kvs[nodes[root].slots[op.key[1]].at].key # op.key
           /\ op # IdleOp
<1> DEFINE i == nodes[root].slots[op.key[1]].at
           c == Len(nodes) + 1
           x == WithTwo(1, kvs[i].key[2], LeafValue(kvs[i].val), op.key[2], LeafValue(op.val))
           all == Append(nodes, x)
           y == [all[root] EXCEPT !.slots[op.key[1]] = Child(c)]
           ms == [all EXCEPT ![root] = y]
<1>1. /\ op # IdleOp /\ SubKeyAt = op.key[1] /\ op.node = root /\ op.pos = 0 /\ nodes[root].prefixLength = 0
      /\ nodes[root].slots[op.key[1]].kind = "kv" /\ kvs[i].key # op.key
  BY WhereAtSlot DEF StartChild, NeedsChild, Above, node
<1>2. op.key[1] \in SubKeys /\ op.key[2] \in SubKeys /\ op.val \in Values
  BY <1>1, Standing
<1>3. kvs[i].key[2] \in SubKeys /\ kvs[i].val \in Values
  <2>1. i \in 1..Len(kvs)
    BY <1>1, <1>2 DEF TreeInv, RootSlots
  <2> HIDE DEF i
  <2>2. kvs[i] \in [key : Keys, val : Values]
    BY <2>1, ElementOfSeq DEF TreeInv, TreeTypeOK
  <2>3. QED
    BY <2>2, TreeAssumption
<1>4. nodes \in Seq(TreeNode) /\ root \in 1..Len(nodes) /\ Len(nodes) \in Nat /\ Child(c) \in SlotValue
  BY DEF TreeInv, TreeTypeOK, SlotValue
<1>5. NewChild = x
  BY SMTT(30), <1>1 DEF NewChild, WithTwo, node
<1>6. /\ x \in TreeNode /\ x.depth = 1 /\ x.prefixLength = 0
      /\ \A r \in SubKeys :
            x.slots[r] = IF r = op.key[2] THEN LeafValue(op.val)
                         ELSE IF r = kvs[i].key[2] THEN LeafValue(kvs[i].val) ELSE Nothing
  <2>1. LeafValue(op.val) \in SlotValue /\ LeafValue(kvs[i].val) \in SlotValue /\ 1 \in Nat
    BY <1>2, <1>3 DEF SlotValue
  <2> HIDE DEF i
  <2>2. QED
    BY ONLY <1>2, <1>3, <2>1, NodeWithTwo
<1> HIDE DEF x
<1>7. /\ all \in Seq(TreeNode) /\ Len(all) = c /\ all[c] = x
      /\ \A m \in 1..Len(nodes) : all[m] = nodes[m]
  BY ONLY <1>4, <1>6, AppendProperties
<1>8. nodes' = all
  BY <1>5 DEF StartChild
<1>9. \E first : todo' = <<first, [nodes |-> ms, root |-> root]>>
  <2>1. todo' = << [nodes |-> [all EXCEPT ![op.node].slots[SubKeyAt] = Flagged(node.slots[SubKeyAt].at)],
                    root |-> root],
                   [nodes |-> [all EXCEPT ![op.node].slots[SubKeyAt] = Child(Len(all))],
                    root |-> root] >>
    BY <1>5 DEF StartChild
  <2>2. [all EXCEPT ![op.node].slots[SubKeyAt] = Child(Len(all))] = ms
    BY <1>1, <1>7
  <2>3. QED
    BY <2>1, <2>2
<1>10. root \in 1..Len(all) /\ all[root] = nodes[root] /\ nodes[root] \in TreeNode
       /\ c \in 1..c /\ root # c /\ \A m \in 1..Len(nodes) : m \in 1..c /\ m # c
  BY <1>4, <1>7, ElementOfSeq
<1> HIDE DEF all
<1>11. /\ y \in TreeNode /\ y.depth = nodes[root].depth /\ y.prefixLength = nodes[root].prefixLength
       /\ y.prefix = nodes[root].prefix
       /\ \A r \in SubKeys : y.slots[r] = IF r = op.key[1] THEN Child(c) ELSE nodes[root].slots[r]
  <2>1. PICK z \in TreeNode : z = nodes[root] /\ y = [z EXCEPT !.slots[op.key[1]] = Child(c)]
    BY <1>10
  <2> HIDE DEF y
  <2>2. PICK s \in SubKeys, entry \in SlotValue : s = op.key[1] /\ entry = Child(c)
    BY <1>2, <1>4
  <2>3. y = [z EXCEPT !.slots[s] = entry]
    BY <2>1, <2>2
  <2>4. /\ y \in TreeNode /\ y.depth = z.depth /\ y.prefixLength = z.prefixLength
        /\ y.prefix = z.prefix
        /\ \A r \in SubKeys : y.slots[r] = IF r = s THEN entry ELSE z.slots[r]
    BY ONLY <2>3, WithSlot
  <2>5. QED
    BY ONLY <2>1, <2>2, <2>4
<1> HIDE DEF y
<1>12. /\ ms \in Seq(TreeNode) /\ Len(ms) = Len(all)
       /\ \A m \in 1..Len(all) : ms[m] = IF m = root THEN y ELSE all[m]
  BY ONLY <1>7, <1>10, <1>11, ExceptSeq
<1> HIDE DEF ms
<1>13. WithChild(ms, nodes, kvs, root, op.key, op.val)
  <2>1. ms[c] = x /\ \A m \in 1..Len(nodes) : ms[m] = IF m = root THEN y ELSE nodes[m]
    BY <1>7, <1>10, <1>12
  <2>2. ms \in Seq(TreeNode) /\ Len(ms) = c
    BY <1>7, <1>12
  <2>3. \A m \in 1..Len(nodes) :
           /\ ms[m].depth = nodes[m].depth
           /\ ms[m].prefixLength = nodes[m].prefixLength
           /\ ms[m].prefix = nodes[m].prefix
           /\ \A s \in SubKeys :
                 ms[m].slots[s] = IF m = root /\ s = op.key[1] THEN Child(c) ELSE nodes[m].slots[s]
    BY <1>11, <2>1
  <2>4. /\ ms[c].depth = 1 /\ ms[c].prefixLength = 0
        /\ \A s \in SubKeys :
              ms[c].slots[s] = IF s = op.key[2] THEN LeafValue(op.val)
                               ELSE IF s = kvs[i].key[2] THEN LeafValue(kvs[i].val) ELSE Nothing
    BY <1>6, <2>1
  <2>5. QED
    BY <2>2, <2>3, <2>4 DEF WithChild
<1>14. QED
  BY <1>1, <1>7, <1>8, <1>9, <1>13

\* Case 3 allocates the new root and has four stores to do, the last of which
\* is the root pointer.
LEMMA StartSplitDoes ==
    ASSUME TreeInv, StartSplit
    PROVE  /\ nodes' \in Seq(TreeNode) /\ Len(nodes') = Len(nodes) + 1
           /\ \A m \in 1..Len(nodes) : nodes'[m] = nodes[m]
           /\ \E t1, t2, t3, ms : /\ todo' = <<t1, t2, t3, [nodes |-> ms, root |-> 2]>>
                                  /\ WithTop(ms, nodes, op.key, Len(kvs) + 1)
           /\ RecordAdded
           /\ root = 1 /\ nodes[1].prefixLength = 1 /\ nodes[1].prefix # op.key[1]
           /\ op # IdleOp
<1>1. op # IdleOp /\ op.node = root /\ op.pos = 0 /\ nodes[root].prefixLength = 1
  <2>1. op # IdleOp /\ op.node \in 1..Len(nodes) /\ nodes[op.node].prefixLength \notin {0, Unset}
    <3>1. op # IdleOp
      BY DEF StartSplit, PrefixFails, Inserting, IdleOp
    <3>2. QED
      BY <3>1, Standing DEF StartSplit, PrefixFails, node
  <2>2. op.node = root /\ op.pos = 0
    BY <2>1 DEF TreeInv, OpStands, ChildrenPlain
  <2>3. QED
    BY <2>1, <2>2 DEF TreeInv, RootPlain
<1>2. op.key \in Keys /\ op.key[1] \in SubKeys /\ op.val \in Values
  BY <1>1, Standing
<1>3. /\ root = 1 /\ Len(nodes) = 1 /\ nodes[1].prefixLength = 1 /\ nodes[1].prefix \in SubKeys
      /\ nodes[1].depth = 0 /\ nodes \in Seq(TreeNode) /\ nodes[1] \in TreeNode
  <2>1. nodes \in Seq(TreeNode) /\ Len(nodes) = 1 /\ root \in 1..1 /\ nodes[root] \in TreeNode
    BY <1>1, ElementOfSeq DEF TreeInv, TreeTypeOK, RootPlain
  <2>2. root = 1
    BY <2>1
  <2>3. QED
    BY <1>1, <2>1, <2>2 DEF TreeInv, RootPlain
<1>4. nodes[1].prefix # op.key[1]
  BY <1>1, <1>3 DEF StartSplit, PrefixFails, PrefixMatches, node
<1> DEFINE d == Demoted(nodes[1])
           x == WithTwo(0, op.key[1], KeyValue(Len(kvs) + 1), nodes[1].prefix, Child(1))
           all == Append(nodes, x)
           ms == [all EXCEPT ![1] = d]
<1>5. NewTop = x
  BY <1>1, <1>3 DEF NewTop, WithTwo, node
<1>6. d \in TreeNode /\ d.depth = 1 /\ d.prefixLength = 0 /\ d.slots = nodes[1].slots
  <2> DEFINE y == [[nodes[1] EXCEPT !.prefixLength = 0] EXCEPT !.prefix = None]
  <2>1. y \in TreeNode /\ y.depth = 0 /\ y.prefixLength = 0 /\ y.slots = nodes[1].slots
    BY <1>3 DEF TreeNode
  <2>2. d = [y EXCEPT !.depth = @ + 1]
    BY DEF Demoted
  <2> HIDE DEF y, d
  <2>3. QED
    BY <2>1, <2>2 DEF TreeNode
<1>7. /\ x \in TreeNode /\ x.depth = 0 /\ x.prefixLength = 0
      /\ \A r \in SubKeys :
            x.slots[r] = IF r = nodes[1].prefix THEN Child(1)
                         ELSE IF r = op.key[1] THEN KeyValue(Len(kvs) + 1) ELSE Nothing
  <2>1. KeyValue(Len(kvs) + 1) \in SlotValue /\ Child(1) \in SlotValue /\ 0 \in Nat
    BY DEF TreeInv, TreeTypeOK, SlotValue
  <2>2. QED
    BY ONLY <1>2, <1>3, <2>1, NodeWithTwo
<1> HIDE DEF d, x
<1>8. /\ all \in Seq(TreeNode) /\ Len(all) = 2 /\ all[2] = x
      /\ \A m \in 1..Len(nodes) : all[m] = nodes[m]
  <2>1. /\ all \in Seq(TreeNode) /\ Len(all) = Len(nodes) + 1 /\ all[Len(nodes) + 1] = x
        /\ \A m \in 1..Len(nodes) : all[m] = nodes[m]
    <3>1. nodes \in Seq(TreeNode) /\ x \in TreeNode
      BY <1>3, <1>7
    <3>2. QED
      BY ONLY <3>1, AppendProperties
  <2>2. Len(nodes) + 1 = 2
    BY <1>3
  <2>3. QED
    BY <2>1, <2>2
<1>9. nodes' = all /\ kvs' = Append(kvs, [key |-> op.key, val |-> op.val])
  BY <1>5 DEF StartSplit
<1>10. \E t1, t2, t3 : todo' = <<t1, t2, t3, [nodes |-> ms, root |-> 2]>>
  <2>1. \E t1, t2, t3 :
           todo' = <<t1, t2, t3, [nodes |-> [all EXCEPT ![op.node] = Demoted(node)], root |-> Len(all)]>>
    BY <1>5 DEF StartSplit
  <2>2. [all EXCEPT ![op.node] = Demoted(node)] = ms /\ Len(all) = 2
    BY <1>1, <1>3, <1>8 DEF node, d
  <2>3. QED
    BY <2>1, <2>2
<1> HIDE DEF all
<1>11. /\ ms \in Seq(TreeNode) /\ Len(ms) = Len(all)
       /\ \A m \in 1..Len(all) : ms[m] = IF m = 1 THEN d ELSE all[m]
  <2>1. all \in Seq(TreeNode) /\ 1 \in 1..Len(all) /\ d \in TreeNode
    BY <1>6, <1>8
  <2>2. QED
    BY ONLY <2>1, ExceptSeq
<1> HIDE DEF ms
<1>12. WithTop(ms, nodes, op.key, Len(kvs) + 1)
  <2>1. Len(ms) = 2 /\ ms[1] = d /\ ms[2] = x
    BY <1>8, <1>11
  <2>2. QED
    BY <1>6, <1>7, <1>11, <2>1 DEF WithTop
<1>13. RecordAdded
  BY <1>2, <1>9, AppendRecord DEF TreeInv
<1>14. Len(nodes') = Len(nodes) + 1
  BY <1>3, <1>8, <1>9
<1>15. QED
  BY <1>1, <1>3, <1>4, <1>8, <1>9, <1>10, <1>12, <1>13, <1>14

-----------------------------------------------------------------------------
(* Every step preserves the invariant: the inserts.                        *)

\* Stores to do and stores done are an insert's that has passed its cases.
LEMMA WhereAnInsertIs ==
    ASSUME RecoveryInv, Running, op = IdleOp \/ op.pc = "insert"
    PROVE  Walking
<1>1. IdleOp.pc = "idle"
  BY DEF IdleOp
<1>2. ~Storing
  BY DEF Running, Storing
<1>3. ~Done
  BY <1>1 DEF Done
<1>4. QED
  BY <1>2, <1>3 DEF Running, RecoveryInv

\* A step that binds the insert's own key makes the tree what the insert will
\* acknowledge.
LEMMA BindsMaps ==
    ASSUME RecoveryInv, op.key \in Keys, Maps(nodes, kvs, root, acked), BindsOwnKey
    PROVE  Maps(nodes', kvs', root', Target)
<1> SUFFICES ASSUME NEW k \in Keys PROVE Finds(nodes', kvs', root', k) = Target[k]
  BY DEF Maps
<1>1. Bound(k)' = Finds(nodes', kvs', root', k)
  BY DEF Bound, SlotBound, RecordBound, LeafBound, Finds, SlotFinds, RecordFinds, LeafFinds
<1>2. Bound(k) = acked[k]
  BY BoundFinds DEF Maps
<1>3. Target[k] = IF k = op.key THEN op.val ELSE acked[k]
  BY DEF RecoveryInv, Target
<1>4. Bound(k)' = IF k = op.key THEN op.val ELSE Bound(k)
  BY DEF BindsOwnKey
<1>5. QED
  BY ONLY <1>1, <1>2, <1>3, <1>4

\* What an insert acknowledges is a value of each key.
LEMMA TargetKeyed ==
    ASSUME RecoveryInv PROVE Target = [k \in Keys |-> Target[k]]
BY DEF RecoveryInv, Target

\* A step whose change is one store leaves the tree as acknowledged.
LEMMA StepWhole ==
    ASSUME RecoveryInv, WholeStep
    PROVE  RecoveryInv'
<1>1. Walking /\ walk' = Up /\ todo' = <<>>
  <2>1. Running /\ UNCHANGED <<todo, walk>>
    BY DEF WholeStep
  <2>2. op = IdleOp \/ op.pc = "insert"
    BY DEF WholeStep, Begin, AssignPrefix, PutLeaf, PutKeyValue, Descend, UpdateKeyValue,
           AtLeaf, Above, AtSlot, Inserting
  <2>3. QED
    BY <2>1, <2>2, WhereAnInsertIs DEF Running
<1>2. /\ TreeInv /\ Maps(nodes, kvs, root, acked)
      /\ acked' = IF op # IdleOp /\ op' = IdleOp THEN Target ELSE acked
  BY <1>1 DEF Walking, WholeStep, Target
<1> SUFFICES TreeInv' /\ Maps(nodes', kvs', root', acked')
  <2>1. acked' = [k \in Keys |-> acked'[k]]
    BY <1>2, TargetKeyed DEF RecoveryInv
  <2>2. QED
    BY <1>1, <2>1 DEF RecoveryInv, Walking
<1>3. ASSUME BindsOwnKey, op # IdleOp, op' = IdleOp, TreeInv'
      PROVE  TreeInv' /\ Maps(nodes', kvs', root', acked')
  <2>1. op.key \in Keys
    BY <1>2, <1>3, Standing
  <2>2. QED
    BY <1>2, <1>3, <2>1, BindsMaps
<1>4. ASSUME NEW k \in Keys, NEW v \in Values, Begin(k, v)
      PROVE  TreeInv' /\ Maps(nodes', kvs', root', acked')
  <2>1. UNCHANGED <<nodes, kvs, root>> /\ op = IdleOp
    BY <1>4 DEF Begin
  <2>2. QED
    BY <1>2, <1>4, <2>1, StepBegin
<1>5. CASE AssignPrefix
  <2>1. op # IdleOp /\ op' = op
    BY <1>5 DEF AssignPrefix, Inserting, IdleOp
  <2>2. \A k \in Keys : Bound(k)' = Bound(k)
    BY <1>2, <1>5, AssignPrefixKeeps
  <2>3. \A k : Bound(k)' = Finds(nodes', kvs', root', k)
    BY DEF Bound, SlotBound, RecordBound, LeafBound, Finds, SlotFinds, RecordFinds, LeafFinds
  <2>4. Maps(nodes', kvs', root', acked)
    BY <1>2, <2>2, <2>3, BoundFinds DEF Maps
  <2>5. QED
    BY <1>2, <1>5, <2>1, <2>4, StepAssignPrefix
<1>6. CASE Descend
  <2>1. op # IdleOp
    BY <1>6 DEF Descend, Above, AtSlot, Inserting, IdleOp
  <2>2. op' # IdleOp
    <3>1. op \in [pc : {"insert"}, key : Keys, val : Values, node : 1..Len(nodes), pos : {0, 1}]
      BY <1>2, <2>1 DEF TreeInv, TreeTypeOK
    <3>2. PICK n, p : op' = [[op EXCEPT !.node = n] EXCEPT !.pos = p]
      BY <1>6 DEF Descend
    <3>3. op'.pc = "insert"
      BY <3>1, <3>2
    <3>4. QED
      BY <3>3 DEF IdleOp
  <2>3. UNCHANGED <<nodes, kvs, root>>
    BY <1>6 DEF Descend
  <2>4. QED
    BY <1>2, <1>6, <2>2, <2>3, StepDescend
<1>7. CASE PutLeaf
  BY <1>2, <1>3, <1>7, PutLeafDoes, PutLeafBinds, StepPutLeaf
<1>8. CASE PutKeyValue
  BY <1>2, <1>3, <1>8, PutKeyValueDoes, PutKeyValueBinds, StepPutKeyValue
<1>9. CASE UpdateKeyValue
  BY <1>2, <1>3, <1>9, UpdateKeyValueDoes, UpdateKeyValueBinds, StepUpdateKeyValue
<1>10. QED
  BY <1>4, <1>5, <1>6, <1>7, <1>8, <1>9 DEF WholeStep

\* What StartChild and StartSplit leave for an insert in progress.
LEMMA StoresAhead ==
    ASSUME RecoveryInv, Walking, op # IdleOp, op' = [op EXCEPT !.pc = "return"],
           UNCHANGED <<root, walk, acked>>, walk = Up,
           Usable(nodes', kvs', root), \A k \in Keys : Finds(nodes', kvs', root, k) = Finds(nodes, kvs, root, k),
           NEW S, todo' \in Seq(S), todo' # <<>>,
           NEW ms, NEW r, todo'[Len(todo')].nodes = ms, todo'[Len(todo')].root = r,
           Whole(ms, kvs', r), Maps(ms, kvs', r, Target)
    PROVE  RecoveryInv'
<1>1. op \in [pc : {"insert"}, key : Keys, val : Values, node : 1..Len(nodes), pos : {0, 1}]
  BY DEF Walking, TreeInv, TreeTypeOK
<1>2. /\ op' \in [pc : {"return"}, key : Keys, val : Values, node : 1..Len(nodes), pos : {0, 1}]
      /\ op'.pc = "return" /\ op'.key = op.key /\ op'.val = op.val
  BY <1>1, OpMoves
<1>3. op' \in [pc : {"return", "stored"}, key : Keys, val : Values, node : Nat, pos : {0, 1}]
  <2>1. 1..Len(nodes) \subseteq Nat
    BY DEF Walking, TreeInv, TreeTypeOK
  <2>2. QED
    BY <1>2, <2>1
<1>4. Target' = Target
  BY <1>2 DEF Target
<1>5. Maps(nodes', kvs', root', acked')
  BY DEF Maps, Walking
<1>6. Storing'
  BY <1>3, <1>4, <1>5 DEF Storing
<1>7. QED
  BY <1>6 DEF RecoveryInv

\* Case 2.2.4: the child is there and nothing leads to it yet.
LEMMA StepStartChild ==
    ASSUME RecoveryInv, StartChild
    PROVE  RecoveryInv'
<1>1. /\ op.pc = "insert" /\ Running /\ op' = [op EXCEPT !.pc = "return"]
      /\ UNCHANGED <<kvs, root, walk, acked>> /\ walk = Up
  BY DEF StartChild, NeedsChild, Above, AtSlot, Inserting, Running
<1>2. Walking /\ TreeInv /\ Maps(nodes, kvs, root, acked)
  BY <1>1, WhereAnInsertIs DEF Walking
<1>3. /\ nodes' \in Seq(TreeNode) /\ Len(nodes') = Len(nodes) + 1
      /\ \A m \in 1..Len(nodes) : nodes'[m] = nodes[m]
      /\ nodes[root].prefixLength = 0
      /\ nodes[root].slots[op.key[1]].kind = "kv"
      /\ kvs[nodes[root].slots[op.key[1]].at].key # op.key
      /\ op # IdleOp
  BY <1>2, StartChildDoes
<1>4. PICK first, ms : /\ todo' = <<first, [nodes |-> ms, root |-> root]>>
                       /\ WithChild(ms, nodes, kvs, root, op.key, op.val)
  BY <1>2, StartChildDoes
<1>5. Whole(nodes, kvs, root) /\ Usable(nodes, kvs, root)
  BY <1>2, TreeIsWhole DEF Whole
<1>6. op.key \in Keys
  BY <1>2, <1>3, Standing
<1>7. Whole(ms, kvs, root)
  BY <1>3, <1>4, <1>5, <1>6, ChildWhole
<1>8. \A k \in Keys : Finds(ms, kvs, root, k) = IF k = op.key THEN op.val ELSE Finds(nodes, kvs, root, k)
  <2> SUFFICES ASSUME NEW k \in Keys
               PROVE  Finds(ms, kvs, root, k) = IF k = op.key THEN op.val ELSE Finds(nodes, kvs, root, k)
    OBVIOUS
  <2>0. PICK val : val = op.val
    OBVIOUS
  <2>1. PICK key \in Keys : key = op.key
    BY <1>6
  <2>2. /\ Whole(nodes, kvs, root) /\ nodes[root].prefixLength = 0
        /\ nodes[root].slots[key[1]].kind = "kv"
        /\ kvs[nodes[root].slots[key[1]].at].key # key
        /\ WithChild(ms, nodes, kvs, root, key, val)
    BY <1>3, <1>4, <1>5, <2>0, <2>1
  <2>3. Finds(ms, kvs, root, k) = IF k = key THEN val ELSE Finds(nodes, kvs, root, k)
    BY ONLY <2>2, ChildMaps
  <2>4. QED
    BY ONLY <2>0, <2>1, <2>3
<1>9. Maps(ms, kvs, root, Target)
  BY <1>2, <1>8 DEF Maps, Target, RecoveryInv
<1>10. Extends(nodes', kvs, nodes, kvs)
  BY <1>3, <1>5 DEF Extends, Usable, Typed
<1>11. /\ Usable(nodes', kvs, root)
       /\ \A k \in Keys : Finds(nodes', kvs, root, k) = Finds(nodes, kvs, root, k)
  BY ONLY <1>5, <1>10, Allocated
<1>12. \E S : todo' \in Seq(S)
  <2>1. todo' \in Seq({first, [nodes |-> ms, root |-> root]})
    BY <1>4
  <2>2. QED
    BY <2>1
<1>13. /\ todo' # <<>> /\ todo'[Len(todo')].nodes = ms /\ todo'[Len(todo')].root = root
  BY <1>4
<1>14. QED
  BY <1>1, <1>2, <1>3, <1>7, <1>9, <1>11, <1>12, <1>13, StoresAhead

\* Case 3: the new root is there and no pointer leads to it yet.
LEMMA StepStartSplit ==
    ASSUME RecoveryInv, StartSplit
    PROVE  RecoveryInv'
<1>1. /\ op.pc = "insert" /\ Running /\ op' = [op EXCEPT !.pc = "return"]
      /\ UNCHANGED <<root, walk, acked>> /\ walk = Up
  BY DEF StartSplit, PrefixFails, Inserting, Running
<1>2. Walking /\ TreeInv /\ Maps(nodes, kvs, root, acked)
  BY <1>1, WhereAnInsertIs DEF Walking
<1>3. /\ nodes' \in Seq(TreeNode) /\ Len(nodes') = Len(nodes) + 1
      /\ \A m \in 1..Len(nodes) : nodes'[m] = nodes[m]
      /\ RecordAdded
      /\ root = 1 /\ nodes[1].prefixLength = 1 /\ nodes[1].prefix # op.key[1]
      /\ op # IdleOp
  BY <1>2, StartSplitDoes
<1>4. PICK t1, t2, t3, ms : /\ todo' = <<t1, t2, t3, [nodes |-> ms, root |-> 2]>>
                            /\ WithTop(ms, nodes, op.key, Len(kvs) + 1)
  BY <1>2, StartSplitDoes
<1>5. Whole(nodes, kvs, root) /\ Usable(nodes, kvs, root)
  BY <1>2, TreeIsWhole DEF Whole
<1>6. op.key \in Keys
  BY <1>2, <1>3, Standing
<1>7. /\ kvs' \in Seq([key : Keys, val : Values]) /\ Len(kvs') = Len(kvs) + 1
      /\ Len(kvs) + 1 = Len(kvs') /\ Len(kvs) + 1 \in 1..Len(kvs')
      /\ kvs'[Len(kvs) + 1].key = op.key /\ kvs'[Len(kvs) + 1].val = op.val
      /\ \A j \in 1..Len(kvs) : kvs'[j] = kvs[j]
  <2>1. Len(kvs) \in Nat
    BY <1>5 DEF Usable, Typed
  <2>2. QED
    BY <1>3, <2>1 DEF RecordAdded
<1>8. /\ Whole(ms, kvs', 2)
      /\ \A k \in Keys : Finds(ms, kvs', 2, k) = IF k = op.key THEN op.val ELSE Finds(nodes, kvs, 1, k)
  <2>1. HasRecord(kvs', Len(kvs) + 1, op.key, op.val) /\ Whole(nodes, kvs, 1)
    BY <1>3, <1>5, <1>7 DEF HasRecord
  <2>2. QED
    BY ONLY <1>3, <1>4, <1>6, <2>1, TopWhole
<1>9. Maps(ms, kvs', 2, Target)
  BY <1>2, <1>3, <1>8 DEF Maps, Target, RecoveryInv
<1>11. /\ Usable(nodes', kvs', root)
       /\ \A k \in Keys : Finds(nodes', kvs', root, k) = Finds(nodes, kvs, root, k)
  <2>1. Extends(nodes', kvs', nodes, kvs)
    BY <1>3, <1>7 DEF Extends
  <2>2. QED
    BY ONLY <1>5, <2>1, Allocated
<1>12. \E S : todo' \in Seq(S)
  <2>1. todo' \in Seq({t1, t2, t3, [nodes |-> ms, root |-> 2]})
    BY <1>4
  <2>2. QED
    BY <2>1
<1>13. /\ todo' # <<>> /\ todo'[Len(todo')].nodes = ms /\ todo'[Len(todo')].root = 2
  BY <1>4
<1>14. QED
  BY <1>1, <1>2, <1>3, <1>8, <1>9, <1>11, <1>12, <1>13, StoresAhead

\* The last store makes the tree whole; the others lead on to it.
LEMMA StepDoStore ==
    ASSUME RecoveryInv, DoStore
    PROVE  RecoveryInv'
<1>1. /\ walk = Up /\ todo # <<>> /\ UNCHANGED <<kvs, walk, acked>>
      /\ nodes' = Head(todo).nodes /\ root' = Head(todo).root /\ todo' = Tail(todo)
      /\ op' = [op EXCEPT !.pc = "stored"]
  BY DEF DoStore
<1>2. Storing
  BY <1>1 DEF RecoveryInv, Walking, Done
<1>3. /\ op' \in [pc : {"stored"}, key : Keys, val : Values, node : Nat, pos : {0, 1}]
      /\ op'.pc = "stored" /\ op'.key = op.key /\ op'.val = op.val
  BY <1>1, <1>2, OpMoves DEF Storing
<1>4. Target' = Target
  BY <1>1, <1>3 DEF Target
<1>5. PICK S : todo \in Seq(S)
  BY <1>2 DEF Storing
<1>6. /\ Len(todo) \in Nat \ {0} /\ todo' \in Seq(S) /\ Len(todo') = Len(todo) - 1
      /\ \A i \in 1..Len(todo') : todo'[i] = todo[i + 1]
      /\ Head(todo) = todo[1]
  BY <1>1, <1>5
<1>7. CASE Len(todo) = 1
  <2>1. todo' = <<>>
    BY <1>6, <1>7
  <2>2. Done'
    BY <1>1, <1>2, <1>3, <1>4, <1>6, <1>7, <2>1 DEF Storing, Done
  <2>3. QED
    BY <1>1, <2>2 DEF RecoveryInv
<1>8. CASE Len(todo) # 1
  <2>1. todo' # <<>> /\ todo'[Len(todo')] = todo[Len(todo)]
    BY <1>6, <1>8
  <2>2. Storing'
    BY <1>1, <1>2, <1>3, <1>4, <1>6, <2>1 DEF Storing
  <2>3. QED
    BY <1>1, <2>2 DEF RecoveryInv
<1>9. QED
  BY <1>7, <1>8

\* The insert returns, and its value is acknowledged.
LEMMA StepReturnStored ==
    ASSUME RecoveryInv, ReturnStored
    PROVE  RecoveryInv'
<1>1. /\ walk = Up /\ todo = <<>> /\ op.pc = "stored" /\ acked' = Target /\ op' = IdleOp
      /\ UNCHANGED <<nodes, kvs, root, todo, walk>>
  BY DEF ReturnStored, Running, Return, Target
<1>2. Done
  <2>1. op.pc # "insert" /\ op # IdleOp
    BY <1>1 DEF IdleOp
  <2>2. ~Walking
    BY <2>1, Standing DEF Walking
  <2>3. QED
    BY <1>1, <2>2 DEF RecoveryInv, Storing
<1>3. TreeInv'
  <2>1. (Whole(nodes, kvs, root) /\ op = IdleOp)'
    BY <1>1, <1>2 DEF Done
  <2>2. QED
    BY <2>1, WholeIsTreeAgain
<1>4. Maps(nodes', kvs', root', acked')
  BY <1>1, <1>2 DEF Done
<1>5. acked' = [k \in Keys |-> acked'[k]]
  BY <1>1, TargetKeyed
<1>6. QED
  BY <1>1, <1>3, <1>4, <1>5 DEF RecoveryInv, Walking

-----------------------------------------------------------------------------
(* Every step preserves the invariant: the crash and the recovery.         *)

\* A crash that leaves a tree that can be searched, with what the insert in
\* progress may have bound or not, leaves one that can be recovered.
LEMMA CrashLeaves ==
    ASSUME Crash, Usable(nodes, kvs, root),
           \A k \in Keys : \/ Finds(nodes, kvs, root, k) = acked[k]
                           \/ op # IdleOp /\ op.key = k /\ Finds(nodes, kvs, root, k) = op.val
    PROVE  Recovering'
<1>1. /\ UNCHANGED <<nodes, kvs, root, acked>> /\ crash'.op = op
      /\ walk'.phase = "walking" /\ walk'.visits = {Visit(root, 0, 0)}
      /\ walk'.moved = [at \in (1..Len(nodes)) \X SubKeys |-> 0]
  BY DEF Crash
<1>2. AtRoot' /\ walk'.moved = [at \in (1..Len(nodes')) \X SubKeys |-> walk'.moved[at]]
  BY <1>1 DEF AtRoot, Visit
<1>3. \A k \in Keys : Finds(nodes', kvs', root', k) \in {acked'[k]} \union CutOff(k)'
  BY <1>1 DEF CutOff
<1>4. QED
  BY <1>1, <1>2, <1>3 DEF Recovering

\* The process dies: between two stores no reader may see apart, or somewhere
\* else.
LEMMA StepCrash ==
    ASSUME RecoveryInv, Crash
    PROVE  RecoveryInv'
<1>1. /\ walk = Up /\ walk' # Up /\ WalkTyped' /\ UNCHANGED acked
      /\ crash'.between = (op.pc = "stored" /\ todo # <<>>)
  BY DEF Crash, Up, WalkTyped
<1> SUFFICES crash'.between \/ Recovering'
  BY <1>1 DEF RecoveryInv
<1>2. CASE Walking
  <2>1. Usable(nodes, kvs, root) /\ \A k \in Keys : Finds(nodes, kvs, root, k) = acked[k]
    BY <1>2, TreeIsWhole DEF Walking, Whole, Maps
  <2>2. QED
    BY <2>1, CrashLeaves
<1>3. CASE Storing
  <2>1. CASE op.pc = "return"
    <3>1. Usable(nodes, kvs, root) /\ \A k \in Keys : Finds(nodes, kvs, root, k) = acked[k]
      BY <1>3, <2>1 DEF Storing, Maps
    <3>2. QED
      BY <3>1, CrashLeaves
  <2>2. CASE op.pc # "return"
    BY <1>1, <1>3, <2>2 DEF Storing
  <2>3. QED
    BY <2>1, <2>2
<1>4. CASE Done
  <2>1. op # IdleOp
    BY <1>4 DEF Done, IdleOp
  <2>2. ASSUME NEW k \in Keys
        PROVE  \/ Finds(nodes, kvs, root, k) = acked[k]
               \/ op # IdleOp /\ op.key = k /\ Finds(nodes, kvs, root, k) = op.val
    BY <1>4, <2>1 DEF Done, Maps, Target, RecoveryInv
  <2>3. Usable(nodes, kvs, root)
    BY <1>4 DEF Done, Whole
  <2>4. QED
    BY <2>2, <2>3, CrashLeaves
<1>5. QED
  BY <1>1, <1>2, <1>3, <1>4 DEF RecoveryInv

\* The turn of a node adds its children to what is to be visited and counts
\* the relocation of its slots.
ToVisit(visit) == {Visit(nodes[visit.n].slots[s].at, SlotLevel(visit),
                         visit.depth + nodes[visit.n].prefixLength + 1) : s \in OfKind(visit.n, "node")}
Relocated(visit) == [at \in DOMAIN walk.moved |->
                        IF at[1] = visit.n /\ at[2] \in Used(visit.n) THEN walk.moved[at] + 1
                        ELSE walk.moved[at]]
\* That is all it does to the walk.
LEMMA VisitAboveDoes ==
    ASSUME WalkTyped, walk.phase = "walking", NEW visit, VisitAbove(visit)
    PROVE  walk' = [phase |-> "walking", visits |-> (walk.visits \ {visit}) \union ToVisit(visit),
                    moved |-> Relocated(visit)]
<1>1. walk' = [walk EXCEPT !.visits = (walk.visits \ {visit}) \union ToVisit(visit),
                           !.moved = Relocated(visit)]
  BY DEF VisitAbove, ToVisit, Relocated
<1>2. PICK v, m : walk = [phase |-> "walking", visits |-> v, moved |-> m]
  BY DEF WalkTyped
<1>3. PICK V, M : V = (walk.visits \ {visit}) \union ToVisit(visit) /\ M = Relocated(visit)
  OBVIOUS
<1>4. PICK w : w = [[phase |-> "walking", visits |-> v, moved |-> m] EXCEPT !.visits = V]
  OBVIOUS
<1>5. walk' = [w EXCEPT !.moved = M]
  BY <1>1, <1>2, <1>3, <1>4
<1>6. w = [phase |-> "walking", visits |-> V, moved |-> m]
  BY ONLY <1>4
<1>7. walk' = [phase |-> "walking", visits |-> V, moved |-> M]
  BY ONLY <1>5, <1>6
<1>8. QED
  BY ONLY <1>3, <1>7

\* The turn of a node of the last level leaves everything else alone.
LEMMA VisitLastDoes ==
    ASSUME WalkTyped, walk.phase = "walking", NEW visit, VisitLast(visit)
    PROVE  walk' = [phase |-> "walking", visits |-> walk.visits \ {visit}, moved |-> walk.moved]
<1>1. walk' = [walk EXCEPT !.visits = walk.visits \ {visit}]
  BY DEF VisitLast
<1>2. QED
  BY <1>1 DEF WalkTyped

\* A visit keeps a walk a walk.
LEMMA WalkStays ==
    ASSUME WalkTyped, VisitNode
    PROVE  walk' # Up /\ WalkTyped'
<1>1. walk.phase = "walking"
  BY DEF VisitNode
<1>2. PICK visit : VisitAbove(visit) \/ VisitLast(visit) \/ VisitMisreads(visit)
  BY DEF VisitNode
<1>3. CASE VisitAbove(visit)
  <2>1. PICK V, M : walk' = [phase |-> "walking", visits |-> V, moved |-> M]
    BY <1>1, <1>3, VisitAboveDoes
  <2>2. QED
    BY <2>1 DEF WalkTyped, Up
<1>4. CASE VisitLast(visit)
  <2>1. PICK V, M : walk' = [phase |-> "walking", visits |-> V, moved |-> M]
    BY <1>1, <1>4, VisitLastDoes
  <2>2. QED
    BY <2>1 DEF WalkTyped, Up
<1>5. CASE VisitMisreads(visit)
  <2>1. walk' = [phase |-> "misread"]
    BY <1>5 DEF VisitMisreads
  <2>2. QED
    BY <2>1 DEF WalkTyped, Up
<1>6. QED
  BY <1>2, <1>3, <1>4, <1>5

\* In a tree that can be searched no slot's value is taken for an address that
\* is none, above the last level.
LEMMA NoneMisread ==
    ASSUME Usable(nodes, kvs, root), nodes[root].prefixLength # 1
    PROVE  ~Misread(root)
<1>1. nodes[root] \in TreeNode
  BY ElementOfSeq DEF Usable, Typed
<1>2. ASSUME NEW s \in SubKeys PROVE nodes[root].slots[s].kind \notin {"value", "flagged"}
  <2>1. nodes[root].slots[s].kind \in {"nothing", "value", "kv", "node"}
    BY <1>1 DEF TreeNode, SlotValue, Nothing, LeafValue, KeyValue, Child
  <2>2. nodes[root].slots[s].kind # "value"
    BY DEF Usable, TopSlots
  <2>3. QED
    BY ONLY <2>1, <2>2
<1>3. QED
  BY <1>2 DEF Misread, OfKind

\* The slots that lookups follow are the root's.
LEMMA FollowedAtRoot ==
    ASSUME Usable(nodes, kvs, root), NEW at \in Followed
    PROVE  /\ at \in (1..Len(nodes)) \X SubKeys
           /\ at[1] = root /\ nodes[root].prefixLength = 0 /\ at[2] \in Used(root)
<1>1. /\ at \in (1..Len(nodes)) \X SubKeys
      /\ nodes[at[1]].slots[at[2]].kind \in {"kv", "node"}
      /\ at[1] = root \/ \E s \in SubKeys : nodes[root].slots[s] = Child(at[1])
  BY DEF Followed
<1>2. at[1] = root
  <2> SUFFICES ASSUME NEW s \in SubKeys, nodes[root].slots[s] = Child(at[1]) PROVE FALSE
    BY <1>1
  <2>1. nodes[root].slots[s].kind = "node" /\ nodes[root].slots[s].at = at[1]
    BY DEF Child
  <2>2. \A t \in SubKeys : nodes[at[1]].slots[t].kind \in {"nothing", "value"}
    BY <2>1 DEF Usable, TopSlots
  <2>3. nodes[at[1]].slots[at[2]].kind \in {"nothing", "value"}
    BY <1>1, <2>2
  <2>4. QED
    BY ONLY <1>1, <2>3
<1>3. nodes[root].slots[at[2]].kind # "nothing"
  BY ONLY <1>1, <1>2
<1>4. nodes[root].prefixLength = 0
  BY ONLY <1>1, <1>2, Usable(nodes, kvs, root) DEF Usable, TopSlots
<1>5. at[2] \in Used(root)
  BY ONLY <1>1, <1>3 DEF Used, Nothing
<1>6. QED
  BY <1>1, <1>2, <1>4, <1>5

\* The root is visited: its children are to come, none of them at a level
\* where a value could be taken for an address.
LEMMA VisitRoot ==
    ASSUME Recovering, WalkTyped, walk.phase = "walking", AtRoot, VisitNode
    PROVE  /\ UNCHANGED nodes
           /\ walk'.phase = "walking"
           /\ walk'.moved = [at \in (1..Len(nodes)) \X SubKeys |-> walk'.moved[at]]
           /\ \A visit \in walk'.visits : visit.pos = 1 /\ visit.n \in (1..Len(nodes)) \ {root}
                                          /\ nodes[visit.n].prefixLength = 0
           /\ \A at \in Followed : walk'.moved[at] = 1
<1>1. Usable(nodes, kvs, root) /\ DOMAIN walk.moved = (1..Len(nodes)) \X SubKeys
  BY DEF Recovering
<1> DEFINE top == Visit(root, 0, 0)
<1>2. /\ walk.visits = {top} /\ top.n = root /\ top.pos = 0 /\ top.depth = 0
      /\ \A at \in (1..Len(nodes)) \X SubKeys : walk.moved[at] = 0
  BY DEF AtRoot, Visit
<1>3. SlotLevel(top) = nodes[root].prefixLength + 1 /\ nodes[root].prefixLength \in {0, 1, 6}
  BY <1>1, <1>2 DEF SlotLevel, Usable, TopPlain, Unset
<1> HIDE DEF top
<1>4. VisitAbove(top) \/ VisitLast(top) \/ VisitMisreads(top)
  BY <1>2 DEF VisitNode
<1>5. CASE nodes[root].prefixLength = 1
  <2>1. VisitLast(top)
    BY <1>3, <1>4, <1>5 DEF VisitAbove, VisitMisreads
  <2>2. walk' = [phase |-> "walking", visits |-> {}, moved |-> walk.moved]
    BY <1>2, <2>1, VisitLastDoes
  <2>3. Followed = {}
    BY <1>1, <1>5, FollowedAtRoot
  <2>4. UNCHANGED nodes
    BY <2>1 DEF VisitLast
  <2>5. QED
    BY <2>2, <2>3, <2>4 DEF Recovering
<1>6. CASE nodes[root].prefixLength # 1
  <2>1. VisitAbove(top)
    <3>1. ~Misread(top.n) /\ SlotLevel(top) # 2
      BY <1>1, <1>2, <1>3, <1>6, NoneMisread
    <3>2. QED
      BY <1>4, <3>1 DEF VisitLast, VisitMisreads
  <2>2. walk' = [phase |-> "walking", visits |-> ToVisit(top), moved |-> Relocated(top)]
    BY <1>2, <2>1, VisitAboveDoes
  <2>3. UNCHANGED nodes
    BY <1>1, <1>2, <2>1 DEF VisitAbove, Usable, TopPlain
  <2>4. walk'.moved = [at \in (1..Len(nodes)) \X SubKeys |-> walk'.moved[at]]
    BY <1>1, <2>2 DEF Relocated
  <2>5. ASSUME NEW visit \in walk'.visits
        PROVE  visit.pos = 1 /\ visit.n \in (1..Len(nodes)) \ {root} /\ nodes[visit.n].prefixLength = 0
    <3>1. PICK s \in OfKind(root, "node") :
             visit = Visit(nodes[root].slots[s].at, SlotLevel(top), top.depth + nodes[root].prefixLength + 1)
      BY <1>2, <2>2 DEF ToVisit
    <3>2. visit.n = nodes[root].slots[s].at /\ visit.pos = SlotLevel(top)
      BY <3>1 DEF Visit
    <3>3. s \in SubKeys /\ nodes[root].slots[s].kind = "node"
      BY DEF OfKind
    <3>4. TopSlots(nodes, kvs, root)
      BY ONLY <1>1 DEF Usable
    <3>5. nodes[root].prefixLength = 0 /\ visit.n \in (1..Len(nodes)) \ {root} /\ nodes[visit.n].prefixLength = 0
      BY ONLY <3>2, <3>3, <3>4 DEF TopSlots
    <3>6. QED
      BY ONLY <1>3, <3>2, <3>5
  <2>6. ASSUME NEW at \in Followed PROVE walk'.moved[at] = 1
    <3>1. at \in (1..Len(nodes)) \X SubKeys /\ at[1] = root /\ at[2] \in Used(root)
      BY <1>1, FollowedAtRoot
    <3>2. walk'.moved[at] = walk.moved[at] + 1
      BY <1>1, <1>2, <2>2, <3>1 DEF Relocated
    <3>3. QED
      BY <1>2, <3>1, <3>2
  <2>7. walk'.phase = "walking"
    BY <2>2
  <2>8. QED
    BY <2>3, <2>4, <2>5, <2>6, <2>7
<1>7. QED
  BY <1>5, <1>6

\* A node that the root leads to is of the last level.
LEMMA VisitChild ==
    ASSUME WalkTyped, walk.phase = "walking", BelowRoot, VisitNode
    PROVE  /\ UNCHANGED nodes
           /\ \E visit : walk' = [phase |-> "walking", visits |-> walk.visits \ {visit}, moved |-> walk.moved]
<1>1. PICK visit \in walk.visits : VisitAbove(visit) \/ VisitLast(visit) \/ VisitMisreads(visit)
  BY DEF VisitNode
<1>2. SlotLevel(visit) = 2
  BY DEF BelowRoot, SlotLevel
<1>3. VisitLast(visit)
  BY <1>1, <1>2 DEF VisitAbove, VisitMisreads
<1>4. QED
  BY <1>3, VisitLastDoes DEF VisitLast

\* The walk goes on to the nodes below the root, each slot that is followed
\* relocated once.
LEMMA StepVisitNode ==
    ASSUME RecoveryInv, VisitNode
    PROVE  RecoveryInv'
<1>1. /\ walk.phase = "walking" /\ walk # Up /\ UNCHANGED <<kvs, root, op, todo, acked, crash>>
  BY DEF VisitNode, Up
<1>2. walk' # Up /\ WalkTyped /\ WalkTyped'
  BY <1>1, WalkStays DEF RecoveryInv
<1> SUFFICES ASSUME Recovering PROVE Recovering'
  BY <1>1, <1>2 DEF RecoveryInv
<1>3. /\ UNCHANGED nodes /\ walk'.phase = "walking"
      /\ walk'.moved = [at \in (1..Len(nodes)) \X SubKeys |-> walk'.moved[at]]
      /\ \A visit \in walk'.visits : visit.pos = 1 /\ visit.n \in (1..Len(nodes)) \ {root}
                                     /\ nodes[visit.n].prefixLength = 0
      /\ \A at \in Followed : walk'.moved[at] = 1
  <2>1. CASE AtRoot
    BY <1>1, <1>2, <2>1, VisitRoot
  <2>2. CASE BelowRoot /\ MovedOnce
    <3>1. UNCHANGED nodes
      BY <1>1, <1>2, <2>2, VisitChild
    <3>2. PICK visit : walk' = [phase |-> "walking", visits |-> walk.visits \ {visit}, moved |-> walk.moved]
      BY <1>1, <1>2, <2>2, VisitChild
    <3>3. walk'.phase = "walking" /\ walk'.visits \subseteq walk.visits /\ walk'.moved = walk.moved
      BY <3>2
    <3>4. QED
      BY <1>1, <2>2, <3>1, <3>3 DEF BelowRoot, MovedOnce, Recovering
  <2>3. QED
    BY <1>1, <2>1, <2>2 DEF Recovering
<1>4. Followed' = Followed
  BY <1>1, <1>3 DEF Followed
<1>5. BelowRoot' /\ MovedOnce'
  BY <1>1, <1>3, <1>4 DEF BelowRoot, MovedOnce
<1>6. Usable(nodes', kvs', root') /\ \A k \in Keys : Finds(nodes', kvs', root', k) \in {acked'[k]} \union CutOff(k)'
  BY <1>1, <1>3 DEF Recovering, CutOff
<1>7. walk'.moved = [at \in (1..Len(nodes')) \X SubKeys |-> walk'.moved[at]]
  BY <1>3
<1>8. QED
  BY <1>3, <1>5, <1>6, <1>7 DEF Recovering

\* The recovery ends when there is nothing left to visit, and then the root
\* has been.
LEMMA StepRecovered ==
    ASSUME RecoveryInv, Recovered
    PROVE  RecoveryInv'
<1>1. /\ walk.phase = "walking" /\ walk.visits = {} /\ walk # Up
      /\ walk' = [phase |-> "recovered", moved |-> walk.moved]
      /\ UNCHANGED <<nodes, kvs, root, op, todo, acked, crash>>
  BY DEF Recovered, Up
<1>2. walk' # Up /\ WalkTyped' /\ walk'.phase = "recovered" /\ walk'.moved = walk.moved
  BY <1>1 DEF WalkTyped, Up
<1> SUFFICES ASSUME Recovering PROVE Recovering'
  BY <1>1, <1>2 DEF RecoveryInv
<1>3. MovedOnce
  <2>1. ~AtRoot
    BY <1>1 DEF AtRoot
  <2>2. QED
    BY <1>1, <2>1 DEF Recovering
<1>4. MovedOnce'
  BY <1>1, <1>2, <1>3 DEF MovedOnce, Followed
<1>5. QED
  BY <1>1, <1>2, <1>4 DEF Recovering, CutOff

\* The invariant holds through inserts, the death of the process anywhere in
\* them, and the recovery.
LEMMA RecoveryInvariant == TreeRecSpec => []RecoveryInv
<1>1. TreeRecInit => RecoveryInv
  <2> SUFFICES ASSUME TreeRecInit PROVE RecoveryInv
    OBVIOUS
  <2>1. TreeInv
    BY TreeInit DEF TreeRecInit
  <2>2. nodes[root].prefixLength = Unset
    BY DEF TreeRecInit, Init, NewNode
  <2>3. Maps(nodes, kvs, root, acked)
    BY <2>2 DEF Maps, Finds, TreeRecInit, Unset
  <2>4. QED
    BY <2>1, <2>3 DEF RecoveryInv, Walking, TreeRecInit
<1>2. RecoveryInv /\ [TreeRecNext]_treeRecVars => RecoveryInv'
  <2> SUFFICES ASSUME RecoveryInv, [TreeRecNext]_treeRecVars PROVE RecoveryInv'
    OBVIOUS
  <2>1. ASSUME UNCHANGED treeRecVars PROVE RecoveryInv'
    <3>1. UNCHANGED <<nodes, kvs, root, op, todo, walk, acked, crash>>
      BY <2>1 DEF treeRecVars
    <3>2. TreeInv' = TreeInv
      BY <3>1 DEF TreeInv, TreeTypeOK, OpStands, RootPlain, RootSlots, ChildrenPlain, OneParent
    <3>3. Walking' = Walking /\ Storing' = Storing /\ Done' = Done
      BY <3>1, <3>2 DEF Walking, Storing, Done, Target
    <3>4. AtRoot' = AtRoot /\ BelowRoot' = BelowRoot /\ MovedOnce' = MovedOnce
      BY <3>1 DEF AtRoot, BelowRoot, MovedOnce, Followed
    <3>5. Recovering' = Recovering /\ WalkTyped' = WalkTyped
      BY <3>1, <3>4 DEF Recovering, WalkTyped, CutOff
    <3>6. QED
      BY <3>1, <3>3, <3>5 DEF RecoveryInv
  <2>2. Over => UNCHANGED treeRecVars
    BY DEF Over
  <2>3. QED
    BY <2>1, <2>2, StepWhole, StepStartChild, StepStartSplit, StepDoStore, StepReturnStored,
       StepCrash, StepVisitNode, StepRecovered DEF TreeRecNext
<1>3. QED
  BY <1>1, <1>2, PTL DEF TreeRecSpec

-----------------------------------------------------------------------------
(* The theorem.                                                            *)

\* Unless the process died between the stores of a prefix split or of a slot
\* that gets a child, recoveryTree and recoveryAllNodes reach their end, every
\* address that a lookup follows has been relocated once, and search finds each
\* key's last acknowledged value, or the one of the insert that was cut off.
THEOREM KilledTreeRecovers == TreeRecSpec => []TreeRecovers
<1>1. RecoveryInv => TreeRecovers
  <2> SUFFICES ASSUME RecoveryInv, walk.phase \in {"misread", "recovered"}, ~crash.between
               PROVE  /\ walk.phase = "recovered"
                      /\ \A at \in Followed : walk.moved[at] = 1
                      /\ \A k \in Keys : Search(k) \in {acked[k]} \union CutOff(k)
    BY DEF TreeRecovers
  <2>1. Recovering /\ walk.phase # "walking"
    BY DEF RecoveryInv, Up
  <2>2. walk.phase = "recovered" /\ MovedOnce
    BY <2>1 DEF Recovering
  <2>3. \A k \in Keys : Search(k) \in {acked[k]} \union CutOff(k)
    BY <2>1, SearchFinds DEF Recovering
  <2>4. QED
    BY <2>2, <2>3 DEF MovedOnce
<1>2. QED
  BY <1>1, RecoveryInvariant, PTL
=============================================================================
