-------------------------- MODULE WRERTTreeProofs ---------------------------
(***************************************************************************)
(* Theorems about WRERTTree, for every set of keys and values: headers tell*)
(* the places of their nodes, slots hold what their level calls for, and   *)
(* the tree is a map.                                                      *)
(***************************************************************************)
EXTENDS WRERTTree, TLAPS, SequenceTheorems

-----------------------------------------------------------------------------
(* The inductive invariant.                                                *)

SlotValue == {Nothing} \union {LeafValue(v) : v \in Values}
               \union {KeyValue(i) : i \in Nat} \union {Child(n) : n \in Nat}

TreeNode == [depth : Nat, prefixLength : Nat, prefix : SubKeys \union {None},
             slots : [SubKeys -> SlotValue]]

TreeTypeOK ==
    /\ nodes \in Seq(TreeNode)
    /\ kvs \in Seq([key : Keys, val : Values])
    /\ root \in 1..Len(nodes)
    /\ \/ op = IdleOp
       \/ op \in [pc : {"insert"}, key : Keys, val : Values, node : 1..Len(nodes), pos : {0, 1}]

\* A root with a prefix is the only node, and one without a prefix assigned is
\* empty.
RootPlain ==
    /\ nodes[root].depth = 0
    /\ nodes[root].prefixLength \in {0, 1, Unset}
    /\ nodes[root].prefixLength # 0 => Len(nodes) = 1
    /\ nodes[root].prefixLength = 1 => nodes[root].prefix \in SubKeys
    /\ nodes[root].prefixLength = Unset => nodes[root].slots = NoSlots

\* A root without a prefix leads to records of the slot's sub-key and to
\* children; one with a prefix holds values.
RootSlots ==
    \A s \in SubKeys :
        LET slot == nodes[root].slots[s]
        IN  /\ slot.kind = "value" => nodes[root].prefixLength = 1
            /\ slot.kind \in {"kv", "node"} => nodes[root].prefixLength = 0
            /\ slot.kind = "kv" => slot.at \in 1..Len(kvs) /\ kvs[slot.at].key[1] = s
            /\ slot.kind = "node" => slot.at \in (1..Len(nodes)) \ {root}

\* Every other node is a child of the root, of one of its slots, and holds
\* values.
ChildrenPlain ==
    \A n \in (1..Len(nodes)) \ {root} :
        /\ nodes[n].depth = 1 /\ nodes[n].prefixLength = 0
        /\ \E s \in SubKeys : nodes[root].slots[s] = Child(n)
        /\ \A s \in SubKeys : nodes[n].slots[s].kind \in {"nothing", "value"}
OneParent ==
    \A s, t \in SubKeys :
        nodes[root].slots[s].kind = "node" /\ nodes[root].slots[s] = nodes[root].slots[t] => s = t

\* An insert stands at the root, or at the child for its upper half.
OpStands ==
    op # IdleOp =>
        \/ op.node = root /\ op.pos = 0
        \/ op.pos = 1 /\ nodes[root].slots[op.key[1]] = Child(op.node) /\ op.node # root

TreeInv == TreeTypeOK /\ RootPlain /\ RootSlots /\ ChildrenPlain /\ OneParent /\ OpStands

-----------------------------------------------------------------------------
(* What the operators on nodes do.                                         *)

\* A node with one slot stored to differs in that slot and nothing else.
LEMMA WithSlot ==
    ASSUME NEW x \in TreeNode, NEW s \in SubKeys, NEW entry \in SlotValue
    PROVE  LET y == [x EXCEPT !.slots[s] = entry]
           IN  /\ y \in TreeNode
               /\ y.depth = x.depth
               /\ y.prefixLength = x.prefixLength
               /\ y.prefix = x.prefix
               /\ \A r \in SubKeys : y.slots[r] = IF r = s THEN entry ELSE x.slots[r]
BY DEF TreeNode

\* A new node without a prefix has its slots as given and is otherwise empty.
LEMMA NodeAtFacts ==
    ASSUME NEW d \in Nat
    PROVE  /\ NodeAt(d) \in TreeNode
           /\ NodeAt(d) = [depth |-> d, prefixLength |-> 0, prefix |-> None, slots |-> NoSlots]
           /\ NoSlots \in [SubKeys -> SlotValue]
           /\ \A s \in SubKeys : NoSlots[s] = Nothing
<1>1. NoSlots \in [SubKeys -> SlotValue] /\ \A s \in SubKeys : NoSlots[s] = Nothing
  BY DEF NoSlots, SlotValue
<1>2. NodeAt(d) = [depth |-> d, prefixLength |-> 0, prefix |-> None, slots |-> NoSlots]
  <2>1. [NewNode EXCEPT !.depth = d] = [depth |-> d, prefixLength |-> Unset, prefix |-> None, slots |-> NoSlots]
    BY DEF NewNode
  <2>2. [[depth |-> d, prefixLength |-> Unset, prefix |-> None, slots |-> NoSlots] EXCEPT !.prefixLength = 0]
          = [depth |-> d, prefixLength |-> 0, prefix |-> None, slots |-> NoSlots]
    OBVIOUS
  <2>3. NodeAt(d) = [[NewNode EXCEPT !.depth = d] EXCEPT !.prefixLength = 0]
    BY DEF NodeAt, NewNode
  <2>4. QED
    BY <2>1, <2>2, <2>3
<1>3. NodeAt(d) \in TreeNode
  BY <1>1, <1>2 DEF TreeNode
<1>4. QED
  BY <1>1, <1>2, <1>3

\* A new node given two entries, the second of which wins.
WithTwo(d, s, e, t, f) == [NodeAt(d) EXCEPT !.slots[s] = e, !.slots[t] = f]
\* That is a node, with these slots.
LEMMA NodeWithTwo ==
    ASSUME NEW d \in Nat, NEW s \in SubKeys, NEW e \in SlotValue, NEW t \in SubKeys, NEW f \in SlotValue
    PROVE  /\ WithTwo(d, s, e, t, f) \in TreeNode
           /\ WithTwo(d, s, e, t, f).depth = d
           /\ WithTwo(d, s, e, t, f).prefixLength = 0
           /\ \A r \in SubKeys :
                 WithTwo(d, s, e, t, f).slots[r] = IF r = t THEN f ELSE IF r = s THEN e ELSE Nothing
<1> DEFINE x == NodeAt(d)
           y == [x EXCEPT !.slots[s] = e]
           z == [y EXCEPT !.slots[t] = f]
<1>1. x \in TreeNode /\ x.depth = d /\ x.prefixLength = 0 /\ \A r \in SubKeys : x.slots[r] = Nothing
  BY NodeAtFacts
<1> HIDE DEF x
<1>2. y \in TreeNode /\ y.depth = d /\ y.prefixLength = 0
      /\ \A r \in SubKeys : y.slots[r] = IF r = s THEN e ELSE Nothing
  BY <1>1, WithSlot
<1> HIDE DEF y
<1>3. z \in TreeNode /\ z.depth = d /\ z.prefixLength = 0
      /\ \A r \in SubKeys : z.slots[r] = IF r = t THEN f ELSE y.slots[r]
  BY <1>2, WithSlot
<1> HIDE DEF z
<1>4. z = WithTwo(d, s, e, t, f)
  BY DEF x, y, z, WithTwo
<1>5. QED
  BY <1>2, <1>3, <1>4

\* t is nodes after a store into a slot: that slot changes and nothing else.
Stored(t, n, s, entry) ==
    /\ t \in Seq(TreeNode)
    /\ Len(t) = Len(nodes)
    /\ \A m \in 1..Len(nodes) :
          /\ t[m].depth = nodes[m].depth
          /\ t[m].prefixLength = nodes[m].prefixLength
          /\ t[m].prefix = nodes[m].prefix
          /\ \A r \in SubKeys :
                t[m].slots[r] = IF m = n /\ r = s THEN entry ELSE nodes[m].slots[r]
SlotStored(n, s, entry) == Stored(nodes', n, s, entry)
\* Put stores into one slot.
LEMMA PutFacts ==
    ASSUME TreeTypeOK, NEW n \in 1..Len(nodes), NEW s \in SubKeys, NEW entry \in SlotValue
    PROVE  Stored(Put(n, s, entry), n, s, entry)
<1> DEFINE x == [nodes[n] EXCEPT !.slots[s] = entry]
           t == [nodes EXCEPT ![n] = x]
<1>1. nodes \in Seq(TreeNode) /\ nodes[n] \in TreeNode
  BY ElementOfSeq DEF TreeTypeOK
<1>2. /\ x \in TreeNode
      /\ x.depth = nodes[n].depth
      /\ x.prefixLength = nodes[n].prefixLength
      /\ x.prefix = nodes[n].prefix
      /\ \A r \in SubKeys : x.slots[r] = IF r = s THEN entry ELSE nodes[n].slots[r]
  BY <1>1, WithSlot
<1>3. Put(n, s, entry) = t
  BY DEF Put
<1> HIDE DEF x
<1>4. t \in Seq(TreeNode) /\ Len(t) = Len(nodes) /\ \A m \in 1..Len(nodes) : t[m] = IF m = n THEN x ELSE nodes[m]
  BY ONLY <1>1, <1>2, ExceptSeq
<1> HIDE DEF t
<1>5. QED
  BY <1>2, <1>3, <1>4 DEF Stored

\* An entry whose nodeFlag is set is the child it points at.
LEMMA NodeEntry ==
    ASSUME NEW entry \in SlotValue, entry.kind = "node"
    PROVE  entry = Child(entry.at)
BY DEF SlotValue, Nothing, LeafValue, KeyValue, Child

\* A stored value changes a record's value and leaves the keys alone.
RecordUpdated(i) ==
    /\ kvs' \in Seq([key : Keys, val : Values])
    /\ Len(kvs') = Len(kvs)
    /\ \A j \in 1..Len(kvs) : kvs'[j].key = kvs[j].key
                               /\ kvs'[j].val = IF j = i THEN op.val ELSE kvs[j].val
\* Storing a value into a record does that.
LEMMA UpdateFacts ==
    ASSUME TreeTypeOK, NEW i \in 1..Len(kvs), op.val \in Values,
           kvs' = [kvs EXCEPT ![i].val = op.val]
    PROVE  RecordUpdated(i)
<1> DEFINE x == [kvs[i] EXCEPT !.val = op.val]
<1>1. kvs \in Seq([key : Keys, val : Values]) /\ kvs[i] \in [key : Keys, val : Values]
  BY ElementOfSeq DEF TreeTypeOK
<1>2. x \in [key : Keys, val : Values] /\ x.key = kvs[i].key /\ x.val = op.val
  BY <1>1
<1> DEFINE t == [kvs EXCEPT ![i] = x]
<1>3. kvs' = t
  OBVIOUS
<1> HIDE DEF x
<1>4. /\ t \in Seq([key : Keys, val : Values]) /\ Len(t) = Len(kvs)
      /\ \A j \in 1..Len(kvs) : t[j] = IF j = i THEN x ELSE kvs[j]
  BY ONLY <1>1, <1>2, ExceptSeq
<1> HIDE DEF t
<1>5. QED
  BY <1>2, <1>3, <1>4 DEF RecordUpdated

\* Slots of the root hold entries.
LEMMA RootSlotTyped ==
    ASSUME TreeInv, NEW s \in SubKeys
    PROVE  nodes[root].slots[s] \in SlotValue
<1>1. nodes[root] \in TreeNode
  BY ElementOfSeq DEF TreeInv, TreeTypeOK
<1>2. QED
  BY <1>1 DEF TreeNode

\* What an insert in progress knows of the node it stands at.
LEMMA Standing ==
    ASSUME TreeInv, op # IdleOp
    PROVE  /\ op.pc = "insert" /\ op.key \in Keys /\ op.val \in Values
           /\ op.key[1] \in SubKeys /\ op.key[2] \in SubKeys
           /\ op.key = <<op.key[1], op.key[2]>>
           /\ op.node \in 1..Len(nodes) /\ op.pos \in {0, 1}
           /\ node \in TreeNode
<1>1. op \in [pc : {"insert"}, key : Keys, val : Values, node : 1..Len(nodes), pos : {0, 1}]
  BY DEF TreeInv, TreeTypeOK
<1>2. op.key \in SubKeys \X SubKeys
  BY <1>1, TreeAssumption
<1>3. node \in TreeNode
  BY <1>1, ElementOfSeq DEF TreeInv, TreeTypeOK, node
<1>4. QED
  BY <1>1, <1>2, <1>3

\* Case 2 at the last level ends in the slot of the lower half, of the root
\* under its prefix or of a child; above it, in the root's slot of the upper.
LEMMA WhereAtSlot ==
    ASSUME TreeInv, AtSlot
    PROVE  /\ op # IdleOp
           /\ AtLeaf => /\ SubKeyAt = op.key[2]
                        /\ \/ op.node = root /\ nodes[root].prefixLength = 1 /\ nodes[root].prefix = op.key[1]
                           \/ op.node # root /\ nodes[root].slots[op.key[1]] = Child(op.node)
           /\ Above => /\ SubKeyAt = op.key[1] /\ op.node = root /\ op.pos = 0
                       /\ nodes[root].prefixLength = 0
<1>1. op # IdleOp
  BY DEF AtSlot, Inserting, IdleOp
<1>2. \/ op.node = root /\ op.pos = 0 /\ nodes[root].prefixLength \in {0, 1}
      \/ op.pos = 1 /\ nodes[root].slots[op.key[1]] = Child(op.node) /\ op.node # root
           /\ nodes[op.node].prefixLength = 0
  BY <1>1, Standing DEF TreeInv, OpStands, RootPlain, ChildrenPlain, AtSlot, node
<1>3. QED
  BY <1>1, <1>2, Standing DEF AtLeaf, AtSlot, Above, SubKeyAt, node, PrefixMatches

-----------------------------------------------------------------------------
(* What each step of an insert that stores something does.                 *)

\* Cases 2.1.1 and 2.1.2 store the value in the slot of the lower half, of the
\* root under its prefix or of the child that the upper half leads to.
LEMMA PutLeafDoes ==
    ASSUME TreeInv, PutLeaf
    PROVE  /\ SlotStored(op.node, op.key[2], LeafValue(op.val))
           /\ UNCHANGED <<kvs, root>> /\ op # IdleOp /\ op' = IdleOp
           /\ op.node \in 1..Len(nodes) /\ op.key[2] \in SubKeys
           /\ \/ op.node = root /\ nodes[root].prefixLength = 1 /\ nodes[root].prefix = op.key[1]
              \/ op.node # root /\ nodes[root].slots[op.key[1]] = Child(op.node)
<1>1. /\ op # IdleOp /\ SubKeyAt = op.key[2]
      /\ \/ op.node = root /\ nodes[root].prefixLength = 1 /\ nodes[root].prefix = op.key[1]
         \/ op.node # root /\ nodes[root].slots[op.key[1]] = Child(op.node)
  BY WhereAtSlot DEF PutLeaf, AtLeaf
<1>2. op.node \in 1..Len(nodes) /\ op.key[2] \in SubKeys /\ op.val \in Values
  BY <1>1, Standing
<1>3. LeafValue(op.val) \in SlotValue
  BY <1>2 DEF SlotValue
<1>4. nodes' = Put(op.node, op.key[2], LeafValue(op.val)) /\ UNCHANGED <<kvs, root>> /\ op' = IdleOp
  BY <1>1 DEF PutLeaf, Return
<1>5. QED
  BY <1>1, <1>2, <1>3, <1>4, PutFacts DEF TreeInv, SlotStored

\* A WRERTKeyValue is allocated behind those that there are.
RecordAdded ==
    /\ kvs' \in Seq([key : Keys, val : Values])
    /\ Len(kvs') = Len(kvs) + 1
    /\ kvs'[Len(kvs) + 1].key = op.key
    /\ kvs'[Len(kvs) + 1].val = op.val
    /\ \A j \in 1..Len(kvs) : kvs'[j] = kvs[j]
\* NewWRERTKeyValue of the insert's key and value is such a step.
LEMMA AppendRecord ==
    ASSUME TreeTypeOK, op.key \in Keys, op.val \in Values,
           kvs' = Append(kvs, [key |-> op.key, val |-> op.val])
    PROVE  RecordAdded
<1> DEFINE kv == [key |-> op.key, val |-> op.val]
<1>1. kv \in [key : Keys, val : Values] /\ kv.key = op.key /\ kv.val = op.val
  OBVIOUS
<1>2. kvs' = Append(kvs, kv) /\ kvs \in Seq([key : Keys, val : Values])
  BY DEF TreeTypeOK
<1> HIDE DEF kv
<1>3. QED
  BY ONLY <1>1, <1>2 DEF RecordAdded

\* Case 2.2.1 stores a new record in an empty slot of the root.
LEMMA PutKeyValueDoes ==
    ASSUME TreeInv, PutKeyValue
    PROVE  /\ SlotStored(root, op.key[1], KeyValue(Len(kvs) + 1)) /\ RecordAdded
           /\ root' = root /\ op # IdleOp /\ op' = IdleOp
           /\ op.key[1] \in SubKeys
           /\ nodes[root].prefixLength = 0 /\ nodes[root].slots[op.key[1]] = Nothing
<1>1. /\ op # IdleOp /\ SubKeyAt = op.key[1] /\ op.node = root /\ nodes[root].prefixLength = 0
      /\ nodes[root].slots[op.key[1]] = Nothing
  BY WhereAtSlot DEF PutKeyValue, Above, node
<1>2. op.key \in Keys /\ op.key[1] \in SubKeys /\ op.val \in Values
  BY <1>1, Standing
<1>3. root \in 1..Len(nodes) /\ KeyValue(Len(kvs) + 1) \in SlotValue
  BY DEF TreeInv, TreeTypeOK, SlotValue, KeyValue
<1>4. /\ nodes' = Put(root, op.key[1], KeyValue(Len(kvs) + 1))
      /\ kvs' = Append(kvs, [key |-> op.key, val |-> op.val])
      /\ root' = root /\ op' = IdleOp
  BY <1>1 DEF PutKeyValue, Return
<1>5. SlotStored(root, op.key[1], KeyValue(Len(kvs) + 1))
  BY <1>2, <1>3, <1>4, PutFacts DEF TreeInv, SlotStored
<1>6. RecordAdded
  BY <1>2, <1>4, AppendRecord DEF TreeInv
<1>7. QED
  BY <1>1, <1>2, <1>4, <1>5, <1>6

\* Case 2.2.3 stores the value in the record of its own key.
LEMMA UpdateKeyValueDoes ==
    ASSUME TreeInv, UpdateKeyValue
    PROVE  LET i == nodes[root].slots[op.key[1]].at
           IN  /\ i \in 1..Len(kvs) /\ kvs[i].key = op.key /\ RecordUpdated(i)
               /\ nodes[root].slots[op.key[1]].kind = "kv" /\ nodes[root].prefixLength = 0
               /\ UNCHANGED <<nodes, root>> /\ op # IdleOp /\ op' = IdleOp
<1>1. /\ op # IdleOp /\ SubKeyAt = op.key[1] /\ op.node = root /\ nodes[root].prefixLength = 0
      /\ nodes[root].slots[op.key[1]].kind = "kv"
  BY WhereAtSlot DEF UpdateKeyValue, Above, node
<1> DEFINE i == nodes[root].slots[op.key[1]].at
<1>2. op.key[1] \in SubKeys /\ op.val \in Values
  BY <1>1, Standing
<1>3. i \in 1..Len(kvs)
  BY <1>1, <1>2 DEF TreeInv, RootSlots
<1>4. kvs[i].key = op.key /\ kvs' = [kvs EXCEPT ![i].val = op.val] /\ UNCHANGED <<nodes, root>> /\ op' = IdleOp
  BY <1>1 DEF UpdateKeyValue, node, Return
<1> HIDE DEF i
<1>5. RecordUpdated(i)
  BY <1>2, <1>3, <1>4, UpdateFacts DEF TreeInv
<1>6. QED
  BY <1>1, <1>3, <1>4, <1>5 DEF i

\* The slot of the upper half points at a new child that holds both keys.
MakeChildDoes ==
    LET kv == kvs[nodes[root].slots[op.key[1]].at]
        c == Len(nodes) + 1
    IN  /\ nodes' \in Seq(TreeNode)
        /\ Len(nodes') = c
        /\ \A m \in 1..Len(nodes) :
              /\ nodes'[m].depth = nodes[m].depth
              /\ nodes'[m].prefixLength = nodes[m].prefixLength
              /\ nodes'[m].prefix = nodes[m].prefix
              /\ \A r \in SubKeys :
                    nodes'[m].slots[r] = IF m = root /\ r = op.key[1] THEN Child(c)
                                        ELSE nodes[m].slots[r]
        /\ nodes'[c].depth = 1 /\ nodes'[c].prefixLength = 0
        /\ \A r \in SubKeys :
              nodes'[c].slots[r] = IF r = op.key[2] THEN LeafValue(op.val)
                                  ELSE IF r = kv.key[2] THEN LeafValue(kv.val) ELSE Nothing
\* Case 2.2.4 does that, where the record found was another key's.
LEMMA MakeChildFacts ==
    ASSUME TreeInv, MakeChild
    PROVE  LET i == nodes[root].slots[op.key[1]].at
           IN  /\ MakeChildDoes
               /\ UNCHANGED <<kvs, root>> /\ op # IdleOp /\ op' = IdleOp
               /\ op.key[1] \in SubKeys /\ op.key[2] \in SubKeys
               /\ nodes[root].prefixLength = 0 /\ nodes[root].slots[op.key[1]].kind = "kv"
               /\ i \in 1..Len(kvs) /\ kvs[i].key # op.key /\ kvs[i].key[1] = op.key[1]
               /\ kvs[i].key \in SubKeys \X SubKeys /\ kvs[i].val \in Values
<1> DEFINE i == nodes[root].slots[op.key[1]].at
           c == Len(nodes) + 1
           t == Put(root, op.key[1], Child(c))
           x == WithTwo(1, kvs[i].key[2], LeafValue(kvs[i].val), op.key[2], LeafValue(op.val))
<1>1. /\ op # IdleOp /\ SubKeyAt = op.key[1] /\ op.node = root /\ op.pos = 0 /\ nodes[root].prefixLength = 0
      /\ nodes[root].slots[op.key[1]].kind = "kv" /\ kvs[i].key # op.key
  BY WhereAtSlot DEF MakeChild, NeedsChild, Above, node
<1>2. op.key[1] \in SubKeys /\ op.key[2] \in SubKeys /\ op.val \in Values
  BY <1>1, Standing
<1>3. i \in 1..Len(kvs) /\ kvs[i].key[1] = op.key[1]
  BY <1>1, <1>2 DEF TreeInv, RootSlots
<1>4. kvs[i].key \in SubKeys \X SubKeys /\ kvs[i].val \in Values
  <2> HIDE DEF i
  <2>1. kvs[i] \in [key : Keys, val : Values]
    BY <1>3, ElementOfSeq DEF TreeInv, TreeTypeOK
  <2>2. QED
    BY <2>1, TreeAssumption
<1>5. nodes \in Seq(TreeNode) /\ root \in 1..Len(nodes) /\ Child(c) \in SlotValue
  BY DEF TreeInv, TreeTypeOK, SlotValue
<1>6. nodes' = Append(t, x) /\ UNCHANGED <<kvs, root>> /\ op' = IdleOp
  <2>1. /\ nodes' = Append(Put(root, op.key[1], Child(c)), NewChild)
        /\ UNCHANGED <<kvs, root>> /\ op' = IdleOp
    BY <1>1 DEF MakeChild, Return
  <2>2. op.pos + node.prefixLength + 1 = 1 /\ node.slots[SubKeyAt].at = i
    BY <1>1 DEF node
  <2>3. NewChild = x
    <3> HIDE DEF i
    <3>1. NewChild = WithTwo(1, kvs[i].key[1 + 1], LeafValue(kvs[i].val), op.key[1 + 1], LeafValue(op.val))
      BY ONLY <2>2 DEF NewChild, WithTwo
    <3>2. 1 + 1 = 2
      OBVIOUS
    <3>3. QED
      BY ONLY <3>1, <3>2
  <2>4. QED
    BY ONLY <2>1, <2>3
<1>7. /\ t \in Seq(TreeNode) /\ Len(t) = Len(nodes)
      /\ \A m \in 1..Len(nodes) :
            /\ t[m].depth = nodes[m].depth
            /\ t[m].prefixLength = nodes[m].prefixLength
            /\ t[m].prefix = nodes[m].prefix
            /\ \A r \in SubKeys :
                  t[m].slots[r] = IF m = root /\ r = op.key[1] THEN Child(c) ELSE nodes[m].slots[r]
  BY <1>2, <1>5, PutFacts DEF TreeInv, Stored
<1>8. /\ x \in TreeNode /\ x.depth = 1 /\ x.prefixLength = 0
      /\ \A r \in SubKeys :
            x.slots[r] = IF r = op.key[2] THEN LeafValue(op.val)
                         ELSE IF r = kvs[i].key[2] THEN LeafValue(kvs[i].val) ELSE Nothing
  <2>1. LeafValue(op.val) \in SlotValue /\ LeafValue(kvs[i].val) \in SlotValue
        /\ kvs[i].key[2] \in SubKeys /\ 1 \in Nat
    BY <1>2, <1>4 DEF SlotValue
  <2> HIDE DEF i
  <2>2. QED
    BY ONLY <1>2, <2>1, NodeWithTwo
<1> HIDE DEF t, x
<1>9. /\ nodes' \in Seq(TreeNode) /\ Len(nodes') = c /\ nodes'[c] = x
      /\ \A m \in 1..Len(nodes) : nodes'[m] = t[m]
  <2>1. nodes' = Append(t, x) /\ t \in Seq(TreeNode) /\ Len(t) = Len(nodes) /\ x \in TreeNode
    BY <1>6, <1>7, <1>8
  <2>2. QED
    BY ONLY <2>1
<1>10. MakeChildDoes
  <2>1. ASSUME NEW m \in 1..Len(nodes)
        PROVE  /\ nodes'[m].depth = nodes[m].depth
               /\ nodes'[m].prefixLength = nodes[m].prefixLength
               /\ nodes'[m].prefix = nodes[m].prefix
               /\ \A r \in SubKeys :
                     nodes'[m].slots[r] = IF m = root /\ r = op.key[1] THEN Child(c)
                                         ELSE nodes[m].slots[r]
    <3>1. nodes'[m] = t[m]
      BY <1>9
    <3>2. QED
      BY ONLY <1>7, <2>1, <3>1
  <2>2. /\ nodes'[c].depth = 1 /\ nodes'[c].prefixLength = 0
        /\ \A r \in SubKeys :
              nodes'[c].slots[r] = IF r = op.key[2] THEN LeafValue(op.val)
                                  ELSE IF r = kvs[i].key[2] THEN LeafValue(kvs[i].val) ELSE Nothing
    BY ONLY <1>8, <1>9
  <2>3. QED
    BY ONLY <1>9, <2>1, <2>2 DEF MakeChildDoes
<1>11. QED
  BY <1>1, <1>2, <1>3, <1>4, <1>6, <1>10

\* Below the new root are the key that did not match and the old root, which
\* has lost its prefix.
SplitPrefixDoes ==
    /\ nodes' \in Seq(TreeNode)
    /\ Len(nodes') = 2 /\ root' = 2
    /\ nodes'[1].depth = 1 /\ nodes'[1].prefixLength = 0 /\ nodes'[1].slots = nodes[1].slots
    /\ nodes'[2].depth = 0 /\ nodes'[2].prefixLength = 0
    /\ \A r \in SubKeys :
          nodes'[2].slots[r] = IF r = nodes[1].prefix THEN Child(1)
                              ELSE IF r = op.key[1] THEN KeyValue(Len(kvs) + 1) ELSE Nothing
\* Case 3 does that; the root it meets is the one node there is.
LEMMA SplitPrefixFacts ==
    ASSUME TreeInv, SplitPrefix
    PROVE  /\ SplitPrefixDoes /\ RecordAdded /\ op # IdleOp /\ op' = IdleOp
           /\ Len(nodes) = 1 /\ root = 1
           /\ op.key[1] \in SubKeys /\ nodes[1].prefixLength = 1 /\ nodes[1].prefix \in SubKeys
           /\ nodes[1].prefix # op.key[1]
<1>1. op # IdleOp /\ op.node = root /\ op.pos = 0 /\ nodes[root].prefixLength = 1
  <2>1. op # IdleOp /\ op.node \in 1..Len(nodes) /\ nodes[op.node].prefixLength \notin {0, Unset}
    <3>1. op # IdleOp
      BY DEF SplitPrefix, PrefixFails, Inserting, IdleOp
    <3>2. QED
      BY <3>1, Standing DEF SplitPrefix, PrefixFails, node
  <2>2. op.node = root /\ op.pos = 0
    BY <2>1 DEF TreeInv, OpStands, ChildrenPlain
  <2>3. QED
    BY <2>1, <2>2 DEF TreeInv, RootPlain
<1>2. op.key \in Keys /\ op.key[1] \in SubKeys /\ op.val \in Values
  BY <1>1, Standing
<1>3. /\ root = 1 /\ Len(nodes) = 1 /\ nodes[1].prefixLength = 1 /\ nodes[1].prefix \in SubKeys
      /\ nodes[1].depth = 0 /\ nodes \in Seq(TreeNode) /\ nodes[1] \in TreeNode
  <2>1. nodes \in Seq(TreeNode) /\ Len(nodes) = 1 /\ root \in 1..1 /\ nodes[root] \in TreeNode
    BY <1>1, ElementOfSeq DEF TreeInv, TreeTypeOK, RootPlain
  <2>2. root = 1
    BY <2>1
  <2>3. QED
    BY <1>1, <2>1, <2>2 DEF TreeInv, RootPlain
<1>4. nodes[1].prefix # op.key[1]
  BY <1>1, <1>3 DEF SplitPrefix, PrefixFails, PrefixMatches, node
<1> DEFINE d == Demoted(nodes[1])
           t == [nodes EXCEPT ![1] = d]
           x == WithTwo(0, op.key[1], KeyValue(Len(kvs) + 1), nodes[1].prefix, Child(1))
<1>5. /\ nodes' = Append(t, x) /\ kvs' = Append(kvs, [key |-> op.key, val |-> op.val])
      /\ root' = 2 /\ op' = IdleOp
  BY <1>1, <1>3 DEF SplitPrefix, NewTop, WithTwo, node, Return
<1>6. d \in TreeNode /\ d.depth = 1 /\ d.prefixLength = 0 /\ d.slots = nodes[1].slots
  <2> DEFINE y == [[nodes[1] EXCEPT !.prefixLength = 0] EXCEPT !.prefix = None]
  <2>1. y \in TreeNode /\ y.depth = 0 /\ y.prefixLength = 0 /\ y.slots = nodes[1].slots
    BY <1>3 DEF TreeNode
  <2>2. d = [y EXCEPT !.depth = @ + 1]
    BY DEF Demoted
  <2> HIDE DEF y, d
  <2>3. QED
    BY <2>1, <2>2 DEF TreeNode
<1>7. /\ x \in TreeNode /\ x.depth = 0 /\ x.prefixLength = 0
      /\ \A r \in SubKeys :
            x.slots[r] = IF r = nodes[1].prefix THEN Child(1)
                         ELSE IF r = op.key[1] THEN KeyValue(Len(kvs) + 1) ELSE Nothing
  <2>1. KeyValue(Len(kvs) + 1) \in SlotValue /\ Child(1) \in SlotValue /\ 0 \in Nat
    BY DEF TreeInv, TreeTypeOK, SlotValue
  <2>2. QED
    BY ONLY <1>2, <1>3, <2>1, NodeWithTwo
<1> HIDE DEF d, x
<1>8. t \in Seq(TreeNode) /\ Len(t) = 1 /\ t[1] = d
  <2>1. nodes \in Seq(TreeNode) /\ d \in TreeNode /\ 1 \in 1..Len(nodes)
    BY <1>3, <1>6
  <2>2. t \in Seq(TreeNode) /\ Len(t) = Len(nodes) /\ t[1] = d
    BY ONLY <2>1, ExceptSeq
  <2>3. QED
    BY <1>3, <2>2
<1> HIDE DEF t
<1>9. nodes' \in Seq(TreeNode) /\ Len(nodes') = 2 /\ nodes'[1] = d /\ nodes'[2] = x
  <2>1. nodes' = Append(t, x) /\ x \in TreeNode /\ t \in Seq(TreeNode)
    BY <1>5, <1>7, <1>8
  <2>2. /\ nodes' \in Seq(TreeNode) /\ Len(nodes') = Len(t) + 1
        /\ \A m \in 1..Len(t) : nodes'[m] = t[m]
        /\ nodes'[Len(t) + 1] = x
    BY ONLY <2>1
  <2>3. Len(t) + 1 = 2 /\ 1 \in 1..Len(t)
    BY <1>8
  <2>4. QED
    BY <1>8, <2>2, <2>3
<1>10. SplitPrefixDoes
  BY <1>5, <1>6, <1>7, <1>9 DEF SplitPrefixDoes
<1>11. RecordAdded
  BY <1>2, <1>5, AppendRecord DEF TreeInv
<1>12. QED
  BY <1>1, <1>2, <1>3, <1>4, <1>5, <1>10, <1>11

-----------------------------------------------------------------------------
(* Every step preserves the invariant.                                     *)

\* A new tree is one empty node with no prefix assigned.
LEMMA TreeInit == Init => TreeInv
<1> SUFFICES ASSUME Init PROVE TreeInv
  OBVIOUS
<1>1. NewNode \in TreeNode /\ NewNode.depth = 0 /\ NewNode.prefixLength = Unset
      /\ NewNode.slots = NoSlots /\ \A s \in SubKeys : NoSlots[s] = Nothing
  BY DEF NewNode, NoSlots, TreeNode, SlotValue, Unset
<1>2. Len(nodes) = 1 /\ nodes[1] = NewNode /\ nodes \in Seq(TreeNode) /\ kvs \in Seq([key : Keys, val : Values])
  BY <1>1 DEF Init
<1>3. nodes[root] = NewNode /\ root = 1 /\ op = IdleOp
  BY <1>2 DEF Init
<1> HIDE DEF NewNode, NoSlots
<1>4. TreeTypeOK /\ OpStands
  BY <1>2, <1>3 DEF TreeTypeOK, OpStands
<1>5. RootPlain
  BY <1>1, <1>2, <1>3 DEF RootPlain, Unset
<1>6. RootSlots /\ OneParent /\ ChildrenPlain
  BY <1>1, <1>2, <1>3 DEF RootSlots, OneParent, ChildrenPlain, Nothing
<1>7. QED
  BY <1>4, <1>5, <1>6 DEF TreeInv

\* A caller's insert starts at the root.
LEMMA StepBegin ==
    ASSUME TreeInv, NEW k \in Keys, NEW v \in Values, Begin(k, v)
    PROVE  TreeInv'
<1>1. nodes' = nodes /\ kvs' = kvs /\ root' = root /\ op' = InsertOp(k, v)
  BY DEF Begin
<1>2. TreeTypeOK'
  BY <1>1 DEF TreeInv, TreeTypeOK, InsertOp
<1>3. OpStands'
  BY <1>1 DEF OpStands, InsertOp
<1>4. RootPlain' /\ RootSlots' /\ ChildrenPlain' /\ OneParent'
  BY <1>1 DEF TreeInv, RootPlain, RootSlots, ChildrenPlain, OneParent
<1>5. QED
  BY <1>2, <1>3, <1>4 DEF TreeInv

\* Case 0 is met by the first insert only: the root is the one node and empty.
LEMMA StepAssignPrefix ==
    ASSUME TreeInv, AssignPrefix
    PROVE  TreeInv'
<1>1. op # IdleOp
  BY DEF AssignPrefix, Inserting, IdleOp
<1>2. op.node = root /\ op.pos = 0
  BY <1>1, Standing DEF TreeInv, OpStands, ChildrenPlain, AssignPrefix, node, Unset
<1> DEFINE x == [nodes[root] EXCEPT !.prefixLength = 1, !.prefix = op.key[1]]
<1>3. nodes' = [nodes EXCEPT ![root] = x] /\ UNCHANGED <<kvs, root, op>>
  BY <1>2 DEF AssignPrefix
<1>4. nodes[root] \in TreeNode /\ nodes \in Seq(TreeNode) /\ root \in 1..Len(nodes)
  BY ElementOfSeq DEF TreeInv, TreeTypeOK
<1>5. x \in TreeNode /\ x.depth = nodes[root].depth /\ x.prefixLength = 1 /\ x.prefix = op.key[1]
      /\ x.slots = nodes[root].slots
  BY <1>1, <1>4, Standing DEF TreeNode
<1> HIDE DEF x
<1>6. nodes' \in Seq(TreeNode) /\ Len(nodes') = Len(nodes)
      /\ \A m \in 1..Len(nodes) : nodes'[m] = IF m = root THEN x ELSE nodes[m]
  BY <1>3, <1>4, <1>5, ExceptSeq
<1>7. Len(nodes) = 1 /\ nodes[root].slots = NoSlots
  BY <1>2 DEF TreeInv, RootPlain, AssignPrefix, node, Unset
<1>8. nodes'[root'] = x /\ x.slots = NoSlots /\ \A s \in SubKeys : NoSlots[s] = Nothing
  BY <1>3, <1>4, <1>5, <1>6, <1>7 DEF NoSlots
<1>9. TreeTypeOK'
  BY <1>3, <1>4, <1>6 DEF TreeInv, TreeTypeOK
<1>10. RootPlain'
  BY <1>1, <1>3, <1>5, <1>6, <1>7, <1>8, Standing DEF TreeInv, RootPlain, Unset
<1>11. RootSlots' /\ ChildrenPlain' /\ OneParent'
  <2>1. root' = root /\ Len(nodes') = 1 /\ root = 1
    BY <1>3, <1>4, <1>6, <1>7
  <2>2. \A s \in SubKeys : nodes'[root'].slots[s].kind = "nothing"
    BY <1>8 DEF Nothing
  <2>3. QED
    BY <2>1, <2>2 DEF RootSlots, ChildrenPlain, OneParent
<1>12. OpStands'
  BY <1>2, <1>3 DEF OpStands
<1>13. QED
  BY <1>9, <1>10, <1>11, <1>12 DEF TreeInv

\* Cases 2.1.1 and 2.1.2: a value goes into a slot of the last level.
LEMMA StepPutLeaf ==
    ASSUME TreeInv, PutLeaf
    PROVE  TreeInv'
<1>1. /\ SlotStored(op.node, op.key[2], LeafValue(op.val))
      /\ UNCHANGED <<kvs, root>> /\ op' = IdleOp
      /\ op.node \in 1..Len(nodes) /\ op.key[2] \in SubKeys
      /\ \/ op.node = root /\ nodes[root].prefixLength = 1
         \/ op.node # root
  BY PutLeafDoes
<1>2. /\ root \in 1..Len(nodes) /\ op.node \in 1..Len(nodes)
      /\ root' = root /\ LeafValue(op.val).kind = "value"
  BY <1>1 DEF TreeInv, TreeTypeOK, LeafValue
<1>3. TreeTypeOK'
  BY <1>1, <1>2 DEF TreeInv, TreeTypeOK, SlotStored, Stored
<1>4. nodes[root].prefixLength # Unset
  <2>1. CASE op.node # root
    <3>1. Len(nodes) # 1
      <4>1. \A m, n \in 1..1 : m = n
        OBVIOUS
      <4>2. QED
        BY <1>2, <2>1, <4>1
    <3>2. QED
      BY <3>1 DEF TreeInv, RootPlain, Unset
  <2>2. QED
    BY <1>1, <2>1 DEF Unset
<1>5. RootPlain'
  BY <1>1, <1>2, <1>4 DEF TreeInv, RootPlain, SlotStored, Stored
<1>6. RootSlots'
  BY <1>1, <1>2 DEF TreeInv, RootSlots, SlotStored, Stored
<1>7. \A s \in SubKeys : nodes[root].slots[s].kind = "node" => nodes'[root].slots[s] = nodes[root].slots[s]
  BY <1>1, <1>2 DEF TreeInv, RootSlots, SlotStored, Stored
<1>8. ChildrenPlain'
  BY <1>1, <1>2, <1>7 DEF TreeInv, ChildrenPlain, Child, SlotStored, Stored
<1>9. OneParent'
  BY <1>1, <1>2, <1>7 DEF TreeInv, OneParent, SlotStored, Stored
<1>10. QED
  BY <1>1, <1>3, <1>5, <1>6, <1>8, <1>9 DEF TreeInv, OpStands

\* Case 2.2.1: an empty slot of the root takes a new WRERTKeyValue.
LEMMA StepPutKeyValue ==
    ASSUME TreeInv, PutKeyValue
    PROVE  TreeInv'
<1> DEFINE i == Len(kvs) + 1
<1>1. /\ SlotStored(root, op.key[1], KeyValue(i)) /\ RecordAdded
      /\ root' = root /\ op' = IdleOp
      /\ op.key[1] \in SubKeys
      /\ nodes[root].prefixLength = 0 /\ nodes[root].slots[op.key[1]] = Nothing
  BY PutKeyValueDoes
<1>2. root \in 1..Len(nodes) /\ Len(kvs) \in Nat /\ KeyValue(i).kind = "kv" /\ KeyValue(i).at = i
  BY DEF TreeInv, TreeTypeOK, KeyValue
<1>3. TreeTypeOK'
  BY <1>1, <1>2 DEF TreeTypeOK, SlotStored, Stored, RecordAdded
<1>4. RootPlain'
  BY <1>1, <1>2 DEF TreeInv, RootPlain, Unset, SlotStored, Stored
<1>5. RootSlots'
  <2>1. \A s \in SubKeys : s # op.key[1] => nodes'[root'].slots[s] = nodes[root].slots[s]
    BY <1>1, <1>2 DEF SlotStored, Stored
  <2>2. nodes'[root'].slots[op.key[1]] = KeyValue(i) /\ nodes'[root'].prefixLength = nodes[root].prefixLength
    BY <1>1, <1>2 DEF SlotStored, Stored
  <2>3. /\ Len(nodes') = Len(nodes) /\ Len(kvs') = i /\ kvs'[i].key = op.key
        /\ \A j \in 1..Len(kvs) : j \in 1..i /\ kvs'[j] = kvs[j]
    BY <1>1, <1>2 DEF SlotStored, Stored, RecordAdded
  <2>4. i \in 1..i
    BY <1>2
  <2> HIDE DEF i
  <2>5. QED
    BY <1>1, <1>2, <2>1, <2>2, <2>3, <2>4 DEF TreeInv, RootSlots
<1>6. \A s \in SubKeys : nodes[root].slots[s].kind = "node" => nodes'[root].slots[s] = nodes[root].slots[s]
  BY <1>1, <1>2 DEF Nothing, SlotStored, Stored
<1>7. ChildrenPlain'
  BY <1>1, <1>2, <1>6 DEF TreeInv, ChildrenPlain, Child, SlotStored, Stored
<1>8. OneParent'
  BY <1>1, <1>2, <1>6 DEF TreeInv, OneParent, SlotStored, Stored
<1>9. QED
  BY <1>1, <1>3, <1>4, <1>5, <1>7, <1>8 DEF TreeInv, OpStands

\* Case 2.2.2: the insert goes on at the child of its upper half.
LEMMA StepDescend ==
    ASSUME TreeInv, Descend
    PROVE  TreeInv'
<1>1. /\ op # IdleOp /\ SubKeyAt = op.key[1] /\ op.node = root /\ op.pos = 0
      /\ nodes[root].prefixLength = 0 /\ nodes[root].slots[op.key[1]].kind = "node"
  BY WhereAtSlot DEF Descend, Above, node
<1> DEFINE slot == nodes[root].slots[op.key[1]]
<1>2. op.key[1] \in SubKeys /\ op \in [pc : {"insert"}, key : Keys, val : Values, node : 1..Len(nodes), pos : {0, 1}]
  BY <1>1, Standing DEF TreeInv, TreeTypeOK
<1>3. slot \in SlotValue
  <2>1. nodes[root] \in TreeNode
    BY ElementOfSeq DEF TreeInv, TreeTypeOK
  <2>2. QED
    BY <1>2, <2>1 DEF TreeNode
<1>4. slot = Child(slot.at) /\ slot.at \in (1..Len(nodes)) \ {root}
  <2>1. slot.kind = "node" /\ slot.at \in (1..Len(nodes)) \ {root}
    BY <1>1, <1>2 DEF TreeInv, RootSlots
  <2> HIDE DEF slot
  <2>2. slot = Child(slot.at)
    BY <1>3, <2>1, NodeEntry
  <2>3. QED
    BY <2>1, <2>2
<1>5. op' = [op EXCEPT !.node = slot.at, !.pos = 1] /\ UNCHANGED <<nodes, kvs, root>>
  BY <1>1 DEF Descend, node
<1>6. op' \in [pc : {"insert"}, key : Keys, val : Values, node : 1..Len(nodes), pos : {0, 1}]
      /\ op'.key = op.key /\ op'.node = slot.at /\ op'.pos = 1
  BY <1>2, <1>4, <1>5
<1>7. TreeTypeOK' /\ OpStands'
  BY <1>4, <1>5, <1>6 DEF TreeInv, TreeTypeOK, OpStands
<1>8. RootPlain' /\ RootSlots' /\ ChildrenPlain' /\ OneParent'
  <2>1. nodes' = nodes /\ kvs' = kvs /\ root' = root
    BY ONLY <1>5
  <2>2. RootPlain' /\ RootSlots'
    BY ONLY <2>1, TreeInv DEF TreeInv, RootPlain, RootSlots
  <2>3. ChildrenPlain' /\ OneParent'
    BY ONLY <2>1, TreeInv DEF TreeInv, ChildrenPlain, OneParent
  <2>4. QED
    BY <2>2, <2>3
<1>9. QED
  BY <1>7, <1>8 DEF TreeInv

\* Case 2.2.3: the record that a slot points at takes the new value.
LEMMA StepUpdateKeyValue ==
    ASSUME TreeInv, UpdateKeyValue
    PROVE  TreeInv'
<1>1. PICK i \in 1..Len(kvs) : RecordUpdated(i)
  BY UpdateKeyValueDoes
<1>2. UNCHANGED <<nodes, root>> /\ op' = IdleOp
  BY DEF UpdateKeyValue, Return
<1>3. TreeTypeOK'
  BY <1>1, <1>2 DEF TreeInv, TreeTypeOK, RecordUpdated
<1>4. RootSlots'
  BY <1>1, <1>2 DEF TreeInv, RootSlots, RecordUpdated
<1>5. RootPlain' /\ ChildrenPlain' /\ OneParent' /\ OpStands'
  BY <1>2 DEF TreeInv, RootPlain, ChildrenPlain, OneParent, OpStands
<1>6. QED
  BY <1>3, <1>4, <1>5 DEF TreeInv

\* Case 2.2.4: a new child, of one slot of the root, holds two values.
LEMMA StepMakeChild ==
    ASSUME TreeInv, MakeChild
    PROVE  TreeInv'
<1> DEFINE c == Len(nodes) + 1
<1>1. /\ MakeChildDoes /\ UNCHANGED <<kvs, root>> /\ op' = IdleOp
      /\ op.key[1] \in SubKeys /\ nodes[root].prefixLength = 0
      /\ nodes[root].slots[op.key[1]].kind = "kv"
  BY MakeChildFacts
<1>2. /\ root \in 1..Len(nodes) /\ Len(nodes) \in Nat /\ root' = root /\ root # c
      /\ Child(c).kind = "node" /\ Child(c).at = c
  BY <1>1 DEF TreeInv, TreeTypeOK, Child
<1>3. /\ \A s \in SubKeys : s # op.key[1] => nodes'[root].slots[s] = nodes[root].slots[s]
      /\ nodes'[root].slots[op.key[1]] = Child(c)
      /\ nodes'[root].prefixLength = 0 /\ nodes'[root].depth = nodes[root].depth
  BY <1>1, <1>2 DEF MakeChildDoes
<1>4. TreeTypeOK'
  <2>1. nodes' \in Seq(TreeNode) /\ Len(nodes') = c
    BY ONLY <1>1 DEF MakeChildDoes
  <2>2. root' \in 1..Len(nodes')
    BY ONLY <1>2, <2>1
  <2>3. kvs' = kvs /\ op' = IdleOp
    BY ONLY <1>1
  <2>4. QED
    BY ONLY TreeInv, <2>1, <2>2, <2>3 DEF TreeInv, TreeTypeOK
<1>5. RootPlain'
  BY <1>2, <1>3 DEF TreeInv, RootPlain, Unset
<1>6. RootSlots'
  <2>1. Len(nodes') = c
    BY ONLY <1>1 DEF MakeChildDoes
  <2>2. c \in (1..c) \ {root} /\ \A n \in 1..Len(nodes) : n \in 1..c
    BY ONLY <1>2
  <2> HIDE DEF c
  <2>3. kvs' = kvs /\ root' = root
    BY ONLY <1>1
  <2>4. QED
    BY ONLY <1>1, <1>2, <1>3, <2>1, <2>2, <2>3, TreeInv DEF TreeInv, RootSlots
<1>7. ChildrenPlain'
  <2> SUFFICES ASSUME NEW n \in (1..c) \ {root}
               PROVE  /\ nodes'[n].depth = 1 /\ nodes'[n].prefixLength = 0
                      /\ \E s \in SubKeys : nodes'[root].slots[s] = Child(n)
                      /\ \A s \in SubKeys : nodes'[n].slots[s].kind \in {"nothing", "value"}
    <3>1. Len(nodes') = c
      BY ONLY <1>1 DEF MakeChildDoes
    <3>2. QED
      BY <1>2, <3>1 DEF ChildrenPlain
  <2>1. CASE n = c
    <3> DEFINE kv == kvs[nodes[root].slots[op.key[1]].at]
    <3>1. \E s \in SubKeys : nodes'[root].slots[s] = Child(c)
      BY ONLY <1>1, <1>3
    <3>2. /\ nodes'[c].depth = 1 /\ nodes'[c].prefixLength = 0
          /\ \A s \in SubKeys :
                nodes'[c].slots[s] = IF s = op.key[2] THEN LeafValue(op.val)
                                    ELSE IF s = kv.key[2] THEN LeafValue(kv.val) ELSE Nothing
      BY ONLY <1>1 DEF MakeChildDoes
    <3>4. ASSUME NEW s \in SubKeys PROVE nodes'[c].slots[s].kind \in {"nothing", "value"}
      <4>1. PICK e : e = nodes'[c].slots[s]
        OBVIOUS
      <4>2. e = Nothing \/ \E v : e = LeafValue(v)
        BY ONLY <3>2, <4>1
      <4>3. e.kind \in {"nothing", "value"}
        BY ONLY <4>2 DEF LeafValue, Nothing
      <4>4. QED
        BY ONLY <4>1, <4>3
    <3>3. QED
      BY ONLY <2>1, <3>1, <3>2, <3>4
  <2>2. CASE n # c
    <3>1. n \in (1..Len(nodes)) \ {root}
      BY <1>2, <2>2
    <3>2. /\ nodes[n].depth = 1 /\ nodes[n].prefixLength = 0
          /\ \A s \in SubKeys : nodes[n].slots[s].kind \in {"nothing", "value"}
          /\ \E s \in SubKeys : nodes[root].slots[s] = Child(n)
      BY <3>1 DEF TreeInv, ChildrenPlain
    <3>3. \E s \in SubKeys : nodes'[root].slots[s] = Child(n)
      BY <1>1, <1>3, <3>2 DEF Child
    <3>4. QED
      BY <1>1, <3>1, <3>2, <3>3 DEF MakeChildDoes
  <2>3. QED
    BY <2>1, <2>2
<1>8. OneParent'
  <2>1. \A s \in SubKeys : nodes[root].slots[s] # Child(c)
    BY <1>2 DEF TreeInv, RootSlots
  <2>2. QED
    BY <1>1, <1>2, <1>3, <2>1 DEF TreeInv, OneParent
<1>9. QED
  BY <1>1, <1>4, <1>5, <1>6, <1>7, <1>8 DEF TreeInv, OpStands

\* Case 3: the old root, which held values only, is the one child.
LEMMA StepSplitPrefix ==
    ASSUME TreeInv, SplitPrefix
    PROVE  TreeInv'
<1> DEFINE i == Len(kvs) + 1
<1>1. /\ SplitPrefixDoes /\ RecordAdded /\ op' = IdleOp
      /\ Len(nodes) = 1 /\ root = 1
      /\ op.key[1] \in SubKeys /\ nodes[1].prefixLength = 1 /\ nodes[1].prefix \in SubKeys
      /\ nodes[1].prefix # op.key[1]
  BY SplitPrefixFacts
<1>2. /\ Len(kvs) \in Nat /\ KeyValue(i).kind = "kv" /\ KeyValue(i).at = i
      /\ Child(1).kind = "node" /\ Child(1).at = 1 /\ Nothing.kind = "nothing"
  BY DEF TreeInv, TreeTypeOK, KeyValue, Child, Nothing
<1>3. /\ root' = 2 /\ Len(nodes') = 2 /\ nodes'[2].prefixLength = 0 /\ nodes'[2].depth = 0
      /\ \A s \in SubKeys :
            nodes'[2].slots[s] = IF s = nodes[1].prefix THEN Child(1)
                                ELSE IF s = op.key[1] THEN KeyValue(i) ELSE Nothing
  BY <1>1 DEF SplitPrefixDoes
<1>4. TreeTypeOK'
  BY <1>1 DEF TreeTypeOK, SplitPrefixDoes, RecordAdded
<1>5. RootPlain'
  BY <1>3 DEF RootPlain, Unset
<1>6. RootSlots'
  <2>1. Len(kvs') = i /\ kvs'[i].key = op.key /\ i \in 1..i /\ 1 \in (1..2) \ {2}
    BY <1>1, <1>2 DEF RecordAdded
  <2> HIDE DEF i
  <2>2. QED
    BY <1>2, <1>3, <2>1 DEF RootSlots
<1>7. ChildrenPlain'
  <2>1. \A n \in (1..2) \ {2} : n = 1
    OBVIOUS
  <2>2. nodes'[1].depth = 1 /\ nodes'[1].prefixLength = 0 /\ nodes'[1].slots = nodes[1].slots
    BY <1>1 DEF SplitPrefixDoes
  <2>3. \A s \in SubKeys : nodes[1].slots[s].kind \in {"nothing", "value"}
    <3>1. nodes[1] \in TreeNode
      BY <1>1, ElementOfSeq DEF TreeInv, TreeTypeOK
    <3>2. \A s \in SubKeys : nodes[1].slots[s].kind \in {"nothing", "value", "kv", "node"}
      BY <3>1 DEF TreeNode, SlotValue, Nothing, LeafValue, KeyValue, Child
    <3>3. QED
      BY <1>1, <3>2 DEF TreeInv, RootSlots
  <2>4. \E s \in SubKeys : nodes'[2].slots[s] = Child(1)
    BY <1>1, <1>3
  <2>5. QED
    BY <1>3, <2>1, <2>2, <2>3, <2>4 DEF ChildrenPlain
<1>8. OneParent'
  BY <1>2, <1>3 DEF OneParent
<1>9. QED
  BY <1>1, <1>4, <1>5, <1>6, <1>7, <1>8 DEF TreeInv, OpStands

\* The invariant holds through every sequence of inserts.
LEMMA TreeInvariant == Spec => []TreeInv
<1>1. TreeInv /\ [Next]_vars => TreeInv'
  <2> SUFFICES ASSUME TreeInv, [Next]_vars PROVE TreeInv'
    OBVIOUS
  <2>1. CASE UNCHANGED vars
    BY <2>1 DEF vars, TreeInv, TreeTypeOK, RootPlain, RootSlots, ChildrenPlain, OneParent, OpStands
  <2>2. CASE Next
    BY <2>2, StepBegin, StepAssignPrefix, StepPutLeaf, StepPutKeyValue, StepDescend,
       StepUpdateKeyValue, StepMakeChild, StepSplitPrefix DEF Next
  <2>3. QED
    BY <2>1, <2>2
<1>2. QED
  BY <1>1, TreeInit, PTL DEF Spec

-----------------------------------------------------------------------------
(* The theorems.                                                           *)

\* nodeHeaderDepth tells put where the one pointer to a node is, and only the
\* root has a prefix, so computePrefix is only asked at position 0.
THEOREM PlacesTold == Spec => []HeaderTellsPlace
<1>1. TreeInv => HeaderTellsPlace
  <2> SUFFICES ASSUME TreeInv PROVE HeaderTellsPlace
    OBVIOUS
  <2>1. root \in 1..Len(nodes)
    BY DEF TreeInv, TreeTypeOK
  <2>2. \A n, m \in 1..Len(nodes), s \in SubKeys :
           nodes[m].slots[s] = Child(n) => m = root /\ n # root
    <3>1. \A n : Child(n).kind = "node" /\ Child(n).at = n
      BY DEF Child
    <3>2. \A n, m \in 1..Len(nodes), s \in SubKeys : nodes[m].slots[s] = Child(n) => m = root
      BY <3>1 DEF TreeInv, ChildrenPlain
    <3>3. \A n \in 1..Len(nodes), s \in SubKeys : nodes[root].slots[s] = Child(n) => n # root
      BY <3>1 DEF TreeInv, RootSlots
    <3>4. QED
      BY <3>2, <3>3
  <2>3. PrefixAtRoot
    BY DEF TreeInv, PrefixAtRoot, RootPlain, ChildrenPlain
  <2>4. ASSUME NEW n \in 1..Len(nodes)
        PROVE  /\ (nodes[n].depth = 0) <=> (n = root)
               /\ n = root => Pointers(n) = {}
               /\ n # root => \E m \in 1..Len(nodes), s \in SubKeys :
                                  Pointers(n) = {<<m, s>>} /\ nodes[m].depth + 1 = nodes[n].depth
    <3>1. (nodes[n].depth = 0) <=> (n = root)
      BY DEF TreeInv, RootPlain, ChildrenPlain
    <3>2. n = root => Pointers(n) = {}
      BY <2>2 DEF Pointers
    <3>3. ASSUME n # root
          PROVE  \E m \in 1..Len(nodes), s \in SubKeys :
                    Pointers(n) = {<<m, s>>} /\ nodes[m].depth + 1 = nodes[n].depth
      <4>1. PICK s \in SubKeys : nodes[root].slots[s] = Child(n)
        BY <3>3 DEF TreeInv, ChildrenPlain
      <4>2. \A t \in SubKeys : nodes[root].slots[t] = Child(n) => t = s
        BY <4>1 DEF TreeInv, OneParent, Child
      <4>3. <<root, s>> \in Pointers(n)
        BY <2>1, <4>1 DEF Pointers
      <4>4. ASSUME NEW at \in Pointers(n)
            PROVE  at = <<root, s>>
        BY <2>2, <4>2, <4>4 DEF Pointers
      <4>5. nodes[root].depth + 1 = nodes[n].depth
        BY <3>3 DEF TreeInv, RootPlain, ChildrenPlain
      <4>6. Pointers(n) = {<<root, s>>}
        BY <4>3, <4>4
      <4>7. QED
        BY <2>1, <4>5, <4>6
    <3>4. QED
      BY <3>1, <3>2, <3>3
  <2>5. QED
    BY <2>3, <2>4 DEF HeaderTellsPlace, DepthTellsParent
<1>2. QED
  BY <1>1, TreeInvariant, PTL

\* Values are in the last level only, records and children above it, and a
\* WRERTKeyValue hangs in the slot of its key's upper half.
THEOREM LevelsMatched == Spec => []SlotsMatchLevel
<1>1. TreeInv => SlotsMatchLevel
  <2> SUFFICES ASSUME TreeInv, NEW n \in 1..Len(nodes), NEW s \in SubKeys
               PROVE  LET slot == nodes[n].slots[s]
                          last == nodes[n].depth + nodes[n].prefixLength = 1
                      IN  /\ slot.kind = "value" => last
                          /\ slot.kind \in {"kv", "node"} => ~last
                          /\ slot.kind = "kv" => kvs[slot.at].key[1] = s
    BY DEF SlotsMatchLevel
  <2>1. CASE n = root
    BY <2>1 DEF TreeInv, RootPlain, RootSlots
  <2>2. CASE n # root
    BY <2>2 DEF TreeInv, ChildrenPlain
  <2>3. QED
    BY <2>1, <2>2
<1>2. QED
  BY <1>1, TreeInvariant, PTL

-----------------------------------------------------------------------------
(* The tree is a map.                                                      *)

\* What search returns, by the one or two nodes that it visits.
LeafBound(n, s) == IF nodes[n].slots[s].kind = "value" THEN nodes[n].slots[s].val ELSE None
RecordBound(i, k) == IF kvs[i].key = k THEN kvs[i].val ELSE None
SlotBound(slot, k) == IF slot.kind = "kv" THEN RecordBound(slot.at, k)
                      ELSE IF slot.kind = "node" THEN LeafBound(slot.at, k[2]) ELSE None
Bound(k) ==
    IF nodes[root].prefixLength = 0 THEN SlotBound(nodes[root].slots[k[1]], k)
    ELSE IF nodes[root].prefixLength = 1 /\ k[1] = nodes[root].prefix THEN LeafBound(root, k[2])
    ELSE None

\* search, down its cases, returns that.
LEMMA SearchIsBound == TreeInv => \A k \in Keys : Search(k) = Bound(k)
<1> SUFFICES ASSUME TreeInv, NEW k \in Keys PROVE Search(k) = Bound(k)
  OBVIOUS
<1>1. k[1] \in SubKeys /\ k[2] \in SubKeys
  BY TreeAssumption
<1>2. \A n, s : SearchSlot(n, s, k) =
         LET slot == nodes[n].slots[s]
         IN  IF slot.kind = "value" THEN slot.val
             ELSE IF slot.kind = "kv" THEN RecordBound(slot.at, k) ELSE None
  BY DEF SearchSlot, RecordBound
<1>3. CASE nodes[root].prefixLength = Unset
  BY <1>3 DEF Search, Bound, Unset
<1>4. CASE nodes[root].prefixLength = 1
  <2>1. nodes[root].slots[k[2]].kind \notin {"kv", "node"}
    BY <1>1, <1>4 DEF TreeInv, RootSlots
  <2>2. Search(k) = IF k[1] = nodes[root].prefix THEN SearchSlot(root, k[2], k) ELSE None
    BY <1>4, <2>1 DEF Search, PrefixMatches, Unset
  <2>3. QED
    BY <1>2, <1>4, <2>1, <2>2 DEF Bound, LeafBound
<1>5. CASE nodes[root].prefixLength = 0
  <2> DEFINE slot == nodes[root].slots[k[1]]
  <2>1. Search(k) = IF slot.kind = "node" THEN SearchSlot(slot.at, k[2], k)
                    ELSE SearchSlot(root, k[1], k)
    BY <1>5 DEF Search, PrefixMatches, Unset
  <2>2. slot.kind # "value"
    BY <1>1, <1>5 DEF TreeInv, RootSlots
  <2>3. slot.kind = "node" => nodes[slot.at].slots[k[2]].kind \in {"nothing", "value"}
    BY <1>1 DEF TreeInv, RootSlots, ChildrenPlain
  <2>4. QED
    BY <1>2, <1>5, <2>1, <2>2, <2>3 DEF Bound, SlotBound, LeafBound
<1>6. QED
  BY <1>3, <1>4, <1>5 DEF TreeInv, RootPlain

\* Two keys with the same halves are one.
LEMMA KeyHalves ==
    /\ \A k \in Keys : k[1] \in SubKeys /\ k[2] \in SubKeys
    /\ \A k, l \in Keys : k[1] = l[1] /\ k[2] = l[2] => k = l
BY TreeAssumption

\* An insert binds its own key and no other.
BindsOwnKey == \A k \in Keys : Bound(k)' = IF k = op.key THEN op.val ELSE Bound(k)

\* Storing a value in a last-level slot binds that key and no other.
LEMMA PutLeafBinds ==
    ASSUME TreeInv, PutLeaf
    PROVE  BindsOwnKey
<1>1. /\ SlotStored(op.node, op.key[2], LeafValue(op.val))
      /\ UNCHANGED <<kvs, root>> /\ op # IdleOp
      /\ op.node \in 1..Len(nodes)
      /\ \/ op.node = root /\ nodes[root].prefixLength = 1 /\ nodes[root].prefix = op.key[1]
         \/ op.node # root /\ nodes[root].slots[op.key[1]] = Child(op.node)
  BY PutLeafDoes
<1>2. root \in 1..Len(nodes) /\ op.key \in Keys
      /\ LeafValue(op.val).kind = "value" /\ LeafValue(op.val).val = op.val
  BY <1>1, Standing DEF TreeInv, TreeTypeOK, LeafValue
<1> SUFFICES ASSUME NEW k \in Keys
             PROVE  Bound(k)' = IF k = op.key THEN op.val ELSE Bound(k)
  BY DEF BindsOwnKey
<1>3. k[1] \in SubKeys /\ k[2] \in SubKeys /\ op.key[1] \in SubKeys /\ op.key[2] \in SubKeys
      /\ (k[1] = op.key[1] /\ k[2] = op.key[2] <=> k = op.key)
  BY <1>2, KeyHalves
<1>4. \A n \in 1..Len(nodes) :
         LeafBound(n, k[2])' = IF n = op.node /\ k[2] = op.key[2] THEN op.val ELSE LeafBound(n, k[2])
  BY <1>1, <1>2, <1>3 DEF LeafBound, SlotStored, Stored
<1>5. root' = root /\ nodes'[root].prefixLength = nodes[root].prefixLength /\ nodes'[root].prefix = nodes[root].prefix
  BY <1>1, <1>2 DEF SlotStored, Stored
<1>6. CASE op.node = root /\ nodes[root].prefixLength = 1 /\ nodes[root].prefix = op.key[1]
  BY <1>2, <1>3, <1>4, <1>5, <1>6 DEF Bound
<1>7. CASE op.node # root /\ nodes[root].slots[op.key[1]] = Child(op.node)
  <2>0. PICK slot \in SlotValue : slot = nodes[root].slots[k[1]]
    BY <1>2, <1>3, RootSlotTyped
  <2>1. nodes'[root'].slots[k[1]] = slot
    BY <1>1, <1>2, <1>3, <1>7, <2>0 DEF SlotStored, Stored
  <2>2. nodes[root].prefixLength = 0
    BY <1>3, <1>7 DEF TreeInv, RootSlots, Child
  <2>3. slot.kind = "node" => slot.at \in 1..Len(nodes) /\ (slot.at = op.node <=> k[1] = op.key[1])
    <3>1. slot.kind = "node" => slot = Child(slot.at) /\ slot.at \in 1..Len(nodes)
      BY <1>3, <2>0, NodeEntry DEF TreeInv, RootSlots
    <3>2. slot.kind = "node" /\ slot = nodes[root].slots[op.key[1]] => k[1] = op.key[1]
      BY <1>3, <2>0 DEF TreeInv, OneParent
    <3>3. k[1] = op.key[1] => slot.at = op.node
      BY <1>7, <2>0 DEF Child
    <3>4. QED
      BY <1>7, <2>0, <3>1, <3>2, <3>3
  <2>4. k[1] = op.key[1] => slot.kind = "node"
    BY <1>7, <2>0 DEF Child
  <2>5. slot.kind = "kv" => RecordBound(slot.at, k)' = RecordBound(slot.at, k)
    BY <1>1 DEF RecordBound
  <2>6. Bound(k)' = (IF slot.kind = "kv" THEN RecordBound(slot.at, k)
                     ELSE IF slot.kind = "node" THEN LeafBound(slot.at, k[2])' ELSE None)
    BY <1>1, <1>5, <2>1, <2>2, <2>5 DEF Bound, SlotBound, LeafBound, RecordBound
  <2>7. Bound(k) = SlotBound(slot, k)
    BY <2>0, <2>2 DEF Bound
  <2>8. CASE slot.kind = "node"
    BY <1>3, <1>4, <2>3, <2>6, <2>7, <2>8 DEF SlotBound
  <2>9. CASE slot.kind # "node"
    BY <1>3, <2>4, <2>6, <2>7, <2>9 DEF SlotBound
  <2>10. QED
    BY <2>8, <2>9
<1>8. QED
  BY <1>1, <1>6, <1>7

\* A record in a slot that was empty binds its key and no other.
LEMMA PutKeyValueBinds ==
    ASSUME TreeInv, PutKeyValue
    PROVE  BindsOwnKey
<1> DEFINE i == Len(kvs) + 1
<1>1. /\ SlotStored(root, op.key[1], KeyValue(i)) /\ RecordAdded
      /\ root' = root /\ op # IdleOp
      /\ nodes[root].prefixLength = 0 /\ nodes[root].slots[op.key[1]] = Nothing
  BY PutKeyValueDoes
<1>2. /\ root \in 1..Len(nodes) /\ op.key \in Keys
      /\ KeyValue(i).kind = "kv" /\ KeyValue(i).at = i /\ Nothing.kind = "nothing"
  BY <1>1, Standing DEF TreeInv, TreeTypeOK, KeyValue, Nothing
<1> SUFFICES ASSUME NEW k \in Keys
             PROVE  Bound(k)' = IF k = op.key THEN op.val ELSE Bound(k)
  BY DEF BindsOwnKey
<1>3. k[1] \in SubKeys /\ k[2] \in SubKeys
  BY KeyHalves
<1>4. PICK slot \in SlotValue : slot = nodes[root].slots[k[1]]
  BY <1>3, RootSlotTyped
<1>5. /\ root' = root /\ nodes'[root].prefixLength = 0
      /\ nodes'[root].slots[k[1]] = IF k[1] = op.key[1] THEN KeyValue(i) ELSE slot
  BY <1>1, <1>2, <1>3, <1>4 DEF SlotStored, Stored
<1>6. Bound(k) = SlotBound(slot, k)
  BY <1>1, <1>4 DEF Bound
<1>7. CASE k[1] = op.key[1]
  <2>1. Bound(k) = None
    BY <1>1, <1>2, <1>4, <1>6, <1>7 DEF SlotBound
  <2>2. Bound(k)' = IF kvs'[i].key = k THEN kvs'[i].val ELSE None
    BY <1>2, <1>5, <1>7 DEF Bound, SlotBound, RecordBound
  <2>3. kvs'[i].key = op.key /\ kvs'[i].val = op.val
    BY <1>1 DEF RecordAdded
  <2>4. QED
    BY <2>1, <2>2, <2>3
<1>8. CASE k[1] # op.key[1]
  <2>1. slot.kind = "kv" => slot.at \in 1..Len(kvs) /\ kvs'[slot.at] = kvs[slot.at]
    BY <1>1, <1>3, <1>4 DEF TreeInv, RootSlots, RecordAdded
  <2>2. slot.kind = "node" => LeafBound(slot.at, k[2])' = LeafBound(slot.at, k[2])
    <3>1. slot.kind = "node" => slot.at \in 1..Len(nodes) /\ slot.at # root
      BY <1>3, <1>4 DEF TreeInv, RootSlots
    <3>2. QED
      BY <1>1, <1>3, <3>1 DEF SlotStored, Stored, LeafBound
  <2>3. Bound(k)' = (IF slot.kind = "kv" THEN IF kvs'[slot.at].key = k THEN kvs'[slot.at].val ELSE None
                     ELSE IF slot.kind = "node" THEN LeafBound(slot.at, k[2])' ELSE None)
    BY <1>5, <1>8 DEF Bound, SlotBound, RecordBound, LeafBound
  <2>4. QED
    BY <1>6, <1>8, <2>1, <2>2, <2>3 DEF SlotBound, RecordBound
<1>9. QED
  BY <1>7, <1>8

\* A record that takes a new value binds its key and no other.
LEMMA UpdateKeyValueBinds ==
    ASSUME TreeInv, UpdateKeyValue
    PROVE  BindsOwnKey
<1>1. PICK i \in 1..Len(kvs) :
         /\ i = nodes[root].slots[op.key[1]].at /\ kvs[i].key = op.key /\ RecordUpdated(i)
         /\ nodes[root].slots[op.key[1]].kind = "kv" /\ nodes[root].prefixLength = 0
         /\ UNCHANGED <<nodes, root>> /\ op # IdleOp
  BY UpdateKeyValueDoes
<1> SUFFICES ASSUME NEW k \in Keys
             PROVE  Bound(k)' = IF k = op.key THEN op.val ELSE Bound(k)
  BY DEF BindsOwnKey
<1>2. k[1] \in SubKeys /\ k[2] \in SubKeys /\ op.key \in Keys
  BY <1>1, KeyHalves, Standing
<1>3. PICK slot \in SlotValue : slot = nodes[root].slots[k[1]]
  BY <1>2, RootSlotTyped
<1>4. Bound(k) = SlotBound(slot, k)
  BY <1>1, <1>3 DEF Bound
<1>5. slot.kind = "kv" => /\ slot.at \in 1..Len(kvs) /\ kvs'[slot.at].key = kvs[slot.at].key
                          /\ kvs'[slot.at].val = IF slot.at = i THEN op.val ELSE kvs[slot.at].val
  BY <1>1, <1>2, <1>3 DEF TreeInv, RootSlots, RecordUpdated
<1>6. Bound(k)' = (IF slot.kind = "kv" THEN IF kvs'[slot.at].key = k THEN kvs'[slot.at].val ELSE None
                   ELSE IF slot.kind = "node" THEN LeafBound(slot.at, k[2]) ELSE None)
  BY <1>1, <1>3 DEF Bound, SlotBound, RecordBound, LeafBound
<1>7. CASE k = op.key
  BY <1>1, <1>3, <1>5, <1>6, <1>7
<1>8. CASE k # op.key
  <2>1. slot.kind = "kv" /\ slot.at = i => RecordBound(i, k) = None /\ kvs'[slot.at].key # k
    BY <1>1, <1>5, <1>8 DEF RecordBound
  <2>2. QED
    BY <1>4, <1>5, <1>6, <1>8, <2>1 DEF SlotBound, RecordBound
<1>9. QED
  BY <1>7, <1>8

\* The child keeps what the record bound, and binds the new key.
LEMMA MakeChildBinds ==
    ASSUME TreeInv, MakeChild
    PROVE  BindsOwnKey
<1>0. PICK c : c = Len(nodes) + 1
  OBVIOUS
<1>1. PICK i \in 1..Len(kvs) :
         /\ i = nodes[root].slots[op.key[1]].at
         /\ MakeChildDoes /\ UNCHANGED <<kvs, root>> /\ op # IdleOp
         /\ op.key[1] \in SubKeys /\ op.key[2] \in SubKeys
         /\ nodes[root].prefixLength = 0 /\ nodes[root].slots[op.key[1]].kind = "kv"
         /\ kvs[i].key # op.key /\ kvs[i].key[1] = op.key[1] /\ kvs[i].key \in Keys
  <2>1. PICK j : j = nodes[root].slots[op.key[1]].at
    OBVIOUS
  <2>2. /\ MakeChildDoes /\ UNCHANGED <<kvs, root>> /\ op # IdleOp
        /\ op.key[1] \in SubKeys /\ op.key[2] \in SubKeys
        /\ nodes[root].prefixLength = 0 /\ nodes[root].slots[op.key[1]].kind = "kv"
        /\ j \in 1..Len(kvs) /\ kvs[j].key # op.key /\ kvs[j].key[1] = op.key[1]
    BY <2>1, MakeChildFacts
  <2>3. kvs[j] \in [key : Keys, val : Values]
    BY <2>2, ElementOfSeq DEF TreeInv, TreeTypeOK
  <2>4. QED
    BY <2>1, <2>2, <2>3
<1> SUFFICES ASSUME NEW k \in Keys
             PROVE  Bound(k)' = IF k = op.key THEN op.val ELSE Bound(k)
  BY DEF BindsOwnKey
<1>2. /\ k[1] \in SubKeys /\ k[2] \in SubKeys /\ op.key \in Keys /\ root \in 1..Len(nodes)
      /\ (k[1] = op.key[1] /\ k[2] = op.key[2] <=> k = op.key)
      /\ (k[1] = kvs[i].key[1] /\ k[2] = kvs[i].key[2] <=> k = kvs[i].key)
  BY <1>1, KeyHalves, Standing DEF TreeInv, TreeTypeOK
<1>3. PICK slot \in SlotValue : slot = nodes[root].slots[k[1]]
  BY <1>2, RootSlotTyped
<1>4. Bound(k) = SlotBound(slot, k)
  BY <1>1, <1>3 DEF Bound
<1>5. /\ root' = root /\ nodes'[root].prefixLength = 0
      /\ nodes'[root].slots[k[1]] = IF k[1] = op.key[1] THEN Child(c) ELSE slot
  BY <1>0, <1>1, <1>2, <1>3 DEF MakeChildDoes
<1>6. CASE k[1] = op.key[1]
  <2>1. Bound(k) = IF kvs[i].key = k THEN kvs[i].val ELSE None
    BY <1>1, <1>3, <1>4, <1>6 DEF SlotBound, RecordBound
  <2>2. Bound(k)' = LeafBound(c, k[2])'
    BY <1>5, <1>6 DEF Bound, SlotBound, Child, LeafBound
  <2>3. nodes'[c].slots[k[2]] = IF k[2] = op.key[2] THEN LeafValue(op.val)
                               ELSE IF k[2] = kvs[i].key[2] THEN LeafValue(kvs[i].val) ELSE Nothing
    BY <1>0, <1>1, <1>2 DEF MakeChildDoes
  <2>4. LeafBound(c, k[2])' = IF k[2] = op.key[2] THEN op.val
                              ELSE IF k[2] = kvs[i].key[2] THEN kvs[i].val ELSE None
    BY <2>3 DEF LeafBound, LeafValue, Nothing
  <2>5. QED
    BY <1>1, <1>2, <1>6, <2>1, <2>2, <2>4
<1>7. CASE k[1] # op.key[1]
  <2>1. slot.kind = "node" => LeafBound(slot.at, k[2])' = LeafBound(slot.at, k[2])
    <3>1. slot.kind = "node" => slot.at \in 1..Len(nodes) /\ slot.at # root
      BY <1>2, <1>3 DEF TreeInv, RootSlots
    <3>2. ASSUME slot.kind = "node" PROVE LeafBound(slot.at, k[2])' = LeafBound(slot.at, k[2])
      <4>1. PICK m \in 1..Len(nodes) : m = slot.at /\ m # root
        BY <3>1, <3>2
      <4>2. nodes'[m].slots[k[2]] = nodes[m].slots[k[2]]
        BY ONLY <1>1, <1>2, <4>1 DEF MakeChildDoes
      <4>3. QED
        BY ONLY <4>1, <4>2 DEF LeafBound
    <3>3. QED
      BY <3>2
  <2>2. Bound(k)' = (IF slot.kind = "kv" THEN RecordBound(slot.at, k)
                     ELSE IF slot.kind = "node" THEN LeafBound(slot.at, k[2])' ELSE None)
    BY <1>1, <1>5, <1>7 DEF Bound, SlotBound, RecordBound, LeafBound
  <2>3. QED
    BY <1>4, <1>7, <2>1, <2>2 DEF SlotBound
<1>8. QED
  BY <1>6, <1>7

\* Below the new root the old keys are found where the prefix was, and the key
\* that did not match in its own slot.
LEMMA SplitPrefixBinds ==
    ASSUME TreeInv, SplitPrefix
    PROVE  BindsOwnKey
<1>0. PICK i : i = Len(kvs) + 1
  OBVIOUS
<1>1. /\ SplitPrefixDoes /\ RecordAdded /\ op # IdleOp
      /\ root = 1 /\ nodes[1].prefixLength = 1 /\ nodes[1].prefix # op.key[1]
  BY SplitPrefixFacts
<1>2. /\ root' = 2 /\ nodes'[2].prefixLength = 0 /\ nodes'[1].slots = nodes[1].slots
      /\ \A r \in SubKeys :
            nodes'[2].slots[r] = IF r = nodes[1].prefix THEN Child(1)
                                ELSE IF r = op.key[1] THEN KeyValue(i) ELSE Nothing
  BY <1>0, <1>1 DEF SplitPrefixDoes
<1>3. kvs'[i].key = op.key /\ kvs'[i].val = op.val
  BY <1>0, <1>1 DEF RecordAdded
<1> SUFFICES ASSUME NEW k \in Keys
             PROVE  Bound(k)' = IF k = op.key THEN op.val ELSE Bound(k)
  BY DEF BindsOwnKey
<1>4. k[1] \in SubKeys
  BY KeyHalves
<1>5. CASE k[1] = nodes[1].prefix
  <2>1. Bound(k)' = LeafBound(1, k[2])'
    <3>1. nodes'[root'].slots[k[1]] = Child(1) /\ nodes'[root'].prefixLength = 0
      BY <1>2, <1>4, <1>5
    <3>2. Child(1).kind = "node" /\ Child(1).at = 1
      BY DEF Child
    <3>3. QED
      BY <3>1, <3>2 DEF Bound, SlotBound, LeafBound
  <2>2. LeafBound(1, k[2])' = LeafBound(1, k[2])
    BY <1>2 DEF LeafBound
  <2>3. QED
    BY <1>1, <1>5, <2>1, <2>2 DEF Bound
<1>6. CASE k[1] = op.key[1]
  <2>1. Bound(k)' = IF kvs'[i].key = k THEN kvs'[i].val ELSE None
    <3>1. nodes'[root'].slots[k[1]] = KeyValue(i) /\ nodes'[root'].prefixLength = 0
      BY <1>1, <1>2, <1>4, <1>6
    <3>2. KeyValue(i).kind = "kv" /\ KeyValue(i).at = i
      BY DEF KeyValue
    <3>3. QED
      BY <3>1, <3>2 DEF Bound, SlotBound, RecordBound
  <2>2. Bound(k) = None
    BY <1>1, <1>6 DEF Bound
  <2>3. QED
    BY <1>3, <2>1, <2>2
<1>7. CASE k[1] \notin {nodes[1].prefix, op.key[1]}
  BY <1>1, <1>2, <1>4, <1>7 DEF Bound, SlotBound, Nothing
<1>8. QED
  BY <1>5, <1>6, <1>7

\* The first insert's prefix is assigned to an empty root.
LEMMA AssignPrefixKeeps ==
    ASSUME TreeInv, AssignPrefix
    PROVE  \A k \in Keys : Bound(k)' = Bound(k)
<1>1. op # IdleOp /\ op.node = root
  <2>1. op # IdleOp
    BY DEF AssignPrefix, Inserting, IdleOp
  <2>2. QED
    BY <2>1, Standing DEF TreeInv, OpStands, ChildrenPlain, AssignPrefix, node, Unset
<1>2. nodes[root].prefixLength = Unset /\ nodes[root].slots = NoSlots
  BY <1>1 DEF TreeInv, RootPlain, AssignPrefix, node
<1>3. nodes'[root'].prefixLength = 1 /\ nodes'[root'].slots = NoSlots
  <2>1. nodes[root] \in TreeNode /\ root \in DOMAIN nodes
    BY ElementOfSeq, LenProperties DEF TreeInv, TreeTypeOK
  <2>2. root' = root /\ nodes'[root] = [nodes[root] EXCEPT !.prefixLength = 1, !.prefix = op.key[op.pos + 1]]
    BY <1>1, <2>1 DEF AssignPrefix
  <2>3. QED
    BY <1>2, <2>1, <2>2 DEF TreeNode
<1>4. ASSUME NEW k \in Keys PROVE Bound(k)' = Bound(k)
  BY <1>2, <1>3, KeyHalves DEF Bound, LeafBound, NoSlots, Nothing, Unset
<1>5. QED
  BY <1>4

\* The tree is a map: search finds each key's last value, and an insert, over
\* however many steps down and whatever splits and children it causes, binds
\* its own key at the step that returns and disturbs no other.
THEOREM TreeIsMap == Spec => ImplementsMap
<1>1. Init => KV!MapInit
  <2> SUFFICES ASSUME Init PROVE KV!MapInit
    OBVIOUS
  <2>1. nodes[root] = NewNode /\ op = IdleOp
    BY DEF Init
  <2>2. \A k \in Keys : Search(k) = None
    BY <2>1 DEF Search, NewNode
  <2>3. QED
    BY <2>1, <2>2 DEF KV!MapInit, KV!Idle
<1>2. TreeInv /\ (\A k \in Keys : Search(k) = Bound(k)) /\ (\A k \in Keys : Search(k) = Bound(k))'
        /\ [Next]_vars => [KV!MapNext]_KV!mapVars
  <2> DEFINE map == [k \in Keys |-> Search(k)]
             req == IF op = IdleOp THEN [busy |-> FALSE]
                    ELSE [busy |-> TRUE, key |-> op.key, val |-> op.val]
  <2> SUFFICES ASSUME TreeInv, [Next]_vars,
                      \A k \in Keys : Search(k) = Bound(k),
                      \A k \in Keys : Search(k)' = Bound(k)'
               PROVE  [KV!MapNext]_KV!mapVars
    OBVIOUS
  <2>1. ASSUME \A k \in Keys : Bound(k)' = Bound(k)
        PROVE  map' = map
    BY <2>1
  <2>2. ASSUME BindsOwnKey, op # IdleOp, op' = IdleOp
        PROVE  KV!MapNext
    <3>1. op.key \in Keys
      BY <2>2, Standing
    <3>2. map' = [map EXCEPT ![op.key] = op.val]
      BY <2>2, <3>1 DEF BindsOwnKey
    <3>3. req # [busy |-> FALSE] /\ req' = [busy |-> FALSE] /\ req.key = op.key /\ req.val = op.val
      BY <2>2
    <3>4. KV!Commit
      BY <3>2, <3>3 DEF KV!Commit, KV!Idle
    <3>5. QED
      BY <3>4 DEF KV!MapNext
  <2>3. CASE UNCHANGED vars
    <3>1. nodes' = nodes /\ kvs' = kvs /\ root' = root /\ op' = op
      BY ONLY <2>3 DEF vars
    <3>2. \A k \in Keys : Search(k)' = Search(k)
      BY ONLY <3>1 DEF Search, SearchSlot, PrefixMatches
    <3>3. map' = map
      BY <3>2
    <3>4. req' = req
      BY ONLY <3>1
    <3>5. UNCHANGED KV!mapVars
      BY ONLY <3>3, <3>4 DEF KV!mapVars
    <3>6. QED
      BY ONLY <3>5
  <2>4. ASSUME NEW k \in Keys, NEW v \in Values, Begin(k, v)
        PROVE  KV!MapNext
    <3>1. map' = map
      <4>1. UNCHANGED <<nodes, kvs, root>>
        BY <2>4 DEF Begin
      <4>2. QED
        BY ONLY <4>1 DEF Search, SearchSlot, PrefixMatches
    <3>2. req = [busy |-> FALSE] /\ req' = [busy |-> TRUE, key |-> k, val |-> v]
      BY <2>4 DEF Begin, InsertOp, IdleOp
    <3>3. KV!Request(k, v)
      BY <3>1, <3>2 DEF KV!Request, KV!Idle, KV!Pending
    <3>4. QED
      BY <3>3 DEF KV!MapNext
  <2>5. CASE AssignPrefix
    <3>1. map' = map
      BY <2>1, <2>5, AssignPrefixKeeps
    <3>2. req' = req
      BY <2>5 DEF AssignPrefix
    <3>3. QED
      BY <3>1, <3>2 DEF KV!mapVars
  <2>6. CASE Descend
    <3>1. map' = map
      <4>1. UNCHANGED <<nodes, kvs, root>>
        BY <2>6 DEF Descend
      <4>2. QED
        BY ONLY <4>1 DEF Search, SearchSlot, PrefixMatches
    <3>2. req' = req
      <4>1. op # IdleOp
        BY <2>6 DEF Descend, Above, AtSlot, Inserting, IdleOp
      <4>2. op'.key = op.key /\ op'.val = op.val /\ op'.pc = "insert"
        <5>1. op \in [pc : {"insert"}, key : Keys, val : Values, node : 1..Len(nodes), pos : {0, 1}]
          BY <4>1 DEF TreeInv, TreeTypeOK
        <5>2. PICK n, p : op' = [[op EXCEPT !.node = n] EXCEPT !.pos = p]
          BY <2>6 DEF Descend
        <5>3. QED
          BY ONLY <5>1, <5>2
      <4>3. QED
        BY <4>1, <4>2 DEF IdleOp
    <3>3. QED
      BY <3>1, <3>2 DEF KV!mapVars
  <2>7. CASE PutLeaf
    BY <2>2, <2>7, PutLeafBinds, PutLeafDoes
  <2>8. CASE PutKeyValue
    BY <2>2, <2>8, PutKeyValueBinds, PutKeyValueDoes
  <2>9. CASE UpdateKeyValue
    BY <2>2, <2>9, UpdateKeyValueBinds, UpdateKeyValueDoes
  <2>10. CASE MakeChild
    BY <2>2, <2>10, MakeChildBinds, MakeChildFacts
  <2>11. CASE SplitPrefix
    BY <2>2, <2>11, SplitPrefixBinds, SplitPrefixFacts
  <2>12. QED
    BY <2>3, <2>4, <2>5, <2>6, <2>7, <2>8, <2>9, <2>10, <2>11 DEF Next
<1>3. QED
  BY <1>1, <1>2, SearchIsBound, TreeInvariant, PTL DEF Spec, ImplementsMap, KV!MapSpec
=============================================================================
