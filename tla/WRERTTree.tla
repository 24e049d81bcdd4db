----------------------------- MODULE WRERTTree ------------------------------
(***************************************************************************)
(* The radix tree of WRERT::insert and WRERT::search (src/wrert/wrert.cpp) *)
(* over its nodes.  A 64-bit key is two 32-bit sub-keys.  The root starts  *)
(* with no prefix; the first insert compresses the path to its upper       *)
(* sub-key; a key with another one splits the prefix off; two keys that    *)
(* share it get a child node.  Inside a node, module WRERTNode shows that  *)
(* the slots are a map from sub-keys to values, which is all this module   *)
(* says of them.                                                           *)
(***************************************************************************)
EXTENDS Integers, Sequences

CONSTANTS SubKeys,      \* the 32-bit halves of keys
          Keys,         \* the keys callers use
          Values,       \* the values they store, below 2^48: a slot keeps 48 bits
          None          \* "not found"

ASSUME TreeAssumption == /\ Keys \subseteq SubKeys \X SubKeys
                         /\ None \notin SubKeys \union Values

VARIABLES nodes,        \* the nodes allocated so far
          kvs,          \* the WRERTKeyValues allocated so far
          root,         \* the tree's root pointer
          op            \* the insert in progress

vars == <<nodes, kvs, root, op>>

-----------------------------------------------------------------------------
\* prefixLength counts sub-keys; Unset (6 in the code) is a prefix not yet
\* assigned.  depth is nodeHeaderDepth: how many sub-keys lie above the node.
Unset == 6

\* What a slot holds: a value, a WRERTKeyValue or, nodeFlag set, a child.
Nothing == [kind |-> "nothing"]
LeafValue(v) == [kind |-> "value", val |-> v]
KeyValue(i) == [kind |-> "kv", at |-> i]
Child(n) == [kind |-> "node", at |-> n]

\* NewWRERTNode, and what header.initialize makes of it.
NoSlots == [s \in SubKeys |-> Nothing]
NewNode == [depth |-> 0, prefixLength |-> Unset, prefix |-> None, slots |-> NoSlots]
NodeAt(depth) == [NewNode EXCEPT !.depth = depth, !.prefixLength = 0]

\* pos counts the sub-keys consumed (currentKeyPosition / 4).
IdleOp == [pc |-> "idle"]
InsertOp(k, v) == [pc |-> "insert", key |-> k, val |-> v, node |-> root, pos |-> 0]

node == nodes[op.node]
SubKeyAt == op.key[op.pos + node.prefixLength + 1]

\* computePrefix, on a prefix that is assigned, compares bits that start
\* 4 * pos bytes into the key where 8 * pos are meant: at pos 0 there is no
\* difference, and HeaderTellsPlace says that there is no other.
PrefixMatches(n, k, pos) == n.prefixLength = 0 \/ k[pos + 1] = n.prefix

Put(n, s, entry) == [nodes EXCEPT ![n].slots[s] = entry]
Return == op' = IdleOp

-----------------------------------------------------------------------------
Init == /\ nodes = <<NewNode>>
        /\ kvs = <<>>
        /\ root = 1
        /\ op = IdleOp

Begin(k, v) == /\ op = IdleOp
               /\ op' = InsertOp(k, v)
               /\ UNCHANGED <<nodes, kvs, root>>

Inserting == op.pc = "insert" /\ op.pos < 2

\* Case 0: the first key gives the root its prefix, and the loop goes round.
AssignPrefix ==
    /\ Inserting
    /\ node.prefixLength = Unset
    /\ nodes' = [nodes EXCEPT ![op.node] = [@ EXCEPT !.prefixLength = 1,
                                                     !.prefix = op.key[op.pos + 1]]]
    /\ UNCHANGED <<kvs, root, op>>

\* Case 2: the prefix matches and the slot of the next sub-key is looked up.
\* (Case 1, arrayMatchLength reaching the key's end, is dead: computePrefix
\* increments the pointer it is passed, never the length.)
AtSlot == /\ Inserting
          /\ node.prefixLength # Unset
          /\ PrefixMatches(node, op.key, op.pos)
AtLeaf == AtSlot /\ op.pos + node.prefixLength + 1 = 2

\* (Slip: the prefix does not advance the position.)
Above_SkipsPrefix == AtSlot /\ op.pos + 1 < 2
Above == AtSlot /\ op.pos + node.prefixLength + 1 < 2

\* Cases 2.1.1 and 2.1.2.
PutLeaf ==
    /\ AtLeaf
    /\ nodes' = Put(op.node, SubKeyAt, LeafValue(op.val))
    /\ Return
    /\ UNCHANGED <<kvs, root>>

\* Case 2.2.1.
PutKeyValue ==
    /\ Above
    /\ node.slots[SubKeyAt] = Nothing
    /\ kvs' = Append(kvs, [key |-> op.key, val |-> op.val])
    /\ nodes' = Put(op.node, SubKeyAt, KeyValue(Len(kvs) + 1))
    /\ Return
    /\ UNCHANGED root

\* Case 2.2.2.
Descend ==
    /\ Above
    /\ node.slots[SubKeyAt].kind = "node"
    /\ op' = [op EXCEPT !.node = node.slots[SubKeyAt].at, !.pos = op.pos + node.prefixLength + 1]
    /\ UNCHANGED <<nodes, kvs, root>>

\* Case 2.2.3.  (Slip: the keys are not compared.)
UpdateKeyValue_AnyKey ==
    /\ Above
    /\ node.slots[SubKeyAt].kind = "kv"
    /\ kvs' = [kvs EXCEPT ![node.slots[SubKeyAt].at].val = op.val]
    /\ Return
    /\ UNCHANGED <<nodes, root>>
UpdateKeyValue ==
    /\ Above
    /\ node.slots[SubKeyAt].kind = "kv"
    /\ kvs[node.slots[SubKeyAt].at].key = op.key
    /\ kvs' = [kvs EXCEPT ![node.slots[SubKeyAt].at].val = op.val]
    /\ Return
    /\ UNCHANGED <<nodes, root>>

\* Case 2.2.4: a child takes both keys, by two nested inserts that start at
\* the child and end in its leaf slots; then the slot points at the child.
\* The WRERTKeyValue is left behind.
NeedsChild == /\ Above
              /\ node.slots[SubKeyAt].kind = "kv"
              /\ kvs[node.slots[SubKeyAt].at].key # op.key
NewChild ==
    LET kv == kvs[node.slots[SubKeyAt].at]
        pos == op.pos + node.prefixLength + 1
    IN  [NodeAt(pos) EXCEPT !.slots[kv.key[pos + 1]] = LeafValue(kv.val),
                            !.slots[op.key[pos + 1]] = LeafValue(op.val)]
MakeChild ==
    /\ NeedsChild
    /\ nodes' = Append(Put(op.node, SubKeyAt, Child(Len(nodes) + 1)), NewChild)
    /\ Return
    /\ UNCHANGED <<kvs, root>>

\* Case 3: the prefix, one sub-key long, does not match.  A new root without
\* a prefix holds the key and, under the old prefix, the old node, whose
\* header loses the prefix and moves one level down.  (Slip: the header keeps its
\* depth.)
PrefixFails == /\ Inserting
               /\ node.prefixLength \notin {0, Unset}
               /\ ~PrefixMatches(node, op.key, op.pos)
NewTop == [NodeAt(node.depth) EXCEPT !.slots[op.key[op.pos + 1]] = KeyValue(Len(kvs) + 1),
                                     !.slots[node.prefix] = Child(op.node)]
Demoted_KeepsDepth(n) == [n EXCEPT !.prefixLength = 0, !.prefix = None]
Demoted(n) == [n EXCEPT !.prefixLength = 0, !.prefix = None, !.depth = @ + 1]
SplitPrefix ==
    /\ PrefixFails
    /\ nodes' = Append([nodes EXCEPT ![op.node] = Demoted(@)], NewTop)
    /\ kvs' = Append(kvs, [key |-> op.key, val |-> op.val])
    /\ root' = Len(nodes) + 1
    /\ Return

Next == \/ \E k \in Keys, v \in Values : Begin(k, v)
        \/ AssignPrefix
        \/ PutLeaf \/ PutKeyValue \/ Descend \/ UpdateKeyValue \/ MakeChild
        \/ SplitPrefix

Spec == Init /\ [][Next]_vars

-----------------------------------------------------------------------------
\* search: at most one step down, since a key has two sub-keys.  When the root
\* has a prefix the code reads arrayMatchLength, which nothing has written:
\* if it reads as 1..4 the search follows the null globalSegmentPtr and does
\* not return, and with any other value it is this.
SearchSlot(n, s, k) ==
    LET slot == nodes[n].slots[s]
    IN  CASE slot.kind = "value" -> slot.val
          [] slot.kind = "kv" -> IF kvs[slot.at].key = k THEN kvs[slot.at].val ELSE None
          [] OTHER -> None
Search(k) ==
    LET top == nodes[root]
    IN  IF top.prefixLength = Unset \/ ~PrefixMatches(top, k, 0) THEN None
        ELSE LET s == k[top.prefixLength + 1]
             IN  IF top.slots[s].kind = "node" THEN SearchSlot(top.slots[s].at, k[2], k)
                 ELSE SearchSlot(root, s, k)

-----------------------------------------------------------------------------
\* Who points at node n.
Pointers(n) ==
    {at \in (1..Len(nodes)) \X SubKeys : nodes[at[1]].slots[at[2]] = Child(n)}

\* A header tells its node's place.  A node is pointed at from one place, which
\* nodeHeaderDepth tells: put, having replaced a node to double its directory,
\* stores the new pointer in the root if the depth is 0 and in the parent's
\* slot otherwise.  And only the root has a prefix, so computePrefix is asked
\* at position 0 only, where the start it is given in bits is right.
DepthTellsParent ==
    \A n \in 1..Len(nodes) :
        /\ (nodes[n].depth = 0) <=> (n = root)
        /\ n = root => Pointers(n) = {}
        /\ n # root => \E m \in 1..Len(nodes), s \in SubKeys :
                           Pointers(n) = {<<m, s>>} /\ nodes[m].depth + 1 = nodes[n].depth
PrefixAtRoot == \A n \in 1..Len(nodes) : nodes[n].prefixLength # 0 => n = root /\ nodes[n].depth = 0
HeaderTellsPlace == DepthTellsParent /\ PrefixAtRoot

\* A slot's entry belongs to its sub-key and level: values are in the last
\* level, and a WRERTKeyValue's key starts with the slot's sub-key.
SlotsMatchLevel ==
    \A n \in 1..Len(nodes) : \A s \in SubKeys :
        LET slot == nodes[n].slots[s]
            last == nodes[n].depth + nodes[n].prefixLength = 1
        IN  /\ slot.kind = "value" => last
            /\ slot.kind \in {"kv", "node"} => ~last
            /\ slot.kind = "kv" => kvs[slot.at].key[1] = s

\* The tree is a map: search finds each key's last value, through path
\* compression, prefix splits and new children, each of which changes no
\* other key's.
KV == INSTANCE KVMap WITH
        map <- [k \in Keys |-> Search(k)],
        req <- IF op = IdleOp THEN [busy |-> FALSE]
               ELSE [busy |-> TRUE, key |-> op.key, val |-> op.val]
ImplementsMap == KV!MapSpec
=============================================================================
