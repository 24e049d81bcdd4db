------------------------- MODULE WRERTTreeRecovery --------------------------
(***************************************************************************)
(* WRERTTree with its process killed at any point, and the walk over all   *)
(* nodes with which recoveryTree and recoveryAllNodes (src/wrert/wrert.cpp)*)
(* prepare the tree for a process that maps the pool elsewhere.            *)
(*                                                                         *)
(* What a killed process stored survives it, so a crash matters here       *)
(* between the stores of one insert to nodes in use: the header of the old *)
(* root in a prefix split, and the slot that is to lead to a new child.    *)
(* The stores inside a node and the relocation of its entries are in       *)
(* WRERTRecovery.  As there, lookups follow the recovery, and no inserts.  *)
(***************************************************************************)
EXTENDS WRERTTree, FiniteSets

VARIABLES todo,     \* the trees that the stores to come lead through
          walk,     \* "up", or how far the recovery has come
          acked,    \* the value of the last insert of each key that returned
          crash     \* what was going on at the crash

treeRecVars == <<nodes, kvs, root, op, todo, walk, acked, crash>>

Up == [phase |-> "up"]
NoCrash == [happened |-> FALSE]
Running == walk = Up /\ todo = <<>>

TreeRecInit ==
    /\ Init
    /\ todo = <<>>
    /\ walk = Up
    /\ acked = [k \in Keys |-> None]
    /\ crash = NoCrash

\* The steps of an insert that change what is in use by one store.
WholeStep ==
    /\ Running
    /\ \/ \E k \in Keys, v \in Values : Begin(k, v)
       \/ AssignPrefix \/ PutLeaf \/ PutKeyValue \/ Descend \/ UpdateKeyValue
    /\ acked' = IF op # IdleOp /\ op' = IdleOp THEN [acked EXCEPT ![op.key] = op.val] ELSE acked
    /\ UNCHANGED <<todo, walk, crash>>

\* A slot whose nodeFlag is set while its value is a WRERTKeyValue's address.
Flagged(i) == [kind |-> "flagged", at |-> i]

\* Case 2.2.4: the child is complete; the flag of the slot, then its value.
StartChild ==
    /\ Running
    /\ NeedsChild
    /\ LET all == Append(nodes, NewChild)
           with(entry) == [nodes |-> [all EXCEPT ![op.node].slots[SubKeyAt] = entry],
                           root |-> root]
       IN  /\ nodes' = all
           /\ todo' = << with(Flagged(node.slots[SubKeyAt].at)), with(Child(Len(all))) >>
    /\ op' = [op EXCEPT !.pc = "return"]
    /\ UNCHANGED <<kvs, root, walk, acked, crash>>

\* Case 3: the new root is complete; the header of the old one, field by
\* field, then the root pointer.
StartSplit ==
    /\ Running
    /\ PrefixFails
    /\ LET all == Append(nodes, NewTop)
           with(old, r) == [nodes |-> [all EXCEPT ![op.node] = old], root |-> r]
           shorter == [node EXCEPT !.prefixLength = 0]
       IN  /\ nodes' = all
           /\ todo' = << with(shorter, root), with([shorter EXCEPT !.depth = @ + 1], root),
                         with(Demoted(node), root), with(Demoted(node), Len(all)) >>
    /\ kvs' = Append(kvs, [key |-> op.key, val |-> op.val])
    /\ op' = [op EXCEPT !.pc = "return"]
    /\ UNCHANGED <<root, walk, acked, crash>>

DoStore ==
    /\ walk = Up /\ todo # <<>>
    /\ nodes' = Head(todo).nodes
    /\ root' = Head(todo).root
    /\ todo' = Tail(todo)
    /\ op' = [op EXCEPT !.pc = "stored"]
    /\ UNCHANGED <<kvs, walk, acked, crash>>

ReturnStored ==
    /\ Running
    /\ op.pc = "stored"
    /\ acked' = [acked EXCEPT ![op.key] = op.val]
    /\ Return
    /\ UNCHANGED <<nodes, kvs, root, todo, walk, crash>>

-----------------------------------------------------------------------------
(* The crash and the recovery.                                             *)

\* A node still to be visited, the number of sub-keys above it and the depth
\* its header should have.
Visit(n, pos, depth) == [n |-> n, pos |-> pos, depth |-> depth]

\* moved counts, for each slot, how often its value has been relocated.
Crash ==
    /\ walk = Up
    /\ walk' = [phase |-> "walking", visits |-> {Visit(root, 0, 0)},
                moved |-> [at \in (1..Len(nodes)) \X SubKeys |-> 0]]
    /\ crash' = [happened |-> TRUE, op |-> op, between |-> op.pc = "stored" /\ todo # <<>>]
    /\ op' = IdleOp
    /\ todo' = <<>>
    /\ UNCHANGED <<nodes, kvs, root, acked>>

\* What the level of a node's slots is taken to be: the code's position.
\* (Slip: the prefix is not counted.)
SlotLevel_SkipsPrefix(visit) == visit.pos + 1
SlotLevel(visit) == visit.pos + nodes[visit.n].prefixLength + 1

Used(n) == {s \in SubKeys : nodes[n].slots[s] # Nothing}
OfKind(n, kind) == {s \in SubKeys : nodes[n].slots[s].kind = kind}

\* Above the last level every value in a slot is taken for an address: that
\* of a node if nodeFlag is set, otherwise that of a WRERTKeyValue, of which
\* the first two are read.
Misread(n) == OfKind(n, "value") \union OfKind(n, "flagged") # {}

\* The header is repaired if its depth is wrong and two keys have been read,
\* to the prefix they share.
Repaired(n, depth, k, l) ==
    LET common == depth = 0 /\ k[1] = l[1]
    IN  [nodes[n] EXCEPT !.depth = depth,
                         !.prefixLength = IF common THEN 1 ELSE 0,
                         !.prefix = IF common THEN l[1] ELSE @]
KeysRead(n) == {kvs[nodes[n].slots[s].at].key : s \in OfKind(n, "kv")}

\* The turn of a node: above the last level its slots are relocated, its
\* children are to be visited, and its header is looked at.
VisitAbove(visit) ==
    LET n == visit.n
        level == SlotLevel(visit)
        below == {Visit(nodes[n].slots[s].at, level, visit.depth + nodes[n].prefixLength + 1) :
                      s \in OfKind(n, "node")}
        read == KeysRead(n)
    IN  /\ level # 2
        /\ ~Misread(n)
        /\ walk' = [walk EXCEPT !.visits = (@ \ {visit}) \union below,
                                !.moved = [at \in DOMAIN @ |->
                                    IF at[1] = n /\ at[2] \in Used(n) THEN @[at] + 1 ELSE @[at]]]
        /\ IF nodes[n].depth # visit.depth /\ Cardinality(read) > 1
           THEN \E k \in read : \E l \in read \ {k} :
                    nodes' = [nodes EXCEPT ![n] = Repaired(n, visit.depth, k, l)]
           ELSE UNCHANGED nodes

VisitLast(visit) ==
    /\ SlotLevel(visit) = 2
    /\ walk' = [walk EXCEPT !.visits = @ \ {visit}]
    /\ UNCHANGED nodes

\* Nothing is said of what follows the use of a value as an address.
VisitMisreads(visit) ==
    /\ SlotLevel(visit) # 2
    /\ Misread(visit.n)
    /\ walk' = [phase |-> "misread"]
    /\ UNCHANGED nodes

VisitNode ==
    /\ walk.phase = "walking"
    /\ \E visit \in walk.visits : VisitAbove(visit) \/ VisitLast(visit) \/ VisitMisreads(visit)
    /\ UNCHANGED <<kvs, root, op, todo, acked, crash>>

Recovered ==
    /\ walk.phase = "walking"
    /\ walk.visits = {}
    /\ walk' = [phase |-> "recovered", moved |-> walk.moved]
    /\ UNCHANGED <<nodes, kvs, root, op, todo, acked, crash>>

Over == walk.phase \in {"recovered", "misread"} /\ UNCHANGED treeRecVars

TreeRecNext == \/ WholeStep \/ StartChild \/ StartSplit \/ DoStore \/ ReturnStored
               \/ Crash \/ VisitNode \/ Recovered \/ Over

TreeRecSpec == TreeRecInit /\ [][TreeRecNext]_treeRecVars

-----------------------------------------------------------------------------
(* Properties.                                                             *)

\* The slots whose values lookups follow as addresses.
Followed ==
    {at \in (1..Len(nodes)) \X SubKeys :
        /\ nodes[at[1]].slots[at[2]].kind \in {"kv", "node"}
        /\ at[1] = root \/ \E s \in SubKeys : nodes[root].slots[s] = Child(at[1])}

\* What the insert that the crash cut off may have left for k.
CutOff(k) == IF crash.op # IdleOp /\ crash.op.key = k THEN {crash.op.val} ELSE {}

\* Unless the crash fell between the stores of a prefix split or of a slot
\* that gets a child, the recovery reaches its end, every address a lookup
\* follows has been relocated, once, and every insert that returned is found;
\* the one that was cut off has taken effect or has not.
TreeRecovers ==
    walk.phase \in {"misread", "recovered"} /\ ~crash.between =>
        /\ walk.phase = "recovered"
        /\ \A at \in Followed : walk.moved[at] = 1
        /\ \A k \in Keys : Search(k) \in {acked[k]} \union CutOff(k)

\* The recovery takes nothing for an address that is none: its repair of
\* headers (wrert.cpp:1030) is there for a crash inside a prefix split.
NothingMisread == walk.phase # "misread"
=============================================================================
