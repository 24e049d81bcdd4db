------------------------------- MODULE ROART --------------------------------
(***************************************************************************)
(* The adaptive radix tree of src/YCSB-C/roart as its threads use it:      *)
(* writers walk down without locks, remember the version of the node they  *)
(* are at and lock it only if it has not changed since; a node that grows  *)
(* or gets a new parent has the pointer in its parent replaced under the   *)
(* parent's lock; readers take no locks and rely on the level that every   *)
(* node keeps for good.  A writer that finds a prefix that does not fit    *)
(* the depth at which it arrived takes it for what a crash left behind and *)
(* makes it fit.                                                           *)
(*                                                                         *)
(* A step reads or writes one word that other threads see; a lock that is  *)
(* taken and given back around one store is one step with it.  Leaves hold *)
(* keys only.  remove is not modelled: the benchmarks never call it, and   *)
(* without it a node has no holes.                                         *)
(***************************************************************************)
EXTENDS KeyDigits, Functions, FiniteSets, TLC

CONSTANTS Writers, Readers,
          Caps   \* children of N4, N16, N48 and N256

VARIABLES mem,       \* the nodes, by number
          op,        \* what each thread is doing
          acked      \* the keys whose put has returned

roartVars == <<mem, op, acked>>

Threads == Writers \union Readers

-----------------------------------------------------------------------------
(* Nodes.                                                                  *)

Root == 0
NewNode(type, level, prefix, len, kids) ==
    [type |-> type, level |-> level, prefix |-> SubSeq(prefix, 1, Least(len, MaxPrefix)),
     len |-> len, kids |-> kids, obsolete |-> FALSE]
Fresh == Cardinality(DOMAIN mem)

getChild(i, c) == IF c \in DOMAIN mem[i].kids THEN mem[i].kids[c] ELSE Null
Full(i) == Cardinality(DOMAIN mem[i].kids) = Caps[mem[i].type]

\* N::change and insert: the node with a child for a digit.
With(i, c, p) == [mem[i] EXCEPT !.kids = (c :> p) @@ @]

\* The key of some leaf below a node; they agree on the digits above it.
getAnyChildTid(i) ==
    LET any[j \in DOMAIN mem] ==
            LET kids == Range(mem[j].kids)
                leaves == {p \in kids : IsLeaf(p)}
            IN  IF leaves # {} THEN (CHOOSE p \in leaves : TRUE)[2]
                ELSE any[(CHOOSE p \in kids : TRUE)[2]]
    IN  any[i]

-----------------------------------------------------------------------------
(* Versions and locks.  A version is remembered as whether the node still  *)
(* has it: that is all lockVersionOrRestart asks.                          *)

Idle == [pc |-> "idle"]

Walk(key) == [pc |-> "version", key |-> key, parent |-> Root, parentKey |-> 0, node |-> Root,
              level |-> 0, v |-> FALSE, prefix |-> <<>>, len |-> 0]
Restart(t) == op' = [op EXCEPT ![t] = Walk(op[t].key)]
Become(t, o) == op' = [op EXCEPT ![t] = o]

\* Thread t goes on as o; it has locked the nodes, so their versions changed.
BecomeHaving(t, o, nodes) ==
    op' = [s \in Threads |->
              CASE s = t -> o
                [] s # t /\ s \in Writers /\ op[s] # Idle /\ op[s].node \in nodes ->
                       [op[s] EXCEPT !.v = FALSE]
                [] OTHER -> op[s]]

Locked(i) == \E t \in Writers : op[t].pc \in {"grow", "link", "shorten"} /\ op[t].node = i
Free(i) == ~Locked(i) /\ ~mem[i].obsolete

-----------------------------------------------------------------------------
(* put.                                                                    *)

At(t, pc) == op[t].pc = pc
node(t) == mem[op[t].node]
nodeKey(t) == get_index(op[t].key, op[t].level)

Put(t, k) == /\ op[t] = Idle
             /\ Become(t, Walk(k))
             /\ UNCHANGED <<mem, acked>>

ReadVersion(t) == /\ At(t, "version")
                  /\ Become(t, [op[t] EXCEPT !.v = Free(op[t].node), !.pc = "prefix"])
                  /\ UNCHANGED <<mem, acked>>

\* The index in the prefix of the digit at a level.
Place(o, level) == level + o.len - mem[o.node].level

Digit(o, level) == IF Place(o, level) < MaxPrefix THEN o.prefix[Place(o, level) + 1]
                   ELSE get_index(getAnyChildTid(o.node), level)

Differing(o) == {l \in o.level..mem[o.node].level - 1 : Digit(o, l) # get_index(o.key, l)}

\* The prefix that a writer holds, compared with its key.
Compared(o) == IF Differing(o) = {}
               THEN [o EXCEPT !.pc = "child", !.level = mem[o.node].level, !.prefix = <<>>, !.len = 0]
               ELSE [o EXCEPT !.pc = "mismatch"]

ReadPrefix(t) ==
    /\ At(t, "prefix")
    /\ LET o == [op[t] EXCEPT !.prefix = node(t).prefix, !.len = node(t).len]
       IN  Become(t, IF o.len + o.level # node(t).level THEN [o EXCEPT !.pc = "suspect"]
                     ELSE Compared(o))
    /\ UNCHANGED <<mem, acked>>

\* It does not fit: rebuild it, if the node can be locked.
Rebuild(t) ==
    /\ At(t, "suspect") /\ Free(op[t].node)
    /\ LET len == node(t).level - op[t].level
           prefix == Digits(getAnyChildTid(op[t].node), op[t].level, Least(len, MaxPrefix))
           o == [op[t] EXCEPT !.prefix = prefix, !.len = len, !.v = FALSE]
       IN  /\ mem' = [mem EXCEPT ![op[t].node].prefix = prefix, ![op[t].node].len = len]
           /\ BecomeHaving(t, Compared(o), {op[t].node})
    /\ UNCHANGED acked

\* Somebody else is, or was, at the node: the lock fails.  A prefix that is
\* too short means that the tree has changed above.
LeaveAsItIs(t) ==
    /\ At(t, "suspect") /\ (~Free(op[t].node) \/ ~op[t].v)
    /\ IF op[t].len + op[t].level < node(t).level THEN Restart(t)
       ELSE Become(t, Compared(op[t]))
    /\ UNCHANGED <<mem, acked>>

ReadChild(t) ==
    /\ At(t, "child")
    /\ LET next == getChild(op[t].node, nodeKey(t))
       IN  Become(t, CASE next = Null -> [op[t] EXCEPT !.pc = "insert"]
                       [] IsLeaf(next) -> [op[t] EXCEPT !.pc = "leaf"]
                       [] IsNode(next) -> [Walk(op[t].key) EXCEPT
                              !.parent = op[t].node, !.parentKey = nodeKey(t),
                              !.node = next[2], !.level = op[t].level + 1])
    /\ UNCHANGED <<mem, acked>>

\* lockVersionOrRestart finds another version, or the lock taken.
Outdated(t) == /\ op[t].pc \in {"insert", "leaf", "mismatch"} /\ ~op[t].v
               /\ Restart(t)
               /\ UNCHANGED <<mem, acked>>

\* It finds the version it was given.  (Slip: it only waits for the lock.)
HasLocked_AnyVersion(t, pc) == At(t, pc) /\ Free(op[t].node)
HasLocked(t, pc) == At(t, pc) /\ op[t].v

Returns(t, nodes) == /\ BecomeHaving(t, Idle, nodes)
                     /\ acked' = acked \union {op[t].key}

Insert(t) == /\ HasLocked(t, "insert") /\ ~Full(op[t].node)
             /\ mem' = [mem EXCEPT ![op[t].node] = With(op[t].node, nodeKey(t), Leaf(op[t].key))]
             /\ Returns(t, {op[t].node})

\* A full node stays locked until its parent can be locked too.
LockToGrow(t) == /\ HasLocked(t, "insert") /\ Full(op[t].node)
                 /\ BecomeHaving(t, [op[t] EXCEPT !.pc = "grow"], {op[t].node})
                 /\ UNCHANGED <<mem, acked>>

Bigger(i, c, p) == [With(i, c, p) EXCEPT !.type = @ + 1]

Grow(t) ==
    /\ At(t, "grow") /\ Free(op[t].parent)
    /\ mem' = (Fresh :> Bigger(op[t].node, nodeKey(t), Leaf(op[t].key))) @@
              (op[t].parent :> With(op[t].parent, op[t].parentKey, Node(Fresh))) @@
              (op[t].node :> [node(t) EXCEPT !.obsolete = TRUE]) @@ mem
    /\ Returns(t, {op[t].node, op[t].parent})

UpdateLeaf(t) == /\ HasLocked(t, "leaf") /\ getChild(op[t].node, nodeKey(t)) = Leaf(op[t].key)
                 /\ Returns(t, {op[t].node})
                 /\ UNCHANGED mem

SplitLeaf(t) ==
    /\ HasLocked(t, "leaf") /\ getChild(op[t].node, nodeKey(t)) # Leaf(op[t].key)
    /\ LET k == getChild(op[t].node, nodeKey(t))[2]
           level == op[t].level + 1
           len == longest_common_prefix(k, op[t].key, level)
           kids == [c \in {get_index(k, level + len), get_index(op[t].key, level + len)} |->
                        Leaf(IF c = get_index(k, level + len) THEN k ELSE op[t].key)]
       IN  mem' = (Fresh :> NewNode(1, level + len, Digits(k, level, len), len, kids)) @@
                  (op[t].node :> With(op[t].node, nodeKey(t), Node(Fresh))) @@ mem
    /\ Returns(t, {op[t].node})

LockToSplit(t) == /\ HasLocked(t, "mismatch")
                  /\ BecomeHaving(t, [op[t] EXCEPT !.pc = "link"], {op[t].node})
                  /\ UNCHANGED <<mem, acked>>

nextLevel(t) == Min(Differing(op[t]))

\* The new parent comes in between under the old one's lock.
LinkParent(t) ==
    /\ At(t, "link") /\ Free(op[t].parent)
    /\ LET at == nextLevel(t)
           kids == (Digit(op[t], at) :> Node(op[t].node)) @@
                   (get_index(op[t].key, at) :> Leaf(op[t].key))
       IN  mem' = (Fresh :> NewNode(1, at, node(t).prefix, at - op[t].level, kids)) @@
                  (op[t].parent :> With(op[t].parent, op[t].parentKey, Node(Fresh))) @@ mem
    /\ BecomeHaving(t, [op[t] EXCEPT !.pc = "shorten"], {op[t].parent})
    /\ UNCHANGED acked

\* Then the node loses the digits its new parent took.
ShortenPrefix(t) ==
    /\ At(t, "shorten")
    /\ LET taken == nextLevel(t) - op[t].level + 1
           len == node(t).len - taken
           remaining == IF op[t].len > MaxPrefix
                        THEN Digits(getAnyChildTid(op[t].node), nextLevel(t) + 1, len)
                        ELSE SubSeq(op[t].prefix, taken + 1, op[t].len)
       IN  mem' = [mem EXCEPT ![op[t].node].len = len,
                              ![op[t].node].prefix = SubSeq(remaining, 1, Least(len, MaxPrefix))]
    /\ Returns(t, {op[t].node})

\* The parent itself was replaced: unlock the node and start again.
ParentObsolete(t) == /\ op[t].pc \in {"grow", "link"} /\ mem[op[t].parent].obsolete
                     /\ Restart(t)
                     /\ UNCHANGED <<mem, acked>>

-----------------------------------------------------------------------------
(* get.                                                                    *)

Get(t, k) == /\ op[t] = Idle
             /\ Become(t, [pc |-> "get", key |-> k, node |-> Root, level |-> 0,
                           optimistic |-> FALSE, owed |-> k \in acked])
             /\ UNCHANGED <<mem, acked>>

Answer(t, k) == Become(t, [pc |-> "answer", key |-> op[t].key, owed |-> op[t].owed, found |-> k])

\* mycheckPrefix
CheckPrefix(t) ==
    /\ At(t, "get")
    /\ LET to == node(t).level
           short == node(t).len + op[t].level < to
           place(l) == l + node(t).len - to
           kept == {l \in op[t].level..to - 1 : place(l) < Least(node(t).len, MaxPrefix)}
       IN  IF ~short /\ \E l \in kept : node(t).prefix[place(l) + 1] # get_index(op[t].key, l)
           THEN Answer(t, Null)
           ELSE Become(t, [op[t] EXCEPT !.pc = "getChild", !.level = to,
                                        !.optimistic = @ \/ short \/ node(t).len > MaxPrefix])
    /\ UNCHANGED <<mem, acked>>

GetChild(t) ==
    /\ At(t, "getChild")
    /\ LET next == getChild(op[t].node, nodeKey(t))
           checked == op[t].level < Height - 1 \/ op[t].optimistic
       IN  IF IsNode(next)
           THEN Become(t, [op[t] EXCEPT !.pc = "get", !.node = next[2], !.level = @ + 1])
           ELSE Answer(t, IF checked /\ next # Leaf(op[t].key) THEN Null ELSE next)
    /\ UNCHANGED <<mem, acked>>

Return(t) == /\ At(t, "answer")
             /\ Become(t, Idle)
             /\ UNCHANGED <<mem, acked>>

-----------------------------------------------------------------------------

Init == /\ mem = Root :> NewNode(4, 0, <<>>, 0, <<>>)
        /\ op = [t \in Threads |-> Idle]
        /\ acked = {}

Next == \/ \E t \in Writers :
              \/ \E k \in Keys : Put(t, k)
              \/ ReadVersion(t) \/ ReadPrefix(t) \/ Rebuild(t) \/ LeaveAsItIs(t) \/ ReadChild(t)
              \/ Outdated(t) \/ Insert(t) \/ LockToGrow(t) \/ Grow(t) \/ UpdateLeaf(t)
              \/ SplitLeaf(t) \/ LockToSplit(t) \/ LinkParent(t) \/ ShortenPrefix(t)
              \/ ParentObsolete(t)
        \/ \E t \in Readers :
              \/ \E k \in Keys : Get(t, k)
              \/ CheckPrefix(t) \/ GetChild(t) \/ Return(t)

Spec == Init /\ [][Next]_roartVars

-----------------------------------------------------------------------------
(* What it promises.                                                       *)

\* A get answers with the leaf of its key or with none, and not with none
\* when a put of the key had returned before it began.
AnswersRight == \A t \in Readers :
    At(t, "answer") => \/ op[t].found = Leaf(op[t].key)
                       \/ op[t].found = Null /\ ~op[t].owed
=============================================================================
