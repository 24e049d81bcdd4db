------------------------ MODULE WRERTConcurrentTree -------------------------
(***************************************************************************)
(* insert of the concurrent copy of WRERT (src/YCSB-C/wrert/wrert.cpp,     *)
(* cases 2.2.1 to 2.2.4) above the leaf level: the slots of the root hold, *)
(* for the upper half of a key, either a WRERTKeyValue or a node for all   *)
(* keys with that upper half.                                              *)
(*                                                                         *)
(* The root is one bucket with room for all upper halves, so that nothing  *)
(* splits, and a node below it is a map whose operations are one step:     *)
(* WRERTConcurrent is about both.  Directories and segments are locked to  *)
(* read only and left out; what remains is the lock of the bucket.         *)
(***************************************************************************)
EXTENDS Integers, Sequences, FiniteSets

CONSTANTS Uppers, Lowers,  \* the halves of keys
          Threads,         \* the threads that call insert
          MaxCalls,        \* bound: calls made, of which the n-th inserts value n
          None             \* no upper half, no value

VARIABLES slots,    \* the slots of the root
          kvs,      \* the WRERTKeyValues made so far
          maps,     \* the nodes made so far, as maps from lower halves
          writer,   \* the threads that hold the lock of the bucket to write
          th,       \* for each thread, its call and how far it is
          calls,    \* the number of calls made
          current   \* the values of the inserts that returned and that no later
                    \* one has replaced, for each key

vars == <<slots, kvs, maps, writer, th, calls, current>>

Keys == Uppers \X Lowers
Position == 1..Cardinality(Uppers)

\* The pointer of a slot leads to a WRERTKeyValue or to a node.
KV(i) == <<"kv", i>>
ToNode(m) == <<"node", m>>

FreeSlot == [valid |-> FALSE, upper |-> None, node |-> FALSE, to |-> None]
Idle == [pc |-> "idle"]

Init ==
    /\ slots = [j \in Position |-> FreeSlot]
    /\ kvs = <<>>
    /\ maps = <<>>
    /\ writer = {}
    /\ th = [t \in Threads |-> Idle]
    /\ calls = 0
    /\ current = [k \in Keys |-> {}]

Begin(t, k) ==
    /\ th[t] = Idle
    /\ calls < MaxCalls
    /\ calls' = calls + 1
    /\ th' = [th EXCEPT ![t] = [pc |-> "scan", key |-> k, val |-> calls + 1, at |-> 0, to |-> 0,
                                current |-> current[k]]]
    /\ UNCHANGED <<slots, kvs, maps, writer, current>>

Memory == UNCHANGED <<slots, kvs, maps>>
Other == UNCHANGED <<calls, current>>

\* The scan, under the lock of the bucket to read: the slot of the upper half,
\* or the first free one.
Scan(t) ==
    /\ th[t].pc = "scan"
    /\ writer = {}
    /\ LET mine == {j \in Position : slots[j].valid /\ slots[j].upper = th[t].key[1]}
           free == {j \in Position : ~slots[j].valid /\ \A i \in 1..j-1 : slots[i].valid}
       IN  \/ \E j \in mine : th' = [th EXCEPT ![t].pc = "found", ![t].at = j]
           \/ mine = {} /\ \E j \in free : th' = [th EXCEPT ![t].pc = "free", ![t].at = j]
    /\ Memory /\ UNCHANGED writer /\ Other

\* With the lock to write, the slot is looked at again, for another upper
\* half only.
LockBucket(t) ==
    /\ th[t].pc \in {"free", "differs"}
    /\ writer = {}
    /\ LET s == slots[th[t].at]
           taken == s.valid /\ s.upper # th[t].key[1]
       IN  /\ th' = [th EXCEPT ![t].pc = IF taken THEN "scan" ELSE IF @ = "free" THEN "put" ELSE "make"]
           /\ writer' = IF taken THEN {} ELSE {t}
    /\ Memory /\ Other

\* Case 2.2.1: the key goes to a WRERTKeyValue of its own, and that to the
\* slot; if the slot already has the upper half, its value only is written.
Put(t) ==
    /\ th[t].pc = "put"
    /\ kvs' = Append(kvs, [key |-> th[t].key, val |-> th[t].val])
    /\ slots' = [slots EXCEPT ![th[t].at] =
                    IF @.valid /\ @.upper = th[t].key[1] THEN [@ EXCEPT !.to = KV(Len(kvs) + 1)]
                    ELSE [valid |-> TRUE, upper |-> th[t].key[1], node |-> FALSE, to |-> KV(Len(kvs) + 1)]]
    /\ writer' = {}
    /\ th' = [th EXCEPT ![t].pc = "return"]
    /\ UNCHANGED maps /\ Other

\* The scan has unlocked the bucket: the nodeFlag is read, then the pointer.
ReadFlag(t) ==
    /\ th[t].pc = "found"
    /\ th' = [th EXCEPT ![t].pc = IF slots[th[t].at].node THEN "descend" ELSE "kv"]
    /\ Memory /\ UNCHANGED writer /\ Other

\* Case 2.2.2: the insert goes on in the node.  (A slot may say that it leads
\* to a node before it does: what an insert does to a WRERTKeyValue read as a
\* node is not modelled, nor the reverse.)
Descend(t) ==
    /\ th[t].pc = "descend"
    /\ \E m \in DOMAIN maps :
          /\ slots[th[t].at].to = ToNode(m)
          /\ maps' = [maps EXCEPT ![m][th[t].key[2]] = th[t].val]
    /\ th' = [th EXCEPT ![t].pc = "return"]
    /\ UNCHANGED <<slots, kvs, writer>> /\ Other

\* Cases 2.2.3 and 2.2.4 are told apart by the key of the WRERTKeyValue.
ReadKeyValue(t) ==
    /\ th[t].pc = "kv"
    /\ \E i \in DOMAIN kvs :
          /\ slots[th[t].at].to = KV(i)
          /\ th' = [th EXCEPT ![t].to = i,
                              ![t].pc = IF kvs[i].key = th[t].key THEN "update" ELSE "differs"]
    /\ Memory /\ UNCHANGED writer /\ Other

Update(t) ==
    /\ th[t].pc = "update"
    /\ kvs' = [kvs EXCEPT ![th[t].to].val = th[t].val]
    /\ th' = [th EXCEPT ![t].pc = "return"]
    /\ UNCHANGED <<slots, maps, writer>> /\ Other

\* Case 2.2.4: a node with both keys is made; the slot is told that it leads
\* to a node, and then which.
MakeNode(t) ==
    /\ th[t].pc = "make"
    /\ LET kv == kvs[th[t].to]
       IN  maps' = Append(maps, [l \in Lowers |-> IF l = th[t].key[2] THEN th[t].val
                                                 ELSE IF l = kv.key[2] THEN kv.val ELSE None])
    /\ slots' = [slots EXCEPT ![th[t].at].node = TRUE]
    /\ th' = [th EXCEPT ![t].pc = "link", ![t].to = Len(maps) + 1]
    /\ UNCHANGED <<kvs, writer>> /\ Other

LinkNode(t) ==
    /\ th[t].pc = "link"
    /\ slots' = [slots EXCEPT ![th[t].at].to = ToNode(th[t].to)]
    /\ writer' = {}
    /\ th' = [th EXCEPT ![t].pc = "return"]
    /\ UNCHANGED <<kvs, maps>> /\ Other

Return(t) ==
    /\ th[t].pc = "return"
    /\ th' = [th EXCEPT ![t] = Idle]
    /\ current' = [current EXCEPT ![th[t].key] = (@ \ th[t].current) \union {th[t].val}]
    /\ UNCHANGED <<slots, kvs, maps, writer, calls>>

Next == \/ \E t \in Threads, k \in Keys : Begin(t, k)
        \/ \E t \in Threads :
              \/ Scan(t) \/ LockBucket(t) \/ Put(t)
              \/ ReadFlag(t) \/ Descend(t)
              \/ ReadKeyValue(t) \/ Update(t) \/ MakeNode(t) \/ LinkNode(t)
              \/ Return(t)

Spec == Init /\ [][Next]_vars

-----------------------------------------------------------------------------
(* Property.                                                               *)

\* What a search returns for k while no insert is under way.
Lookup(k) ==
    IF \E j \in Position : slots[j].valid /\ slots[j].upper = k[1]
    THEN LET s == slots[CHOOSE j \in Position : slots[j].valid /\ slots[j].upper = k[1]]
         IN  IF s.node THEN maps[s.to[2]][k[2]]
             ELSE IF kvs[s.to[2]].key = k THEN kvs[s.to[2]].val ELSE None
    ELSE None

\* When all inserts have returned Success, every key is there, with the value
\* of an insert that no later one replaced.
NoLostInsert ==
    (\A t \in Threads : th[t] = Idle) =>
        \A k \in Keys : IF current[k] = {} THEN Lookup(k) = None ELSE Lookup(k) \in current[k]
=============================================================================
