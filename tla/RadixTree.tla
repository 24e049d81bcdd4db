----------------------------- MODULE RadixTree ------------------------------
(***************************************************************************)
(* What the radix trees of src/wort and src/woart have in common: keys cut *)
(* into digits, path compression, pointers tagged as leaves, and a put     *)
(* that walks down as calls of recursive_insert.  The two files repeat the *)
(* same functions; WORT has digits of 4 bits and WOART of 8.               *)
(***************************************************************************)
EXTENDS PMem, KeyDigits, Functions

CONSTANTS Values, None

VARIABLE op            \* the put in progress: where recursive_insert is

treeVars == <<mem, unflushed, crashes, op>>

-----------------------------------------------------------------------------
(* Locations and what they hold.                                           *)

Root == <<"root">>
HeaderOf(i) == <<"header", i>>
ValueOf(k) == <<"value", k>>

FreshNode == CHOOSE i \in 1..Cardinality(DOMAIN mem) :
                 /\ HeaderOf(i) \notin DOMAIN mem
                 /\ \A j \in 1..i - 1 : HeaderOf(j) \in DOMAIN mem

NewLeaf == ValueOf(op.key) :> op.val

-----------------------------------------------------------------------------
(* Prefixes.                                                               *)

\* How many of the digits that a header keeps the key has.
check_prefix(header, key, depth) ==
    LET max_cmp == Least(Least(header.len, MaxPrefix), Height - depth)
    IN  Min({max_cmp} \union
            {i \in 0..max_cmp - 1 : header.prefix[i + 1] # get_index(key, depth + i)})

\* Where the key leaves the prefix of the node at a location; minimum(at) is
\* the key of a leaf below it, for the digits that the header does not keep.
prefix_mismatch(minimum(_), at, key, depth) ==
    LET header == mem[HeaderOf(mem[at][2])]
        kept == check_prefix(header, key, depth)
    IN  IF kept = Least(header.len, MaxPrefix) /\ header.len > MaxPrefix
        THEN longest_common_prefix(minimum(at), key, depth)
        ELSE kept

-----------------------------------------------------------------------------
(* A put.                                                                  *)

Idle == [phase |-> "idle"]
Walking == op.phase = "walk" /\ unflushed = <<>>

\* recursive_insert(*ref, ref, key, ..., depth)
At(ref, depth) == op' = [op EXCEPT !.ref = ref, !.depth = depth]
Done == op' = [op EXCEPT !.phase = "done"]

n == mem[op.ref]
AtNode == Walking /\ IsNode(n)
Header == mem[HeaderOf(n[2])]
AtRightDepth == AtNode /\ Header.depth = op.depth

\* The depth behind the node's prefix.
Below == op.depth + Header.len

Begin(k, v, old) == /\ op.phase = "idle"
                    /\ op' = [phase |-> "walk", key |-> k, val |-> v, old |-> old,
                              ref |-> Root, depth |-> 0]
                    /\ UNCHANGED <<mem, unflushed, crashes>>

InjectLeaf == /\ Walking /\ n = Null
              /\ StoreAfter(NewLeaf, op.ref :> Leaf(op.key))
              /\ Done

UpdateLeaf == /\ Walking /\ n = Leaf(op.key)
              /\ Store(NewLeaf)
              /\ Done

\* A leaf makes way for a node with it and the new leaf as children.
\* NewNode(i, header, first, second): node i with two children, in the order
\* in which they are added, each a pair of digit and pointer.
SplitLeafInto(NewNode(_, _, _, _)) ==
    /\ Walking /\ IsLeaf(n) /\ n # Leaf(op.key)
    /\ LET len == longest_common_prefix(n[2], op.key, op.depth)
           header == [depth |-> op.depth, len |-> len,
                      prefix |-> Digits(op.key, op.depth, Least(MaxPrefix, len))]
           child(k) == <<get_index(k, op.depth + len), Leaf(k)>>
       IN  StoreAfter(NewLeaf @@ NewNode(FreshNode, header, child(n[2]), child(op.key)),
                      op.ref :> Node(FreshNode))
    /\ Done

\* The depth at which the old node starts when its prefix is split at diff.
\* (Slip: it stays.)
temp_depth_Stays(diff) == op.depth
temp_depth(diff) == op.depth + diff + 1

\* A new node takes the node's place, with it and the new leaf as children;
\* the old node starts behind the digit where they part.
SplitPrefixInto(NewNode(_, _, _, _), minimum(_)) ==
    /\ AtRightDepth
    /\ prefix_mismatch(minimum, op.ref, op.key, op.depth) < Header.len
    /\ LET diff == prefix_mismatch(minimum, op.ref, op.key, op.depth)
           short == Header.len <= MaxPrefix
           l == minimum(op.ref)
           part == IF short THEN Header.prefix[diff + 1] ELSE get_index(l, op.depth + diff)
           above == [depth |-> op.depth, len |-> diff,
                     prefix |-> SubSeq(Header.prefix, 1, Least(MaxPrefix, diff))]
           rest == Header.len - (diff + 1)
           temp_path == [depth |-> temp_depth(diff), len |-> rest,
                         prefix |-> IF short THEN SubSeq(Header.prefix, diff + 2, Header.len)
                                    ELSE Digits(l, op.depth + diff + 1, Least(MaxPrefix, rest))]
           leaf == <<get_index(op.key, op.depth + diff), Leaf(op.key)>>
       IN  StoreAfter(NewLeaf @@ NewNode(FreshNode, above, <<part, n>>, leaf),
                      (op.ref :> Node(FreshNode)) @@ (HeaderOf(n[2]) :> temp_path))
    /\ Done

\* The fence behind the last stores; the call returns when they were its last.
Fence == /\ unflushed # <<>>
         /\ Flush
         /\ op' = IF op.phase = "done" THEN Idle ELSE op

\* The power fails during a put; what no pointer of the survivors leads to is
\* dropped.
PowerFailsTo(m) == /\ op # Idle /\ crashes < MaxCrashes
                   /\ mem' = m
                   /\ unflushed' = <<>>
                   /\ crashes' = crashes + 1
                   /\ op' = Idle

Init == /\ mem = Root :> Null
        /\ unflushed = <<>>
        /\ crashes = 0
        /\ op = Idle

\* The request of the abstract map.
Call == IF op = Idle THEN [busy |-> FALSE]
                     ELSE [busy |-> TRUE, key |-> op.key, val |-> op.val, old |-> op.old]
=============================================================================
