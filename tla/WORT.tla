-------------------------------- MODULE WORT --------------------------------
(***************************************************************************)
(* The write-optimal radix tree of src/wort/wort.cpp: a radix tree with    *)
(* path compression whose header, one word, says at what depth its node    *)
(* starts and what prefix the keys below it share.  A prefix split writes  *)
(* two words, the pointer to the new parent and the header of the old      *)
(* node, in one fence: a power failure may keep either.  The header's      *)
(* depth tells that one was lost, a search works round it and the next     *)
(* insert that meets it repairs it.                                        *)
(*                                                                         *)
(* wort_put runs as the calls of recursive_insert it makes, each up to the *)
(* stores it makes before a fence.  After a failure the tree is found      *)
(* where it was and the allocator goes on behind it.                       *)
(***************************************************************************)
EXTENDS RadixTree

ChildOf(i, c) == <<"child", i, c>>

NewNode(i, header, first, second) ==
    (HeaderOf(i) :> header) @@
    [l \in {ChildOf(i, c) : c \in Entries} |->
        CASE l[3] = first[1] -> first[2] [] l[3] = second[1] -> second[2] [] OTHER -> Null]

Occupied(i) == {c \in Entries : mem[ChildOf(i, c)] # Null}

\* The key of the leftmost leaf below a location.
minimum(at) ==
    LET leftmost[l \in DOMAIN mem] ==
            IF IsLeaf(mem[l]) THEN mem[l][2]
            ELSE leftmost[ChildOf(mem[l][2], Min(Occupied(mem[l][2])))]
    IN  leftmost[at]

\* What the header of node i must be at this depth, from the first leaves of
\* its first two children.
old_path(i, depth) ==
    LET first == Min(Occupied(i))
        second == Min(Occupied(i) \ {first})
        k1 == minimum(ChildOf(i, first))
        k2 == minimum(ChildOf(i, second))
        len == longest_common_prefix(k1, k2, depth)
    IN  [depth |-> depth, len |-> len, prefix |-> Digits(k2, depth, Least(MaxPrefix, len))]

-----------------------------------------------------------------------------
(* Lookup.                                                                 *)

\* The header that a search goes by.  (Slip: the one it finds.)
Path_Stored(i, depth) == mem[HeaderOf(i)]
Path(i, depth) == LET stored == mem[HeaderOf(i)]
                  IN  IF stored.depth = depth THEN stored ELSE old_path(i, depth)

wort_get(key) ==
    LET search[l \in DOMAIN mem, depth \in 0..Height] ==
            LET p == mem[l]
                path == Path(p[2], depth)
                below == depth + path.len
                passed == check_prefix(path, key, depth) = Least(MaxPrefix, path.len)
            IN  CASE IsLeaf(p) -> IF p[2] = key THEN mem[ValueOf(key)] ELSE None
                  [] IsNode(p) /\ passed -> search[ChildOf(p[2], get_index(key, below)), below + 1]
                  [] OTHER -> None
    IN  search[Root, 0]

-----------------------------------------------------------------------------
(* wort_put.                                                               *)

PrefixPassed == AtRightDepth /\ prefix_mismatch(minimum, op.ref, op.key, op.depth) >= Header.len
NextChild == ChildOf(n[2], get_index(op.key, Below))

Put(k, v) == Begin(k, v, wort_get(k))

SplitLeaf == SplitLeafInto(NewNode)

\* recovery_prefix: the header of a node in the wrong place is made anew.
\* (Slip: but for its depth.)
RepairHeader_KeepsDepth ==
    /\ AtNode /\ ~AtRightDepth
    /\ Store(HeaderOf(n[2]) :> [old_path(n[2], op.depth) EXCEPT !.depth = Header.depth])
    /\ UNCHANGED op
RepairHeader == /\ AtNode /\ ~AtRightDepth
                /\ Store(HeaderOf(n[2]) :> old_path(n[2], op.depth))
                /\ UNCHANGED op

SplitPrefix == SplitPrefixInto(NewNode, minimum)

Descend == /\ PrefixPassed /\ mem[NextChild] # Null
           /\ At(NextChild, Below + 1)
           /\ UNCHANGED <<mem, unflushed, crashes>>

AddLeaf == /\ PrefixPassed /\ mem[NextChild] = Null
           /\ StoreAfter(NewLeaf, NextChild :> Leaf(op.key))
           /\ Done

Step == \/ InjectLeaf \/ UpdateLeaf \/ SplitLeaf \/ RepairHeader
        \/ SplitPrefix \/ Descend \/ AddLeaf \/ Fence

-----------------------------------------------------------------------------
(* Power failure.                                                          *)

Reached(m) ==
    LET from[l \in DOMAIN m] ==
            {l} \union CASE IsLeaf(m[l]) -> {ValueOf(m[l][2])}
                         [] IsNode(m[l]) -> {HeaderOf(m[l][2])} \union
                                UNION {from[ChildOf(m[l][2], c)] : c \in Entries}
                         [] OTHER -> {}
    IN  from[Root]

PowerFailure == \E m \in Survivors : PowerFailsTo(Restrict(m, Reached(m)))

Next == \/ \E k \in Keys, v \in Values : Put(k, v)
        \/ Step
        \/ PowerFailure

Spec == Init /\ [][Next]_treeVars /\ WF_treeVars(Step)

-----------------------------------------------------------------------------
(* What it promises.                                                       *)

\* The abstract map is what lookups answer.
Contents == [k \in Keys |-> wort_get(k)]

\* The nodes in use, each with the depth at which it starts.
Placed ==
    LET placed[l \in DOMAIN mem, depth \in 0..Height] ==
            LET i == mem[l][2]
                below == depth + old_path(i, depth).len
            IN  IF IsNode(mem[l])
                THEN {<<i, depth>>} \union
                     UNION {placed[ChildOf(i, c), below + 1] : c \in Entries}
                ELSE {}
    IN  placed[Root, 0]

\* A header that says the depth at which its node starts says its prefix too,
\* however failures have cut prefix splits and repairs short: the depth is
\* all that tells a search or an insert whether to trust the rest
\* (wort.cpp:169, 331).
HeadersTell == \A at \in Placed :
                   mem[HeaderOf(at[1])].depth = at[2] =>
                       mem[HeaderOf(at[1])] = old_path(at[1], at[2])
=============================================================================
