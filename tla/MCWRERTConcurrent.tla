------------------------- MODULE MCWRERTConcurrent --------------------------
(***************************************************************************)
(* WRERTConcurrent on a small instance; sub-keys are given as numbers.     *)
(***************************************************************************)
EXTENDS WRERTConcurrent

Sub(n) == [i \in 1..W |-> (n \div 2^(W - i)) % 2]

\* After the load the node has depth 2.  14 and 15 collide with 12 and 13 at
\* that depth, so the insert of one doubles the directory, and then has a free
\* slot of the new segment, which both want; 36 collides with 32 and 33, whose
\* segment has depth 1, so its insert splits the segment in place and 48 moves
\* to a new one; 4 and 5 want the same free slot.
LoadOrder == <<48, 12, 13, 0, 8, 32, 33>>
SubKeys == {Sub(n) : n \in {48, 12, 13, 0, 8, 32, 33, 14, 15, 36, 4, 5}}

\* The load is made by one call after another.  The other calls insert its
\* first sub-key again or those it leaves out, or search for two of these.
LoadedFirst ==
    \A t \in Threads : th[t] # Idle =>
        \/ /\ th[t].val \in DOMAIN LoadOrder
           /\ th[t].kind = "insert"
           /\ th[t].key = Sub(LoadOrder[th[t].val])
           /\ calls = th[t].val
        \/ /\ th[t].val \notin DOMAIN LoadOrder
           /\ th[t].kind = "insert"
           /\ \A i \in 2..Len(LoadOrder) : th[t].key # Sub(LoadOrder[i])
        \/ /\ th[t].val \notin DOMAIN LoadOrder
           /\ th[t].kind = "search"
           /\ th[t].key \in {Sub(48), Sub(14)}
=============================================================================
