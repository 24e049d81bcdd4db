------------------------------ MODULE MCROART -------------------------------
(***************************************************************************)
(* Three writers at one compressed path: one splits its prefix, one        *)
(* updates a leaf below it, one splits it higher up.                       *)
(***************************************************************************)
EXTENDS ROART

CONSTANTS w1, w2, w3, r

\* N4 has room for two children here, the other nodes for all three digits.
SmallCaps == <<2, 3, 3, 3>>

\* After puts of 0 and 1, whose digits are 0000 and 0001.
Loaded == /\ mem = (Root :> NewNode(4, 0, <<>>, 0, 0 :> Node(1))) @@
                   (1 :> NewNode(1, 3, <<0, 0>>, 2, (0 :> Leaf(0)) @@ (1 :> Leaf(1))))
          /\ op = [t \in Threads |-> Idle]
          /\ acked = {0, 1}

LoadedSpec == Loaded /\ [][Next]_roartVars

\* Bounds: each writer has a key of its own, 0010, 0000 and 0100 in digits;
\* the reader asks for the first.
OwnKeys == \A t \in Threads : op[t] # Idle =>
               op[t].key = CASE t = w2 -> 0 [] t = w3 -> 9 [] OTHER -> 3
=============================================================================
