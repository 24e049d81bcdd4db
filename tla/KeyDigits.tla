----------------------------- MODULE KeyDigits ------------------------------
(***************************************************************************)
(* What the radix trees of src/wort, src/woart and src/YCSB-C/roart share: *)
(* keys cut into digits, the most significant first, and pointers whose    *)
(* lowest bit says whether they lead to a leaf or to a node.               *)
(***************************************************************************)
EXTENDS Naturals, Sequences, FiniteSetsExt

CONSTANTS Keys,        \* the keys, numbers below NodeEntries^Height
          NodeEntries, \* values of a digit
          Height,      \* digits of a key
          MaxPrefix    \* digits of a prefix that a header keeps

Least(a, b) == IF a < b THEN a ELSE b

Null == <<"null">>
Leaf(k) == <<"leaf", k>>
Node(i) == <<"node", i>>
IsLeaf(p) == p[1] = "leaf"
IsNode(p) == p[1] = "node"

Entries == 0..NodeEntries - 1

get_index(key, depth) == (key \div NodeEntries^(Height - 1 - depth)) % NodeEntries

\* The digits of a key from a depth on.
Digits(key, depth, n) == [i \in 1..n |-> get_index(key, depth + i - 1)]

longest_common_prefix(k1, k2, depth) ==
    Min({Height - depth} \union
        {i \in 0..Height - depth - 1 : get_index(k1, depth + i) # get_index(k2, depth + i)})
=============================================================================
