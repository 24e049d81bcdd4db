---------------------------- MODULE MCWRERTTree -----------------------------
(***************************************************************************)
(* WRERTTree and its scans on a small instance.                            *)
(***************************************************************************)
EXTENDS WRERTTreeScan

CONSTANTS a, b, c   \* three 32-bit halves of keys

\* Three upper halves: one for the first prefix, one for the key that splits
\* it, one that finds its slot in the new root free; two of them with two
\* lower halves, which make a child.
UpperABC == ({a, b} \X {a, b}) \union {<<c, a>>}
=============================================================================
