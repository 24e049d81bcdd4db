-------------------------- MODULE MCWRERTRecovery ---------------------------
(***************************************************************************)
(* WRERTRecovery on small instances; sub-keys are given as numbers.        *)
(***************************************************************************)
EXTENDS WRERTRecovery

CONSTANTS v1, v2

KeysOf(S) == {Prefix(n, W) : n \in S}

\* The lowest segment splits twice after the first doubling, once when it is
\* two levels shallower than the directory, so that a split has a directory
\* range of four entries to rewrite.
CrowdedKeys == KeysOf({0, 1, 2, 16, 17, 18, 9})

\* Enough for two doublings.
FewKeys == KeysOf({0, 1, 2, 8})

\* 18 is inserted after 17.  Power failures, whose write-backs multiply the
\* states, have two smaller sets of inserts: one sub-key inserted again with
\* another value, or, with one crash, all sub-keys of a doubling and a split
\* in place, once each.
Bounded ==
    LET inserted(n) == acked[Prefix(n, W)]
    IN  /\ op # IdleOp =>
              /\ op.val = v2 => PowerFails /\ Num(op.key) = 0 /\ inserted(18) = None
              /\ Num(op.key) = 18 => inserted(17) # None /\ (PowerFails => inserted(0) # v2)
              /\ PowerFails => Num(op.key) # 9
        /\ PowerFails /\ life.crashes > 1 => inserted(18) = None
=============================================================================
