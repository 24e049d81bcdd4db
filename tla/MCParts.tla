------------------------------ MODULE MCParts -------------------------------
(***************************************************************************)
(* What the trees stand on, each on its own: WRERTLayout, where in a       *)
(* segment a slot is; FastAlloc, where in a pool a block is; WRERTRWLock,  *)
(* the lock of the concurrent tree; WRERTTreeRecovery, the tree that a     *)
(* killed process leaves.  A behaviour runs one of them.                   *)
(*                                                                         *)
(* WRERTLayout has the code's 32 main buckets and, TLC's integers having   *)
(* 32 bits, 30 of the 32 bits of a sub-key.                                *)
(***************************************************************************)
EXTENDS WRERTLayout, FastAlloc, WRERTRWLock, WRERTTreeRecovery

CONSTANTS a, b, c   \* three 32-bit halves of keys

VARIABLE which      \* the module that runs

\* Every 6-bit pattern repeated five times: at every depth, every value of
\* the M + 1 bits that a split looks at.
PeriodicKeys == {n * (1 + 2^6 + 2^12 + 2^18 + 2^24) : n \in 0..63}

\* Three upper halves: one for the first prefix, one for the key that splits
\* it, one that finds its slot in the new root free.  One pair of keys that
\* makes a child is enough for a crash in between.
UpperABCOnce == {<<a, a>>, <<a, b>>, <<b, a>>, <<c, a>>}

MCInit == /\ LayoutInit /\ AllocInit /\ RWInit /\ TreeRecInit
          /\ \/ which = "segment"
             \/ which \in {"pool", "lock", "killed"} /\ key = 0 /\ mig = Stamp(0)

MCNext == /\ \/ which = "segment" /\ LayoutNext /\ UNCHANGED <<allocVars, rwVars, treeRecVars>>
             \/ which = "pool" /\ AllocNext /\ UNCHANGED <<layoutVars, rwVars, treeRecVars>>
             \/ which = "lock" /\ RWNext /\ UNCHANGED <<layoutVars, allocVars, treeRecVars>>
             \/ which = "killed" /\ TreeRecNext /\ UNCHANGED <<layoutVars, allocVars, rwVars>>
          /\ UNCHANGED which

\* Only the lock's threads are kept running.
MCSpec == /\ MCInit /\ [][MCNext]_<<layoutVars, allocVars, rwVars, treeRecVars, which>>
          /\ \A t \in Clients : WF_rwVars(which = "lock" /\ RWStep(t))
=============================================================================
