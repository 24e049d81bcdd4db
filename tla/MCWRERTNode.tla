---------------------------- MODULE MCWRERTNode -----------------------------
(***************************************************************************)
(* WRERTNode on two small instances, of which a behaviour runs one: narrow *)
(* buckets, which make segments split and the directory double early, and  *)
(* wide ones, in which the vector scans have several slots to look at and  *)
(* range scans several buckets to choose from.                             *)
(* Sub-keys are given as numbers of so many bits.                          *)
(***************************************************************************)
EXTENDS WRERTNode

CONSTANTS v1, v2

VARIABLES which,                          \* the instance that runs
          wideGd, wideDir, wideSegs, wideOp

wideVars == <<wideGd, wideDir, wideSegs, wideOp>>

SubKeys(bits, S) == {[i \in 1..bits |-> (k \div 2^(bits - i)) % 2] : k \in S}

\* Crowded at the low end, so that the lowest segment splits three times and
\* its shared region comes back to region 0; a few sub-keys elsewhere, so that
\* segments shallower than the directory exist and split too.
CrowdedKeys == SubKeys(5, {0, 1, 2, 16, 17, 18, 9})

\* More neighbours than a pair of two-slot buckets holds.  The first set takes
\* the directory three levels deeper than the segment of the two others; the
\* second spreads over the shared buckets of a segment.
DeepKeys == SubKeys(8, {0, 1, 2, 4, 5, 128, 144})
SpreadKeys == SubKeys(8, {0, 8, 16, 32, 40, 96, 160})
WideKeys == DeepKeys \union SpreadKeys

Wide == INSTANCE WRERTNode WITH
            W <- 8, M <- 3, Slots <- 2, Chunk <- 2, Keys <- WideKeys, Values <- {v1, v2},
            gd <- wideGd, dir <- wideDir, segs <- wideSegs, op <- wideOp

Scan == INSTANCE WRERTScan WITH
            W <- 8, M <- 3, Slots <- 2, Chunk <- 2, Keys <- WideKeys, Values <- {v1, v2},
            Bounds <- SubKeys(8, {1, 8, 32, 64, 96, 112, 144, 160}),
            gd <- wideGd, dir <- wideDir, segs <- wideSegs, op <- wideOp

\* (TLC evaluates the constants of a module once for all that extend it,
\* unless the module is also instantiated.)
WideBits == INSTANCE WRERTBits WITH W <- 8, M <- 3

MCInit == Init /\ Wide!Init /\ which \in {"narrow", "wide"}

MCNext == /\ \/ which = "narrow" /\ Next /\ UNCHANGED wideVars
             \/ which = "wide" /\ Wide!Next /\ UNCHANGED vars
          /\ UNCHANGED which

MCSpec == /\ MCInit
          /\ [][MCNext]_<<vars, wideVars, which>>
          /\ WF_vars(Update \/ Write \/ Split \/ Grow)

\* Bounds: in wide buckets one of the two sets is inserted, most of it in
\* order, and only sub-key 0 has two values.
WideBounded ==
    wideOp # Wide!IdleOp =>
        LET stored(S) == \A k \in SubKeys(8, S) : Wide!GetSegNode(k) # None
            inserting(S) == wideOp.key \in SubKeys(8, S)
            used == {wideOp.key} \union {k \in WideKeys : Wide!GetSegNode(k) # None}
        IN  /\ used \subseteq DeepKeys \/ used \subseteq SpreadKeys
            /\ inserting({1, 8}) => stored({0})
            /\ inserting({2}) => stored({1})
            /\ inserting({5}) => stored({4})
            /\ inserting({40}) => stored({32})
            /\ inserting({144}) => stored({128})
            /\ wideOp.val = v2 => inserting({0})

\* The wide instance's slots fill from the front (wrert_node.cpp:312) and it
\* is a map.
WideLivePrefix == Wide!LivePrefix
WideImplementsMap == Wide!ImplementsMap

\* What its scans return (wrert.cpp:442, 758).
ScanAllExact == Scan!ScanAllExact
ScanMissesKnown == Scan!ScanMissesKnown
ScanExact == Scan!ScanExact
=============================================================================
