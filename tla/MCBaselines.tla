---------------------------- MODULE MCBaselines -----------------------------
(***************************************************************************)
(* The indexes WRERT is measured against, each on an instance of its own;  *)
(* a behaviour runs one of them.  The first three take one call at a time  *)
(* and lose their power, and stand behind one abstract map; ROART has two  *)
(* writers and a reader.                                                   *)
(***************************************************************************)
EXTENDS Naturals, FiniteSets, Sequences

CONSTANTS None, Exit, v1, v2, MaxCrashes

VARIABLES mem, unflushed, crashes, op, acked,
          which,   \* the index that runs
          seen     \* history: what lookups of a durable index answer

shared == <<mem, unflushed, crashes, op, acked>>
vars == <<shared, which, seen>>

Values == {v1, v2}
WORTKeys == {0, 1, 2, 4, 8, 12}
WOARTKeys == 0..7 \union {64}
ERTKeys == {0, 2, 4, 8, 10, 12, 14}
Keys == WORTKeys \union WOARTKeys \union ERTKeys

W == INSTANCE WORT WITH Keys <- WORTKeys, NodeEntries <- 2, Height <- 4, MaxPrefix <- 1
A == INSTANCE WOART WITH Keys <- WOARTKeys, NodeEntries <- 8, Height <- 3, MaxPrefix <- 1,
                         Cap4 <- 2, Cap16 <- 4, Cap48 <- 6
E == INSTANCE ERTNode WITH Keys <- ERTKeys, KeyBits <- 4, MaskBits <- 1, BucketSize <- 2
R == INSTANCE ROART WITH Keys <- {0, 1, 2, 3, 6, 9}, NodeEntries <- 3, Height <- 4, MaxPrefix <- 1,
                         Caps <- <<2, 3, 3, 3>>, Writers <- {"w1", "w2"}, Readers <- {"r"}

\* The contents of a memory m: TLC evaluates them faster than W!Contents'.
WAt(m) == INSTANCE WORT WITH Keys <- WORTKeys, NodeEntries <- 2, Height <- 4, MaxPrefix <- 1,
                             mem <- m
AAt(m) == INSTANCE WOART WITH Keys <- WOARTKeys, NodeEntries <- 8, Height <- 3, MaxPrefix <- 1,
                              Cap4 <- 2, Cap16 <- 4, Cap48 <- 6, mem <- m
EAt(m) == INSTANCE ERTNode WITH Keys <- ERTKeys, KeyBits <- 4, MaskBits <- 1, BucketSize <- 2,
                                mem <- m
ContentsOf(m) ==
    LET contents == CASE which = "wort" -> WAt(m)!Contents
                      [] which = "woart" -> AAt(m)!Contents
                      [] which = "ert" -> EAt(m)!Contents
                      [] which = "roart" -> <<>>
    IN  [k \in Keys |-> IF k \in DOMAIN contents THEN contents[k] ELSE None]

Init == /\ \/ which = "wort" /\ W!Init /\ acked = {}
           \/ which = "woart" /\ A!Init /\ acked = {}
           \/ which = "ert" /\ E!Init /\ acked = {}
           \/ which = "roart" /\ R!Init /\ unflushed = <<>> /\ crashes = 0
        /\ seen = ContentsOf(mem)

Seen == /\ \E m \in {mem'} : seen' = ContentsOf(m)
        /\ UNCHANGED which

Next == /\ \/ which = "wort" /\ W!Next /\ UNCHANGED acked
           \/ which = "woart" /\ A!Next /\ UNCHANGED acked
           \/ which = "ert" /\ E!Next /\ UNCHANGED acked
           \/ which = "roart" /\ R!Next /\ UNCHANGED <<unflushed, crashes>>
        /\ Seen

Step == \/ which = "wort" /\ W!Step /\ UNCHANGED acked
        \/ which = "woart" /\ A!Step /\ UNCHANGED acked
        \/ which = "ert" /\ E!Step /\ UNCHANGED acked

Spec == Init /\ [][Next]_vars /\ WF_shared(Step)

Durables == which # "roart"
Busy == Durables /\ op.phase \notin {"idle", "halted"}

\* Bounds: only key 0 is updated and has two values, in WOART while the root
\* is small; WOART's node comes to its children in the order of their digits.
DurablesBounded ==
    Busy => /\ op.val = v2 \/ op.old # None => op.key = 0
            /\ which = "woart" =>
                   /\ op.key \in 2..7 => \A k \in 0..op.key - 1 : seen[k] # None
                   /\ op.key \in {0, 64} => seen[4] = None

\* Bounds: one writer puts 0 and 1 first, and 1 again.  Then it splits the
\* path to them and fills the new parent, while the other writer fills the
\* node below or splits the path higher up, and the reader looks for what was
\* put.
ROARTBounded == which = "roart" =>
    \A t \in {"w1", "w2", "r"} : op[t] # R!Idle =>
        LET k == op[t].key
            inOrder == \/ k = 0 /\ acked = {}
                       \/ k = 1 /\ acked \in {{0}, {0, 1}}
                       \/ k \notin {0, 1} /\ {0, 1} \subseteq acked /\ k \notin acked
        IN  CASE t = "w1" -> k \in {0, 1, 3, 6} /\ inOrder
              [] t = "w2" -> k \in {2, 9} /\ inOrder
              [] t = "r" -> k \in {3, 9} /\ op[t].owed

Call == IF which = "ert" THEN E!Call
        ELSE IF Durables THEN W!Call
        ELSE [busy |-> FALSE]
D == INSTANCE DurableMap WITH map <- seen, req <- Call

\* An insert that has returned is found from then on, across power failures
\* in later inserts; one that a failure cuts off has happened or has not, and
\* no other key is touched (wort.cpp:425, woart.cpp:667, ERT_node_int.cpp:73).
Durable == D!DurableSpec

\* WORT's headers are right wherever their depth is (wort.cpp:169, 331).
HeadersTell == which = "wort" => W!HeadersTell

\* WOART's slot, bitmap and index words lead to every leaf (woart.cpp:282, 507).
FindsOrExits == which = "woart" => A!FindsOrExits

\* ERT's directory agrees with the depths of its segments (ERT_node_int.cpp:43, 163).
DepthsTellBlocks == which = "ert" => E!DepthsTellBlocks

\* With two writers a reader of ROART finds what was put before it came.
AnswersRight == which = "roart" => R!AnswersRight

\* A put that starts again behind a repair, a split or a doubling does so
\* finitely often (wort.cpp:331, ERT_node_int.cpp:204).
PutReturns == Busy ~> ~Busy
=============================================================================
