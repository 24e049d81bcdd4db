-------------------------------- MODULE PMem --------------------------------
(***************************************************************************)
(* Words of persistent memory behind a cache.  A store is seen at once; it *)
(* survives a power failure for certain only when a flush and its fence    *)
(* came after it, and may survive without them, the cache writing lines    *)
(* back when it pleases.  Each location is a word that the hardware writes *)
(* as a whole.                                                             *)
(***************************************************************************)
EXTENDS Naturals, FiniteSets, Sequences, TLC

CONSTANT MaxCrashes   \* bound: power failures in a behaviour

VARIABLES mem,        \* what each location holds, as the program sees it
          unflushed,  \* what the locations stored to since the last fence held before
          crashes     \* power failures so far

\* The program writes ws, a function from locations to contents.
Store(ws) == /\ mem' = ws @@ mem
             /\ unflushed' = unflushed @@ [l \in DOMAIN ws |-> mem[l]]
             /\ UNCHANGED crashes

\* The program writes new objects, which it flushes before any pointer leads
\* to them, and then ws.
StoreAfter(new, ws) == /\ mem' = ws @@ new @@ mem
                       /\ unflushed' = unflushed @@ [l \in DOMAIN ws |-> mem[l]]
                       /\ UNCHANGED crashes

\* mfence, clflush of every line stored to, mfence.
Flush == /\ unflushed' = <<>>
         /\ UNCHANGED <<mem, crashes>>

\* The contents a power failure may leave.
Survivors == {[l \in lost |-> unflushed[l]] @@ mem : lost \in SUBSET DOMAIN unflushed}
=============================================================================
