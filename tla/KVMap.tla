------------------------------- MODULE KVMap --------------------------------
(***************************************************************************)
(* What an index promises its caller: a finite map from keys to values, a  *)
(* key at a time.  An insert is requested, takes effect at one instant and *)
(* returns; it binds its own key to its own value and no other key is      *)
(* disturbed.  There is no delete: WRERT declares remove (wrert.h) and     *)
(* never defines it.                                                       *)
(***************************************************************************)
CONSTANTS Keys,     \* the keys callers use
          Values,   \* the values they store
          None      \* what a lookup of an absent key returns; not a value

VARIABLES map,      \* the value bound to each key, None when absent
          req       \* the insert in progress, or Idle

mapVars == <<map, req>>

Idle == [busy |-> FALSE]
Pending(k, v) == [busy |-> TRUE, key |-> k, val |-> v]

MapInit == /\ map = [k \in Keys |-> None]
           /\ req = Idle

\* A caller asks for key k to be bound to value v.
Request(k, v) == /\ req = Idle
                 /\ req' = Pending(k, v)
                 /\ UNCHANGED map

\* The pending insert takes effect and returns.
Commit == /\ req # Idle
          /\ map' = [map EXCEPT ![req.key] = req.val]
          /\ req' = Idle

MapNext == \/ \E k \in Keys, v \in Values : Request(k, v)
           \/ Commit

MapSpec == MapInit /\ [][MapNext]_mapVars
=============================================================================
