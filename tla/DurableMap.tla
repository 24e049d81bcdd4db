----------------------------- MODULE DurableMap -----------------------------
(***************************************************************************)
(* What an index on persistent memory promises a caller that may lose its  *)
(* power: KVMap, in which an insert that has returned is never undone, an  *)
(* insert that the failure cut off has taken effect or has not, and        *)
(* nothing else is disturbed.                                              *)
(***************************************************************************)
CONSTANTS Keys,     \* the keys callers use
          Values,   \* the values they store
          None      \* what a lookup of an absent key returns; not a value

VARIABLES map,      \* the value bound to each key, None when absent
          req       \* the insert in progress, or Idle

durableVars == <<map, req>>

Idle == [busy |-> FALSE]
Pending(k, v, old) == [busy |-> TRUE, key |-> k, val |-> v, old |-> old]

DurableInit == /\ map = [k \in Keys |-> None]
               /\ req = Idle

\* A caller asks for key k to be bound to value v.
Request(k, v) == /\ req = Idle
                 /\ req' = Pending(k, v, map[k])
                 /\ UNCHANGED map

\* The pending insert takes effect.
TakeEffect == /\ req # Idle
              /\ map' = [map EXCEPT ![req.key] = req.val]
              /\ UNCHANGED req

\* It returns, which it may only do when it has taken effect.
Return == /\ req # Idle
          /\ map[req.key] = req.val
          /\ req' = Idle
          /\ UNCHANGED map

\* The power fails during the insert.
CutOff == /\ req # Idle
          /\ \E v \in {req.old, req.val} : map' = [map EXCEPT ![req.key] = v]
          /\ req' = Idle

DurableNext == \/ \E k \in Keys, v \in Values : Request(k, v)
               \/ TakeEffect
               \/ Return
               \/ CutOff

DurableSpec == DurableInit /\ [][DurableNext]_durableVars
=============================================================================
