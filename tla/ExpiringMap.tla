---------------------------- MODULE ExpiringMap ----------------------------
(***************************************************************************)
(* What package cache promises its users: a map every operation of which   *)
(* is atomic, where an entry stored with a lifetime may disappear and no   *)
(* other entry does.                                                       *)
(***************************************************************************)
CONSTANTS Keys, Values, NoValue

VARIABLES
    map,   \* the value of each key, or NoValue
    timed, \* keys whose entry has a lifetime
    by     \* who made the last change: "caller" or "expiry"

mapVars == <<map, timed, by>>

Init ==
    /\ map = [k \in Keys |-> NoValue]
    /\ timed = {}
    /\ by = "caller"

Put(k, v) ==
    /\ map' = [map EXCEPT ![k] = v]
    /\ timed' = timed \ {k}
    /\ by' = "caller"

PutTimed(k, v) ==
    /\ map' = [map EXCEPT ![k] = v]
    /\ timed' = timed \cup {k}
    /\ by' = "caller"

Delete(k) ==
    /\ map' = [map EXCEPT ![k] = NoValue]
    /\ timed' = timed \ {k}

Remove(k) == Delete(k) /\ by' = "caller"

Clear ==
    /\ map' = [k \in Keys |-> NoValue]
    /\ timed' = {}
    /\ by' = "caller"

Expire(k) == k \in timed /\ Delete(k) /\ by' = "expiry"

Next ==
    \/ \E k \in Keys, v \in Values : Put(k, v) \/ PutTimed(k, v)
    \/ \E k \in Keys : Remove(k) \/ Expire(k)
    \/ Clear

Spec == Init /\ [][Next]_mapVars

=============================================================================
