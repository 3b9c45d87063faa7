-------------------------------- MODULE HashMap --------------------------------
(***************************************************************************)
(* What the hash promises to the server: a map from keys to values.  Which *)
(* keys share a bucket, and in which order they hang in it, is not seen.   *)
(***************************************************************************)
CONSTANTS Key, Value, None

VARIABLE map    \* map[k] is the value of k, or None

Init == map = [k \in Key |-> None]

Put(k, v) == map' = [map EXCEPT ![k] = v]

Delete(k) == map[k] # None /\ map' = [map EXCEPT ![k] = None]

Clear == map' = [k \in Key |-> None]

Next ==
    \/ \E k \in Key, v \in Value : Put(k, v)
    \/ \E k \in Key : Delete(k)
    \/ Clear

Spec == Init /\ [][Next]_map
=============================================================================
