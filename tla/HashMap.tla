------------------------------- MODULE HashMap -------------------------------
(***************************************************************************)
(* What hashtable.c promises its users: a finite map from texts to         *)
(* pointers.  Putting an existing key replaces its value; there is no      *)
(* removal.  Hashtable implements this.                                    *)
(***************************************************************************)
CONSTANTS Keys, Values, Absent, Nothing

VARIABLES map,      \* the value of each key, or Absent
          answer    \* the last answer of hashtable_get: <<key, value>>, or Nothing

mapVars == <<map, answer>>

EmptyMap == [k \in Keys |-> Absent]

Init == map = EmptyMap /\ answer = Nothing

Put(k, v) == map' = [map EXCEPT ![k] = v] /\ UNCHANGED answer

Get(k) == answer' = <<k, map[k]>> /\ UNCHANGED map

\* The table is destroyed, and another one is used in its place.
Clear == map' = EmptyMap /\ UNCHANGED answer

Next ==
    \/ \E k \in Keys, v \in Values : Put(k, v)
    \/ \E k \in Keys : Get(k)
    \/ Clear

Spec == Init /\ [][Next]_mapVars
=============================================================================
