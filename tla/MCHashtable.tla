----------------------------- MODULE MCHashtable -----------------------------
(***************************************************************************)
(* Keys whose homes collide, wrap around the end of the table, and part    *)
(* when it grows; from 2 slots to 8.                                       *)
(***************************************************************************)
EXTENDS Hashtable
CONSTANTS k1, k2, k3, k4, k5, v1, v2
MCKeys == {k1, k2, k3, k4, k5}
MCValues == {v1, v2}
MCHash == [k \in MCKeys |-> CASE k = k1 -> 3 [] k = k2 -> 7 [] k = k3 -> 15 [] k = k4 -> 0 [] k = k5 -> 6]
=============================================================================
