----------------------------- MODULE ObjectGraph -----------------------------
(***************************************************************************)
(* The graph formed by the interpreter's objects: data blocks (data_t) and *)
(* environments (environment_t), with an edge for each pointer one object  *)
(* keeps to another.  edges[n] is the set of objects n points to.          *)
(*                                                                         *)
(* Reachability is defined from closed sets (an object is reachable iff    *)
(* every closed set that holds the roots holds it), which needs no         *)
(* recursion: a proof of "n is reachable" is a proof that no closed set    *)
(* excludes it, and a proof of "n is not" exhibits one that does.          *)
(***************************************************************************)

\* No pointer leaves S.
Closed(S, edges) == \A n \in S : edges[n] \subseteq S

\* The objects that can be reached from R along pointers, R included.
Reach(R, edges) ==
    {n \in DOMAIN edges :
        \A S \in SUBSET DOMAIN edges : (R \subseteq S /\ Closed(S, edges)) => n \in S}
=============================================================================
