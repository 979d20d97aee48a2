----------------------------- MODULE ManagedHeap -----------------------------
(***************************************************************************)
(* What the memory manager of libsemblis promises the evaluator, with no   *)
(* word on how: objects can be allocated, linked, rooted and unrooted, and *)
(* storage may be reclaimed at any time, but only storage that cannot be   *)
(* reached from the roots.  Collector implements this.                     *)
(***************************************************************************)
EXTENDS ObjectGraph

CONSTANTS Managed,   \* the objects the manager owns: blocks and environments
          Code,      \* program cells, which the evaluator allocates itself
          Global     \* the global environment, never given up

VARIABLES live,      \* the managed objects that are allocated
          kids,      \* the pointers each object keeps
          roots      \* what the evaluator's registers and stack point to

heapVars == <<live, kids, roots>>

\* The evaluator can only pass on what it can get at.
Accessible == Reach(roots, kids)

Init ==
    /\ live \subseteq Managed
    /\ roots = {Global}
    /\ kids \in [Managed \cup Code -> SUBSET (Managed \cup Code)]

Alloc(n, K) ==
    /\ n \in Managed \ live
    /\ K \subseteq Accessible
    /\ live' = live \cup {n}
    /\ kids' = [kids EXCEPT ![n] = K]
    /\ roots' = roots \cup {n}

\* A pointer to k is stored into n, and may take the place of older ones.
Link(n, k, gone) ==
    /\ n \in Accessible \cap Managed
    /\ k \in Accessible
    /\ kids' = [kids EXCEPT ![n] = (@ \ gone) \cup {k}]
    /\ UNCHANGED <<live, roots>>

Root(n) ==
    /\ n \in Accessible \cup Code
    /\ roots' = roots \cup {n}
    /\ UNCHANGED <<live, kids>>

Unroot(n) ==
    /\ n # Global
    /\ roots' = roots \ {n}
    /\ UNCHANGED <<live, kids>>

\* The promise: storage is reclaimed only when nothing can reach it.
Reclaim(n) ==
    /\ n \in live
    /\ n \notin Accessible
    /\ live' = live \ {n}
    /\ kids' = [kids EXCEPT ![n] = {}]
    /\ UNCHANGED roots

Next ==
    \/ \E n \in Managed, K \in SUBSET (Managed \cup Code) : Alloc(n, K)
    \/ \E n, k \in Managed \cup Code, gone \in SUBSET (Managed \cup Code) : Link(n, k, gone)
    \/ \E n \in Managed \cup Code : Root(n) \/ Unroot(n) \/ Reclaim(n)

Spec == Init /\ [][Next]_heapVars
=============================================================================
