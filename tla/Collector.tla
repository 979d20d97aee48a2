------------------------------ MODULE Collector ------------------------------
(***************************************************************************)
(* The memory manager of libsemblis: the block table of data.c, the        *)
(* environment table of environment.c and the mark-and-sweep collector of  *)
(* gc.c.  Objects are table slots: slot i of BlockList is i, slot j of     *)
(* EnvironmentList is MaxNumBlocks + j, and a NULL entry is a slot that is *)
(* not live.  Program cells (data_create_no_gc) are in neither table: they *)
(* can be pointed to and marked, but are never freed by the collector.     *)
(*                                                                         *)
(* The evaluator is its environment here: it links and roots objects, and  *)
(* hands data_create and env_create only pointers it can reach from its    *)
(* registers and stack (the actions under "The evaluator").  The places of *)
(* the code that break that discipline are in module Evaluator.            *)
(***************************************************************************)
EXTENDS ObjectGraph, Integers, FiniteSets

CONSTANTS MaxNumBlocks, MaxNumEnvironments,
          Code                  \* cells made by data_create_no_gc

ASSUME CapacityAssumption ==
    /\ MaxNumBlocks \in Nat \ {0}
    /\ MaxNumEnvironments \in Nat \ {0}

Blocks == 0 .. MaxNumBlocks - 1
Envs == MaxNumBlocks .. MaxNumBlocks + MaxNumEnvironments - 1
Managed == Blocks \cup Envs
Objects == Managed \cup Code

ASSUME CodeAssumption == Managed \cap Code = {}

\* GlobalEnv is the first env_create of eval_init.
Global == MaxNumBlocks

Kinds == {"block", "env"}
Slots(kind) == IF kind = "block" THEN Blocks ELSE Envs
Capacity(kind) == IF kind = "block" THEN MaxNumBlocks ELSE MaxNumEnvironments
FirstSlot(kind) == IF kind = "block" THEN 0 ELSE MaxNumBlocks

VARIABLES
    live,    \* table entries that are not NULL
    kids,    \* the objects each object points to (an environment: its parent too)
    marked,  \* the objects whose `marked` field is set
    roots,   \* what eval_gather_gc reports
    inUse,   \* BlocksInUse and EnvironmentsInUse
    next,    \* next_block_spot and next_env_spot
    new,     \* the malloc'ed object that is not in its table yet
    pc, idx, \* the collector's phase and its loop index
    todo,    \* roots not reported yet
    work     \* calls of the marking recursion still to be made

tables == <<live, inUse, next>>
vars == <<live, kids, marked, roots, inUse, next, new, pc, idx, todo, work>>

NoObject == [kind |-> "block", kids |-> {}, marked |-> FALSE]

\* eval_init: the global environment and the variable cell "nil", which is
\* used once and stays in the table.  Program cells point to program cells.
Init ==
    /\ live = {0, Global}
    /\ kids \in [Objects -> SUBSET Code]
    /\ \A n \in Managed : kids[n] = {}
    /\ marked = {}
    /\ roots = {Global}
    /\ inUse = [kind \in Kinds |-> 1]
    /\ next = [kind \in Kinds |-> FirstSlot(kind) + (1 % Capacity(kind))]
    /\ new = NoObject
    /\ pc = "run" /\ idx = 0 /\ todo = {} /\ work = {}

Reachable == Reach(roots, kids)

-----------------------------------------------------------------------------
(* The evaluator.                                                          *)

\* data_create: the cell is filled (create) with at most two cells (car and
\* cdr, or args and code) and an environment, then insert_block looks for room.
DataCreate(K) ==
    /\ pc = "run"
    /\ K \subseteq Reachable
    /\ Cardinality(K \ Envs) <= 2 /\ Cardinality(K \cap Envs) <= 1
    /\ new' = [kind |-> "block", kids |-> K, marked |-> FALSE]
    /\ pc' = IF inUse["block"] = MaxNumBlocks THEN "unmark" ELSE "insert"
    /\ idx' = 0
    /\ UNCHANGED <<tables, kids, marked, roots, todo, work>>

\* env_create: a full table starts gc_run_with_env, which marks the new
\* environment and what it can reach before the collection proper.
EnvCreate(parent) ==
    /\ pc = "run"
    /\ parent \in Reachable \cap Envs
    /\ IF inUse["env"] = MaxNumEnvironments
       THEN /\ new' = [kind |-> "env", kids |-> {parent}, marked |-> TRUE]
            /\ pc' = "premark"
            /\ work' = {parent} \ marked
       ELSE /\ new' = [kind |-> "env", kids |-> {parent}, marked |-> FALSE]
            /\ pc' = "insert"
            /\ UNCHANGED work
    /\ UNCHANGED <<tables, kids, marked, roots, idx, todo>>

\* env_set: a binding is added, or takes the place of one; the parent stays.
EnvSet(e, v, gone) ==
    /\ pc = "run"
    /\ e \in Reachable \cap Envs
    /\ v \in Reachable \ Envs
    /\ gone \in SUBSET (kids[e] \ Envs) /\ Cardinality(gone) <= 1
    /\ kids' = [kids EXCEPT ![e] = (@ \ gone) \cup {v}]
    /\ UNCHANGED <<tables, marked, roots, new, pc, idx, todo, work>>

\* append_to_last: the cell at the end of an argument list gets a successor,
\* a cell made for it, from which the list cannot be reached.
AppendToLast(last, cell) ==
    /\ pc = "run"
    /\ {last, cell} \subseteq Reachable \cap Blocks
    /\ last \notin Reach({cell}, kids)
    /\ kids' = [kids EXCEPT ![last] = @ \cup {cell}]
    /\ UNCHANGED <<tables, marked, roots, new, pc, idx, todo, work>>

\* A register or a stack entry gets an object the evaluator can reach, or a
\* program cell (reader_to_data).
Load(n) ==
    /\ pc = "run"
    /\ n \in Reachable \cup Code
    /\ roots' = roots \cup {n}
    /\ UNCHANGED <<tables, kids, marked, new, pc, idx, todo, work>>

\* A register is overwritten or a stack entry is popped.
Drop(n) ==
    /\ pc = "run"
    /\ n \in roots \ {Global}
    /\ roots' = roots \ {n}
    /\ UNCHANGED <<tables, kids, marked, new, pc, idx, todo, work>>

-----------------------------------------------------------------------------
(* The collector.                                                          *)

\* Faults for the mutation runs: a marking recursion that forgets the parent,
\* that forgets the bindings, and that lacks the test of the mark.
CallsNoParent(n, flag) ==
    LET differs == {k \in kids[n] : (k \in marked) # flag}
    IN  IF n \in Envs
        THEN IF (n \in marked) # flag THEN kids[n] \ Envs ELSE {}
        ELSE differs

CallsNoBindings(n, flag) ==
    LET differs == {k \in kids[n] : (k \in marked) # flag}
    IN  IF n \in Envs THEN differs \cap Envs ELSE differs

CallsUnfiltered(n, flag) == kids[n]

\* The recursive calls data_set_marked_recursive and env_set_marked make from
\* n.  A block goes to the pointers whose mark differs; an environment goes to
\* all of its bindings if its own mark changes, and to a parent that differs.
Calls(n, flag) ==
    LET differs == {k \in kids[n] : (k \in marked) # flag}
    IN  IF n \in Envs
        THEN (IF (n \in marked) # flag THEN kids[n] \ Envs ELSE {}) \cup (differs \cap Envs)
        ELSE differs

\* One call of the recursion.  The C code makes the calls depth first; the
\* order does not matter to what ends up marked, so any is allowed.
Visit(n, flag) ==
    /\ n \in work
    /\ marked' = IF flag THEN marked \cup {n} ELSE marked \ {n}
    /\ work' = (work \cup Calls(n, flag)) \ {n}
    /\ UNCHANGED <<tables, kids, roots, new, pc, idx, todo>>

Premark ==
    /\ pc = "premark"
    /\ \/ \E n \in work : Visit(n, TRUE)
       \/ /\ work = {}
          /\ pc' = "unmark" /\ idx' = 0
          /\ UNCHANGED <<tables, kids, marked, roots, new, todo, work>>

\* Fault: the second unmarking loop is missing.
UnmarkNextBlocksOnly ==
    /\ work = {}
    /\ IF idx \in Blocks
       THEN /\ work' = {idx} \cap live
            /\ idx' = idx + 1
            /\ UNCHANGED <<pc, todo>>
       ELSE /\ pc' = "mark"
            /\ todo' = roots
            /\ UNCHANGED <<idx, work>>
    /\ UNCHANGED <<tables, kids, marked, roots, new>>

\* gc_run's first two loops: every table entry, and what it reaches, is unmarked.
UnmarkNext ==
    /\ work = {}
    /\ IF idx \in Managed
       THEN /\ work' = {idx} \cap live
            /\ idx' = idx + 1
            /\ UNCHANGED <<pc, todo>>
       ELSE /\ pc' = "mark"
            /\ todo' = roots
            /\ UNCHANGED <<idx, work>>
    /\ UNCHANGED <<tables, kids, marked, roots, new>>

Unmark ==
    /\ pc = "unmark"
    /\ \/ \E n \in work : Visit(n, FALSE)
       \/ UnmarkNext

\* eval_gather_gc: mark_data or mark_env is called on every root in turn.
MarkNext ==
    /\ work = {}
    /\ IF todo # {}
       THEN \E r \in todo :
              /\ work' = {r}
              /\ todo' = todo \ {r}
              /\ UNCHANGED <<pc, idx>>
       ELSE /\ pc' = "sweep" /\ idx' = 0
            /\ UNCHANGED <<work, todo>>
    /\ UNCHANGED <<tables, kids, marked, roots, new>>

Mark ==
    /\ pc = "mark"
    /\ \/ \E n \in work : Visit(n, TRUE)
       \/ MarkNext

\* Fault: env_destroy does not count.
FreeBlocksCounted(n) ==
    /\ live' = live \ {n}
    /\ kids' = [kids EXCEPT ![n] = {}]
    /\ inUse' = IF n \in Blocks THEN [inUse EXCEPT !["block"] = @ - 1] ELSE inUse

\* data_destroy or env_destroy of a slot: the entry becomes NULL.
Free(n) ==
    /\ live' = live \ {n}
    /\ kids' = [kids EXCEPT ![n] = {}]
    /\ inUse' = [inUse EXCEPT ![IF n \in Blocks THEN "block" ELSE "env"] = @ - 1]

\* gc_run's last two loops: unmarked entries are freed.
Sweep ==
    /\ pc = "sweep"
    /\ IF idx \in Managed
       THEN /\ idx' = idx + 1
            /\ IF idx \in live \ marked
               THEN Free(idx)
               ELSE UNCHANGED <<live, kids, inUse>>
            /\ UNCHANGED pc
       ELSE /\ pc' = "collected"
            /\ UNCHANGED <<live, kids, inUse, idx>>
    /\ UNCHANGED <<marked, roots, next, new, todo, work>>

\* insert_block and env_create give up if the table is still full.
CheckRoom ==
    /\ pc = "collected"
    /\ pc' = IF inUse[new.kind] = Capacity(new.kind) THEN "exit" ELSE "insert"
    /\ idx' = 0
    /\ UNCHANGED <<tables, kids, marked, roots, new, todo, work>>

\* How far the search for a NULL entry goes from the saved spot to slot n.
Distance(kind, n) ==
    IF n >= next[kind] THEN n - next[kind] ELSE n - next[kind] + Capacity(kind)

\* Fault: the saved spot does not go round.
SpotAfterNoWrap(kind, n) == n + 1

\* The saved spot after slot n has been taken.
SpotAfter(kind, n) == IF n + 1 \in Slots(kind) THEN n + 1 ELSE FirstSlot(kind)

\* The first NULL entry from the saved spot on, going round the table, is
\* taken; the object is then handed to the evaluator, which keeps it.
Insert ==
    /\ pc = "insert"
    /\ \E n \in Slots(new.kind) \ live :
         /\ \A m \in Slots(new.kind) \ live : Distance(new.kind, n) <= Distance(new.kind, m)
         /\ live' = live \cup {n}
         /\ kids' = [kids EXCEPT ![n] = new.kids]
         /\ marked' = IF new.marked THEN marked \cup {n} ELSE marked \ {n}
         /\ roots' = roots \cup {n}
         /\ next' = [next EXCEPT ![new.kind] = SpotAfter(new.kind, n)]
    /\ inUse' = [inUse EXCEPT ![new.kind] = @ + 1]
    /\ new' = NoObject
    /\ pc' = "run"
    /\ UNCHANGED <<idx, todo, work>>

-----------------------------------------------------------------------------
Mutate ==
    \/ \E K \in SUBSET Objects : DataCreate(K)
    \/ \E parent \in Envs : EnvCreate(parent)
    \/ \E e \in Envs, v \in Objects, gone \in SUBSET Objects : EnvSet(e, v, gone)
    \/ \E last, cell \in Blocks : AppendToLast(last, cell)
    \/ \E n \in Objects : Load(n) \/ Drop(n)

Collect == Premark \/ Unmark \/ Mark \/ Sweep \/ CheckRoom \/ Insert

Next == Mutate \/ Collect

Spec == Init /\ [][Next]_vars

\* The collector is a sequence of C loops: once called it runs.
FairSpec == Spec /\ WF_vars(Collect)

-----------------------------------------------------------------------------
(* Properties.                                                             *)

Phases == {"run", "premark", "unmark", "mark", "sweep", "collected", "insert", "exit"}

TypeOK ==
    /\ live \subseteq Managed
    /\ kids \in [Objects -> SUBSET Objects]
    /\ marked \subseteq Objects
    /\ roots \subseteq Objects
    /\ inUse \in [Kinds -> Int]
    /\ next["block"] \in Blocks /\ next["env"] \in Envs /\ DOMAIN next = Kinds
    /\ new \in [kind : Kinds, kids : SUBSET Objects, marked : BOOLEAN]
    /\ pc \in Phases
    /\ idx \in Nat
    /\ todo \subseteq Objects
    /\ work \subseteq Objects

\* BlocksInUse and EnvironmentsInUse, which decide when to collect and when to
\* give up, are the numbers of entries of their tables at every step, within a
\* sweep too; a table never holds more than its capacity.
CountsAgree ==
    \A kind \in Kinds :
        /\ inUse[kind] = Cardinality(live \cap Slots(kind))
        /\ inUse[kind] <= Capacity(kind)

\* Whatever the evaluator can reach is still allocated, in the middle of a
\* collection too, and so is what the object being created points to.
NoDangling ==
    /\ Reachable \subseteq live \cup Code
    /\ new.kids \subseteq live \cup Code

\* The collector itself never follows a pointer to a freed object: unmarking
\* goes through garbage, whose pointers must still be good.
TouchesOnlyLive == work \subseteq live \cup Code

\* A finished collection has left the reachable objects and nothing else:
\* cycles of environments and closures are reclaimed, stale marks of program
\* cells or of the new environment keep nothing alive.
Precise == pc = "collected" => live = Reachable \cap Managed

\* "max number of ... hit" is printed only if every entry of the table is
\* in use for good: no collection could have made room.
ExitOnlyWhenFull == pc = "exit" => Slots(new.kind) \subseteq Reachable

\* A collection, once started, ends: the object is inserted or the program exits.
CollectionEnds == (pc # "run") ~> (pc \in {"run", "exit"})

\* The collector implements the abstract promise of ManagedHeap.
Heap == INSTANCE ManagedHeap
HeapSpec == Heap!Spec
=============================================================================
