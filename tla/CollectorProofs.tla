--------------------------- MODULE CollectorProofs ---------------------------
(***************************************************************************)
(* Proofs about Collector, for tables of any size and any set of program   *)
(* cells.  The inductive invariant says what each phase of a collection    *)
(* has established so far.                                                 *)
(***************************************************************************)
EXTENDS Collector, TLAPS, FiniteSetTheorems

-----------------------------------------------------------------------------
(* Reachability in the object graph.                                       *)

\* What a root points at is reachable: data_create may be given any root.
LEMMA ReachRoots ==
    ASSUME NEW R, NEW e, R \subseteq DOMAIN e
    PROVE  R \subseteq Reach(R, e)
  BY DEF Reach

\* A closed set that holds the roots holds all that is reachable.
LEMMA ReachInClosed ==
    ASSUME NEW R, NEW e, NEW S, S \subseteq DOMAIN e, R \subseteq S, Closed(S, e)
    PROVE  Reach(R, e) \subseteq S
  BY DEF Reach

\* What a reachable object points to is reachable.
LEMMA ReachClosed ==
    ASSUME NEW R, NEW D, NEW e \in [D -> SUBSET D]
    PROVE  Closed(Reach(R, e), e)
  <1> SUFFICES ASSUME NEW n \in Reach(R, e), NEW k \in e[n]
               PROVE  k \in Reach(R, e)
    BY DEF Closed
  <1>1. n \in D /\ k \in D
    BY DEF Reach
  <1>2. ASSUME NEW S \in SUBSET D, R \subseteq S, Closed(S, e)
        PROVE  k \in S
    BY <1>2 DEF Reach, Closed
  <1> QED
    BY <1>1, <1>2 DEF Reach

\* Clearing or changing an unreachable object changes nothing for the reachable ones.
LEMMA ReachUnaffected ==
    ASSUME NEW D, NEW R \in SUBSET D, NEW e \in [D -> SUBSET D], NEW n, n \notin Reach(R, e),
           NEW f \in [D -> SUBSET D], \A m \in D \ {n} : f[m] = e[m]
    PROVE  Reach(R, f) = Reach(R, e)
  <1> DEFINE Inner(S) == S \cap Reach(R, e)
  <1>1. DOMAIN f = D /\ DOMAIN e = D
    OBVIOUS
  <1>2. \A x \in D : x # n => f[x] = e[x]
    OBVIOUS
  <1>3. Closed(Reach(R, e), e)
    BY ReachClosed
  <1>4. ASSUME NEW S \in SUBSET D, R \subseteq S, Closed(S, e) \/ Closed(S, f)
        PROVE  /\ Inner(S) \in SUBSET D
               /\ R \subseteq Inner(S)
               /\ Closed(Inner(S), e) /\ Closed(Inner(S), f)
    <2>1. \A x \in Inner(S) : x # n /\ x \in D /\ f[x] = e[x]
      BY <1>1, <1>2 DEF Reach
    <2>2. \A x \in Inner(S) : e[x] \subseteq Inner(S)
      BY <1>4, <2>1, <1>3 DEF Closed
    <2>3. R \subseteq Reach(R, e)
      BY <1>1, ReachRoots
    <2> QED
      BY <1>4, <2>1, <2>2, <2>3 DEF Closed
  <1>5. ASSUME NEW m \in Reach(R, f), NEW S \in SUBSET D, R \subseteq S, Closed(S, e)
        PROVE  m \in S
    <2>1. Closed(Inner(S), f) /\ R \subseteq Inner(S) /\ Inner(S) \in SUBSET DOMAIN f
      BY <1>1, <1>4, <1>5
    <2> QED
      BY <2>1, <1>5 DEF Reach
  <1>6. ASSUME NEW m \in Reach(R, e), NEW S \in SUBSET D, R \subseteq S, Closed(S, f)
        PROVE  m \in S
    <2>1. Closed(Inner(S), e) /\ R \subseteq Inner(S) /\ Inner(S) \in SUBSET DOMAIN e
      BY <1>1, <1>4, <1>6
    <2> QED
      BY <2>1, <1>6 DEF Reach
  <1>7. Reach(R, f) \subseteq D /\ Reach(R, e) \subseteq D
    BY <1>1 DEF Reach
  <1>8. ASSUME NEW m \in Reach(R, f)  PROVE m \in Reach(R, e)
    BY <1>1, <1>5, <1>7 DEF Reach
  <1>9. ASSUME NEW m \in Reach(R, e)  PROVE m \in Reach(R, f)
    BY <1>1, <1>6, <1>7 DEF Reach
  <1> QED
    BY <1>8, <1>9

-----------------------------------------------------------------------------
(* What the phases of a collection know.                                   *)

\* Program cells and the objects that are allocated: what may be dereferenced.
Good == live \cup Code

\* True in every phase.
Structure ==
    /\ Global \in live /\ Global \in roots
    /\ roots \subseteq Good
    /\ \A c \in Code : kids[c] \subseteq Code
    /\ \A n \in Managed \ live : kids[n] = {}
    /\ marked \cap Managed \subseteq live
    /\ new.kids \subseteq Reachable
    /\ pc = "run" => new = NoObject
    /\ work \subseteq Good
    /\ pc \notin {"premark", "unmark", "mark"} => work = {}
    /\ pc # "mark" => todo = {}
    /\ todo \subseteq roots
    /\ idx <= MaxNumBlocks + MaxNumEnvironments

\* Except while the sweep is under way, no allocated object points to a freed one.
NoStalePointer == pc # "sweep" => \A n \in live : kids[n] \subseteq Good

\* The entries the unmarking loops have passed are unmarked, or about to be.
Unmarking ==
    pc = "unmark" => \A n \in live \cap marked : n >= idx \/ n \in work

\* Only reachable objects are marked; a marked object's pointers, and the roots,
\* are marked or still to be visited.
Marking ==
    pc = "mark" =>
        /\ (marked \cup work) \cap Managed \subseteq Reachable
        /\ \A n \in marked \cap Managed : kids[n] \subseteq marked \cup work \cup Code
        /\ roots \subseteq marked \cup work \cup todo \cup Code

\* The marked objects are the reachable ones; those passed by the loop and still
\* allocated are marked.
Sweeping ==
    pc = "sweep" =>
        /\ marked \cap Managed \subseteq Reachable
        /\ \A n \in marked \cap Managed : kids[n] \subseteq marked \cup Code
        /\ roots \subseteq marked \cup Code
        /\ \A n \in live : n < idx => n \in marked

IInv ==
    /\ TypeOK
    /\ Structure
    /\ NoStalePointer
    /\ Unmarking
    /\ Marking
    /\ Sweeping
    /\ Precise

-----------------------------------------------------------------------------
\* The two tables are disjoint and lie one after the other.
LEMMA SlotFacts ==
    /\ Managed = 0 .. MaxNumBlocks + MaxNumEnvironments - 1
    /\ Blocks \cap Envs = {} /\ Blocks \subseteq Managed /\ Envs \subseteq Managed
    /\ Global \in Envs /\ 0 \in Blocks
    /\ Managed \subseteq Nat
    /\ \A kind \in Kinds : Slots(kind) \subseteq Managed /\ FirstSlot(kind) \in Slots(kind)
    /\ Objects = Managed \cup Code /\ Managed \cap Code = {}
  BY CapacityAssumption, CodeAssumption
     DEF Managed, Blocks, Envs, Global, Kinds, Slots, FirstSlot, Objects

LEMMA InitTypeOK == Init => TypeOK
  <1> SUFFICES ASSUME Init PROVE TypeOK
    OBVIOUS
  <1>1. /\ next["block"] \in Blocks /\ next["env"] \in Envs /\ DOMAIN next = Kinds
    <2>1. 1 % MaxNumBlocks \in 0 .. MaxNumBlocks - 1
      BY CapacityAssumption
    <2>2. 1 % MaxNumEnvironments \in 0 .. MaxNumEnvironments - 1
      BY CapacityAssumption
    <2> QED
      BY <2>1, <2>2, CapacityAssumption
         DEF Init, Kinds, Capacity, FirstSlot, Blocks, Envs
  <1>2. live \subseteq Managed /\ roots \subseteq Objects
    BY SlotFacts DEF Init
  <1>3. kids \in [Objects -> SUBSET Objects]
    BY SlotFacts DEF Init
  <1>4. inUse \in [Kinds -> Int] /\ new \in [kind : Kinds, kids : SUBSET Objects, marked : BOOLEAN]
    BY DEF Init, NoObject, Kinds
  <1> QED
    BY <1>1, <1>2, <1>3, <1>4 DEF Init, TypeOK, Phases

LEMMA CallsType ==
    ASSUME TypeOK, NEW n \in Objects, NEW flag \in BOOLEAN
    PROVE  Calls(n, flag) \subseteq kids[n] /\ Calls(n, flag) \subseteq Objects
  BY DEF TypeOK, Calls

LEMMA VisitTypeOK ==
    ASSUME TypeOK, NEW n, NEW flag \in BOOLEAN, Visit(n, flag)
    PROVE  TypeOK'
  <1>1. n \in Objects
    BY DEF Visit, TypeOK
  <1>2. work' \subseteq Objects /\ marked' \subseteq Objects
    BY <1>1, CallsType DEF Visit, TypeOK
  <1> QED
    BY <1>2 DEF Visit, TypeOK, tables

LEMMA MutateTypeOK ==
    ASSUME TypeOK, Mutate  PROVE TypeOK'
  <1>1. ASSUME NEW K \in SUBSET Objects, DataCreate(K)  PROVE TypeOK'
    BY <1>1 DEF TypeOK, DataCreate, tables, Kinds, Phases
  <1>2. ASSUME NEW parent \in Envs, EnvCreate(parent)  PROVE TypeOK'
    <2>1. new' \in [kind : Kinds, kids : SUBSET Objects, marked : BOOLEAN]
      <3>1. {parent} \in SUBSET Objects /\ "env" \in Kinds
        BY SlotFacts DEF Kinds
      <3>2. \A m \in BOOLEAN : [kind |-> "env", kids |-> {parent}, marked |-> m]
                                 \in [kind : Kinds, kids : SUBSET Objects, marked : BOOLEAN]
        BY <3>1
      <3> QED
        BY <1>2, <3>2 DEF EnvCreate
    <2>2. pc' \in Phases /\ work' \subseteq Objects
      BY <1>2, SlotFacts DEF EnvCreate, Phases, TypeOK
    <2> QED
      BY <1>2, <2>1, <2>2 DEF TypeOK, EnvCreate, tables
  <1>3. ASSUME NEW e \in Envs, NEW v \in Objects, NEW gone \in SUBSET Objects,
               EnvSet(e, v, gone)
        PROVE  TypeOK'
    BY <1>3, SlotFacts DEF TypeOK, EnvSet, tables
  <1>4. ASSUME NEW last \in Blocks, NEW cell \in Blocks, AppendToLast(last, cell)
        PROVE  TypeOK'
    BY <1>4, SlotFacts DEF TypeOK, AppendToLast, tables
  <1>5. ASSUME NEW n \in Objects, Load(n) \/ Drop(n)  PROVE TypeOK'
    BY <1>5 DEF TypeOK, Load, Drop, tables
  <1> QED
    BY <1>1, <1>2, <1>3, <1>4, <1>5 DEF Mutate

LEMMA CollectTypeOK ==
    ASSUME TypeOK, Collect  PROVE TypeOK'
  <1>1. ASSUME Premark  PROVE TypeOK'
    <2>1. CASE \E n \in work : Visit(n, TRUE)
      BY <2>1, VisitTypeOK
    <2>2. CASE /\ pc' = "unmark" /\ idx' = 0
               /\ UNCHANGED <<tables, kids, marked, roots, new, todo, work>>
      BY <2>2 DEF TypeOK, tables, Phases
    <2> QED
      BY <1>1, <2>1, <2>2 DEF Premark
  <1>2. ASSUME Unmark  PROVE TypeOK'
    <2>1. ASSUME UnmarkNext  PROVE TypeOK'
      <3>1. work' \subseteq Objects /\ todo' \subseteq Objects
        BY <2>1, SlotFacts DEF UnmarkNext, TypeOK
      <3>2. idx' \in Nat /\ pc' \in Phases
        BY <2>1, <1>2 DEF UnmarkNext, TypeOK, Phases
      <3> QED
        BY <2>1, <3>1, <3>2 DEF UnmarkNext, TypeOK, tables
    <2> QED
      BY <1>2, <2>1, VisitTypeOK DEF Unmark
  <1>3. ASSUME Mark  PROVE TypeOK'
    <2>1. ASSUME MarkNext  PROVE TypeOK'
      BY <2>1, <1>3 DEF MarkNext, TypeOK, tables, Phases
    <2> QED
      BY <1>3, <2>1, VisitTypeOK DEF Mark
  <1>4. ASSUME Sweep  PROVE TypeOK'
    <2>1. CASE idx \in live \ marked /\ idx \in Managed
      <3>1. live' \subseteq Managed /\ kids' \in [Objects -> SUBSET Objects]
        <4>1. live' = live \ {idx} /\ kids' = [kids EXCEPT ![idx] = {}]
          BY <1>4, <2>1 DEF Sweep, Free
        <4> QED  BY <4>1, SlotFacts DEF TypeOK
      <3>2. inUse' \in [Kinds -> Int]
        BY <1>4, <2>1 DEF Sweep, Free, TypeOK, Kinds
      <3> QED
        BY <1>4, <2>1, <3>1, <3>2, SlotFacts DEF Sweep, TypeOK, Phases
    <2>2. CASE ~(idx \in live \ marked /\ idx \in Managed)
      <3>1. idx' \in Nat /\ pc' \in Phases
        BY <1>4, <2>2 DEF Sweep, TypeOK, Phases
      <3>2. UNCHANGED <<live, kids, inUse>>
        BY <1>4, <2>2 DEF Sweep
      <3> QED
        BY <1>4, <3>1, <3>2 DEF Sweep, TypeOK
    <2> QED
      BY <2>1, <2>2
  <1>5. ASSUME CheckRoom  PROVE TypeOK'
    BY <1>5 DEF CheckRoom, TypeOK, tables, Phases
  <1>6. ASSUME Insert  PROVE TypeOK'
    <2>1. PICK n \in Slots(new.kind) \ live :
            /\ live' = live \cup {n}
            /\ kids' = [kids EXCEPT ![n] = new.kids]
            /\ marked' = IF new.marked THEN marked \cup {n} ELSE marked \ {n}
            /\ roots' = roots \cup {n}
            /\ next' = [next EXCEPT ![new.kind] = SpotAfter(new.kind, n)]
      BY <1>6 DEF Insert
    <2>2. new.kind \in Kinds /\ n \in Managed /\ n \in Objects /\ new.kids \subseteq Objects
      BY SlotFacts DEF TypeOK
    <2>3. SpotAfter(new.kind, n) \in Slots(new.kind)
      BY <2>2, SlotFacts DEF SpotAfter
    <2>4. next'["block"] \in Blocks /\ next'["env"] \in Envs /\ DOMAIN next' = Kinds
      BY <2>1, <2>2, <2>3 DEF TypeOK, Kinds, Slots
    <2>5. inUse' \in [Kinds -> Int]
      BY <1>6, <2>2 DEF Insert, TypeOK
    <2>6. /\ live' \subseteq Managed /\ kids' \in [Objects -> SUBSET Objects]
          /\ marked' \subseteq Objects /\ roots' \subseteq Objects
      BY <2>1, <2>2 DEF TypeOK
    <2> QED
      BY <1>6, <2>4, <2>5, <2>6 DEF Insert, TypeOK, NoObject, Kinds, Phases
  <1> QED
    BY <1>1, <1>2, <1>3, <1>4, <1>5, <1>6 DEF Collect

\* Type correctness, for tables of any size.
THEOREM Typing == Spec => []TypeOK
  <1>1. TypeOK /\ [Next]_vars => TypeOK'
    <2> SUFFICES ASSUME TypeOK, [Next]_vars PROVE TypeOK'
      OBVIOUS
    <2>1. CASE UNCHANGED vars
      BY <2>1 DEF vars, TypeOK
    <2> QED
      BY <2>1, MutateTypeOK, CollectTypeOK DEF Next
  <1> QED
    BY InitTypeOK, <1>1, PTL DEF Spec

-----------------------------------------------------------------------------
LEMMA InitIInv == Init => IInv
  <1> SUFFICES ASSUME Init PROVE IInv
    OBVIOUS
  <1>1. TypeOK
    BY InitTypeOK
  <1>2. roots \subseteq Good /\ Global \in live /\ (\A n \in Managed : kids[n] = {})
    BY DEF Init, Good
  <1>3. \A c \in Code : kids[c] \subseteq Code
    BY SlotFacts DEF Init
  <1>4. Structure
    BY <1>2, <1>3, CapacityAssumption DEF Init, Structure, NoObject
  <1>5. NoStalePointer
    BY <1>1, <1>2 DEF NoStalePointer, TypeOK
  <1> QED
    BY <1>1, <1>4, <1>5 DEF Init, IInv, Unmarking, Marking, Sweeping, Precise

\* While the sweep is under way the marked objects are the reachable ones.
LEMMA SweepReach ==
    ASSUME IInv, pc = "sweep"
    PROVE  Reachable \subseteq (marked \cap Managed) \cup Code
  <1> DEFINE S == (marked \cap Managed) \cup Code
  <1>1. S \subseteq DOMAIN kids /\ roots \subseteq S
    BY SlotFacts DEF IInv, Sweeping, TypeOK
  <1>2. \A n \in S : kids[n] \subseteq S
    <2>1. \A n \in Code : kids[n] \subseteq S
      BY DEF IInv, Structure
    <2>2. \A n \in marked \cap Managed : kids[n] \subseteq S
      BY SlotFacts DEF IInv, Sweeping, TypeOK
    <2> QED BY <2>1, <2>2
  <1> QED
    BY <1>1, <1>2, ReachInClosed DEF Reachable, Closed

\* The evaluator can only reach allocated objects.
LEMMA ReachGood ==
    ASSUME IInv  PROVE Reachable \subseteq Good
  <1>1. CASE pc = "sweep"
    BY <1>1, SweepReach DEF IInv, Structure, Good
  <1>2. CASE pc # "sweep"
    <2>1. Good \subseteq DOMAIN kids /\ roots \subseteq Good
      BY SlotFacts DEF IInv, Structure, TypeOK, Good
    <2>2. Closed(Good, kids)
      BY <1>2 DEF IInv, Structure, NoStalePointer, Closed, Good
    <2> QED
      BY <2>1, <2>2, ReachInClosed DEF Reachable
  <1> QED
    BY <1>1, <1>2

LEMMA ReachType == ASSUME TypeOK PROVE Reachable \subseteq Objects
  BY DEF TypeOK, Reachable, Reach

-----------------------------------------------------------------------------
(* The evaluator's steps.                                                  *)

LEMMA DataCreateIInv ==
    ASSUME IInv, NEW K \in SUBSET Objects, DataCreate(K)
    PROVE  IInv'
  <1>1. TypeOK'
    BY MutateTypeOK DEF IInv, Mutate
  <1>2. UNCHANGED <<live, inUse, next, kids, marked, roots, todo, work>> /\ Reachable' = Reachable
    BY DEF DataCreate, tables, Reachable
  <1>3. pc = "run" /\ pc' \in {"unmark", "insert"} /\ idx' = 0 /\ new'.kids \subseteq Reachable
    BY DEF DataCreate
  <1>4. Structure'
    BY <1>2, <1>3, CapacityAssumption DEF IInv, Structure, Good
  <1>5. NoStalePointer' /\ Marking' /\ Sweeping' /\ Precise'
    BY <1>2, <1>3 DEF IInv, NoStalePointer, Marking, Sweeping, Precise, Good
  <1>6. Unmarking'
    <2>1. \A n \in Managed : n >= 0
      BY SlotFacts
    <2> QED
      BY <1>1, <1>3, <2>1 DEF Unmarking, TypeOK
  <1> QED
    BY <1>1, <1>4, <1>5, <1>6 DEF IInv

LEMMA EnvCreateIInv ==
    ASSUME IInv, NEW parent \in Envs, EnvCreate(parent)
    PROVE  IInv'
  <1>1. TypeOK'
    BY MutateTypeOK DEF IInv, Mutate
  <1>2. UNCHANGED <<live, inUse, next, kids, marked, roots, idx, todo>> /\ Reachable' = Reachable
    BY DEF EnvCreate, tables, Reachable
  <1>3. /\ pc = "run" /\ pc' \in {"premark", "insert"}
        /\ new'.kids \subseteq Reachable
        /\ work' \subseteq Good /\ (pc' = "insert" => work' = {})
    BY ReachGood DEF EnvCreate, IInv, Structure
  <1>4. Structure'
    BY <1>2, <1>3 DEF IInv, Structure, Good
  <1>5. NoStalePointer' /\ Unmarking' /\ Marking' /\ Sweeping' /\ Precise'
    BY <1>2, <1>3 DEF IInv, NoStalePointer, Unmarking, Marking, Sweeping, Precise, Good
  <1> QED
    BY <1>1, <1>4, <1>5 DEF IInv

\* Storing a pointer to a reachable object into an allocated one.
LEMMA LinkIInv ==
    ASSUME IInv, pc = "run", TypeOK',
           NEW n \in live, NEW X \in SUBSET Good, kids' = [kids EXCEPT ![n] = X],
           UNCHANGED <<tables, marked, roots, new, pc, idx, todo, work>>
    PROVE  IInv'
  <1>1. \A m \in Objects \ {n} : kids'[m] = kids[m]
    BY DEF IInv, TypeOK
  <1>2. kids'[n] = X /\ n \in Managed
    BY SlotFacts DEF IInv, TypeOK
  <1>3. new'.kids = {}
    BY DEF IInv, Structure, NoObject
  <1>4. Good' = Good /\ (\A m \in live : kids'[m] \subseteq Good)
    BY <1>1, <1>2, SlotFacts DEF IInv, NoStalePointer, TypeOK, tables, Good
  <1>5. (\A c \in Code : kids'[c] \subseteq Code) /\ (\A m \in Managed \ live : kids'[m] = {})
    BY <1>1, <1>2, SlotFacts DEF IInv, Structure
  <1>6. Structure'
    BY <1>3, <1>4, <1>5 DEF IInv, Structure, tables
  <1> QED
    BY <1>4, <1>6 DEF IInv, NoStalePointer, Unmarking, Marking, Sweeping, Precise, tables

LEMMA LinksIInv ==
    ASSUME IInv,
           \/ \E e \in Envs, v \in Objects, gone \in SUBSET Objects : EnvSet(e, v, gone)
           \/ \E last, cell \in Blocks : AppendToLast(last, cell)
    PROVE  IInv'
  <1>0. TypeOK'
    BY MutateTypeOK DEF IInv, Mutate
  <1>1. ASSUME NEW e \in Envs, NEW v \in Objects, NEW gone \in SUBSET Objects,
               EnvSet(e, v, gone)
        PROVE  IInv'
    <2>1. e \in live /\ v \in Good
      BY <1>1, ReachGood, SlotFacts DEF EnvSet, Good
    <2>2. (kids[e] \ gone) \cup {v} \subseteq Good
      BY <1>1, <2>1 DEF IInv, NoStalePointer, EnvSet
    <2> QED
      BY <1>0, <1>1, <2>1, <2>2, LinkIInv DEF EnvSet
  <1>2. ASSUME NEW last \in Blocks, NEW cell \in Blocks, AppendToLast(last, cell)
        PROVE  IInv'
    <2>1. last \in live /\ cell \in Good
      BY <1>2, ReachGood, SlotFacts DEF AppendToLast, Good
    <2>2. kids[last] \cup {cell} \subseteq Good
      BY <1>2, <2>1 DEF IInv, NoStalePointer, AppendToLast
    <2> QED
      BY <1>0, <1>2, <2>1, <2>2, LinkIInv DEF AppendToLast
  <1> QED
    BY <1>1, <1>2

LEMMA RootsIInv ==
    ASSUME IInv, NEW n \in Objects, Load(n) \/ Drop(n)
    PROVE  IInv'
  <1>1. TypeOK'
    BY MutateTypeOK DEF IInv, Mutate
  <1>2. roots' \subseteq Good /\ Global \in roots'
    BY ReachGood DEF IInv, Structure, Load, Drop, Good
  <1>3. UNCHANGED <<live, kids, marked, new, pc, idx, todo, work>> /\ pc = "run"
    BY DEF Load, Drop, tables
  <1>4. new'.kids = {} /\ todo' = {} /\ Good' = Good
    BY <1>3 DEF IInv, Structure, NoObject, Good
  <1>5. Structure'
    BY <1>2, <1>3, <1>4 DEF IInv, Structure
  <1> QED
    BY <1>1, <1>3, <1>4, <1>5
       DEF IInv, NoStalePointer, Unmarking, Marking, Sweeping, Precise

LEMMA MutateIInv == ASSUME IInv, Mutate PROVE IInv'
  BY DataCreateIInv, EnvCreateIInv, LinksIInv, RootsIInv DEF Mutate

-----------------------------------------------------------------------------
(* The collector's steps.                                                  *)

\* A visited object's pointers are marked or to be visited; visits stay
\* within what is allocated.
LEMMA VisitFacts ==
    ASSUME IInv, pc # "sweep", NEW flag \in BOOLEAN, NEW n, Visit(n, flag)
    PROVE  /\ n \in Good /\ n \in Objects /\ kids[n] \subseteq Good
           /\ work' \subseteq Good /\ work' \subseteq (work \cup kids[n]) \ {n}
           /\ UNCHANGED <<live, inUse, next, kids, roots, new, pc, idx, todo>>
           /\ Reachable' = Reachable /\ Good' = Good
  <1>1. n \in Good /\ n \in Objects
    BY DEF IInv, Structure, Visit, TypeOK
  <1>2. kids[n] \subseteq Good
    BY <1>1 DEF IInv, NoStalePointer, Structure, Good
  <1>3. Calls(n, flag) \subseteq kids[n]
    BY <1>1, CallsType DEF IInv
  <1>4. work \subseteq Good
    BY DEF IInv, Structure
  <1>5. UNCHANGED <<live, inUse, next, kids, roots, new, pc, idx, todo>>
    BY DEF Visit, tables
  <1> QED
    BY <1>1, <1>2, <1>3, <1>4, <1>5 DEF Visit, Reachable, Good

LEMMA VisitStructure ==
    ASSUME IInv, pc \in {"premark", "unmark", "mark"}, NEW flag \in BOOLEAN, NEW n, Visit(n, flag)
    PROVE  TypeOK' /\ Structure' /\ NoStalePointer' /\ Sweeping' /\ Precise'
  <1>1. TypeOK'
    BY VisitTypeOK DEF IInv
  <1>2. marked' \cap Managed \subseteq live
    BY VisitFacts, SlotFacts DEF Visit, IInv, Structure, Good
  <1>3. Structure'
    BY <1>2, VisitFacts DEF IInv, Structure
  <1> QED
    BY <1>1, <1>3, VisitFacts DEF IInv, NoStalePointer, Sweeping, Precise

LEMMA PremarkIInv == ASSUME IInv, Premark PROVE IInv'
  <1>1. pc = "premark"
    BY DEF Premark
  <1>2. ASSUME NEW n \in work, Visit(n, TRUE)  PROVE IInv'
    <2>1. pc' = "premark"
      BY <1>1, <1>2 DEF Visit
    <2> QED
      BY <1>1, <1>2, <2>1, VisitStructure DEF IInv, Unmarking, Marking
  <1>3. ASSUME work = {}, pc' = "unmark", idx' = 0,
               UNCHANGED <<tables, kids, marked, roots, new, todo, work>>
        PROVE  IInv'
    <2>1. TypeOK'
      BY <1>3, CollectTypeOK DEF IInv, Collect
    <2>2. Reachable' = Reachable /\ Good' = Good
      BY <1>3 DEF Reachable, Good, tables
    <2>3. Structure'
      BY <1>1, <1>3, <2>2, CapacityAssumption DEF IInv, Structure, tables
    <2>4. Unmarking'
      <3>1. \A n \in Managed : n >= 0
        BY SlotFacts
      <3> QED
        BY <1>3, <2>1, <3>1 DEF Unmarking, TypeOK
    <2> QED
      BY <1>1, <1>3, <2>1, <2>2, <2>3, <2>4
         DEF IInv, NoStalePointer, Marking, Sweeping, Precise, tables
  <1> QED
    BY <1>2, <1>3 DEF Premark

LEMMA UnmarkIInv == ASSUME IInv, Unmark PROVE IInv'
  <1>1. pc = "unmark"
    BY DEF Unmark
  <1>2. ASSUME NEW n \in work, Visit(n, FALSE)  PROVE IInv'
    <2>1. pc' = "unmark" /\ marked' = marked \ {n} /\ work \ {n} \subseteq work'
      BY <1>1, <1>2 DEF Visit
    <2>2. Unmarking'
      BY <1>1, <1>2, <2>1, VisitFacts DEF IInv, Unmarking
    <2> QED
      BY <1>1, <1>2, <2>1, <2>2, VisitStructure DEF IInv, Marking
  <1>3. ASSUME UnmarkNext  PROVE IInv'
    <2>1. TypeOK'
      BY <1>3, CollectTypeOK, <1>1 DEF IInv, Collect, Unmark
    <2>2. UNCHANGED <<live, inUse, next, kids, marked, roots, new>> /\ work = {}
          /\ Reachable' = Reachable /\ Good' = Good
      BY <1>3 DEF UnmarkNext, Reachable, Good, tables
    <2>3. CASE idx \in Managed
      <3>1. work' = {idx} \cap live /\ idx' = idx + 1 /\ pc' = "unmark" /\ todo' = todo
        BY <1>1, <1>3, <2>3 DEF UnmarkNext
      <3>2. idx' <= MaxNumBlocks + MaxNumEnvironments
        BY <2>3, <3>1, SlotFacts, CapacityAssumption
      <3>3. Structure'
        BY <1>1, <2>2, <3>1, <3>2 DEF IInv, Structure, Good
      <3>4. \A n \in live \cap marked : n >= idx' \/ n \in work'
        <4>1. \A n \in live \cap marked : n >= idx /\ n \in Nat
          BY <1>1, <2>2, SlotFacts DEF IInv, Unmarking, TypeOK
        <4> QED
          BY <3>1, <4>1 DEF IInv, TypeOK
      <3> QED
        BY <1>1, <2>1, <2>2, <3>1, <3>3, <3>4
           DEF IInv, NoStalePointer, Unmarking, Marking, Sweeping, Precise
    <2>4. CASE idx \notin Managed
      <3>1. work' = {} /\ idx' = idx /\ pc' = "mark" /\ todo' = roots
        BY <1>3, <2>2, <2>4 DEF UnmarkNext
      <3>2. live \cap marked = {}
        <4>1. \A n \in Managed : n < idx
          BY <2>4, SlotFacts, CapacityAssumption DEF IInv, TypeOK
        <4> QED
          BY <1>1, <2>2, <4>1, SlotFacts DEF IInv, Unmarking, TypeOK
      <3>3. marked \cap Managed = {}
        BY <3>2 DEF IInv, Structure
      <3>4. Structure'
        BY <1>1, <2>2, <3>1 DEF IInv, Structure, Good
      <3> QED
        BY <1>1, <2>1, <2>2, <3>1, <3>3, <3>4
           DEF IInv, NoStalePointer, Unmarking, Marking, Sweeping, Precise
    <2> QED
      BY <2>3, <2>4
  <1> QED
    BY <1>2, <1>3 DEF Unmark

LEMMA MarkIInv == ASSUME IInv, Mark PROVE IInv'
  <1>1. pc = "mark"
    BY DEF Mark
  <1>2. ASSUME NEW n \in work, Visit(n, TRUE)  PROVE IInv'
    <2>1. pc' = "mark" /\ marked' = marked \cup {n} /\ work' = (work \cup Calls(n, TRUE)) \ {n}
      BY <1>1, <1>2 DEF Visit
    <2>2. (marked' \cup work') \cap Managed \subseteq Reachable
      <3>1. (marked \cup work) \cap Managed \subseteq Reachable
        BY <1>1 DEF IInv, Marking
      <3>2. CASE n \in Managed
        <4>1. kids[n] \subseteq Reachable
          BY <3>1, <3>2, ReachClosed DEF Reachable, Closed, IInv, TypeOK
        <4> QED
          BY <1>1, <1>2, <2>1, <3>1, <4>1, VisitFacts
      <3>3. CASE n \notin Managed
        <4>1. kids[n] \cap Managed = {}
          BY <1>1, <1>2, <3>3, VisitFacts, SlotFacts DEF IInv, Structure
        <4> QED
          BY <1>1, <1>2, <2>1, <3>1, <3>3, <4>1, VisitFacts
      <3> QED
        BY <3>2, <3>3
    <2>3. \A m \in marked' \cap Managed : kids[m] \subseteq marked' \cup work' \cup Code
      <3>1. \A m \in marked \cap Managed : kids[m] \subseteq marked \cup work \cup Code
        BY <1>1 DEF IInv, Marking
      <3>2. CASE n \in Managed /\ n \notin marked
        <4>1. kids[n] \subseteq marked \cup Calls(n, TRUE)
          BY <3>2 DEF Calls
        <4> QED
          BY <2>1, <3>1, <4>1
      <3>3. CASE n \notin Managed \/ n \in marked
        BY <2>1, <3>1, <3>3
      <3> QED
        BY <3>2, <3>3
    <2>4. roots \subseteq marked' \cup work' \cup todo \cup Code
      BY <1>1, <2>1 DEF IInv, Marking
    <2>5. Marking'
      BY <1>1, <1>2, <2>2, <2>3, <2>4, VisitFacts DEF Marking
    <2> QED
      BY <1>1, <1>2, <2>1, <2>5, VisitStructure DEF IInv, Unmarking
  <1>3. ASSUME MarkNext  PROVE IInv'
    <2>1. TypeOK'
      BY <1>1, <1>3, CollectTypeOK DEF IInv, Collect, Mark
    <2>2. UNCHANGED <<live, inUse, next, kids, marked, roots, new>> /\ work = {}
          /\ Reachable' = Reachable /\ Good' = Good
      BY <1>3 DEF MarkNext, Reachable, Good, tables
    <2>3. CASE todo # {}
      <3>1. PICK r \in todo : work' = {r} /\ todo' = todo \ {r} /\ pc' = "mark" /\ idx' = idx
        BY <1>1, <1>3, <2>3 DEF MarkNext
      <3>2. r \in roots /\ r \in Good /\ r \in Reachable
        BY <3>1, ReachRoots DEF IInv, Structure, TypeOK, Reachable
      <3>3. Structure'
        BY <1>1, <2>2, <3>1, <3>2 DEF IInv, Structure
      <3>4. Marking'
        BY <1>1, <2>2, <3>1, <3>2 DEF IInv, Marking
      <3> QED
        BY <1>1, <2>1, <2>2, <3>1, <3>3, <3>4
           DEF IInv, NoStalePointer, Unmarking, Sweeping, Precise
    <2>4. CASE todo = {}
      <3>1. work' = {} /\ todo' = {} /\ pc' = "sweep" /\ idx' = 0
        BY <1>3, <2>2, <2>4 DEF MarkNext
      <3>2. Structure'
        BY <1>1, <2>2, <3>1, CapacityAssumption DEF IInv, Structure
      <3>3. \A n \in live' : ~(n < idx')
        BY <2>1, <3>1, SlotFacts DEF TypeOK
      <3>4. Sweeping'
        BY <1>1, <2>2, <2>4, <3>1, <3>3 DEF IInv, Marking, Sweeping
      <3> QED
        BY <1>1, <2>1, <2>2, <3>1, <3>2, <3>4
           DEF IInv, NoStalePointer, Unmarking, Marking, Precise
    <2> QED
      BY <2>3, <2>4
  <1> QED
    BY <1>2, <1>3 DEF Mark

\* Freeing an unmarked entry leaves what is reachable as it was.
LEMMA FreeIInv ==
    ASSUME IInv, Sweep, idx \in Managed, idx \in live \ marked
    PROVE  IInv' /\ idx \notin Reachable
  <1>1. /\ pc = "sweep" /\ pc' = "sweep" /\ idx' = idx + 1
        /\ live' = live \ {idx} /\ kids' = [kids EXCEPT ![idx] = {}]
        /\ UNCHANGED <<marked, roots, next, new, todo, work>>
    BY DEF Sweep, Free
  <1>2. TypeOK'
    BY CollectTypeOK DEF IInv, Collect
  <1>3. idx \notin Reachable
    BY <1>1, SweepReach, SlotFacts
  <1>4. Reachable' = Reachable
    <2>1. /\ kids \in [Objects -> SUBSET Objects] /\ roots \in SUBSET Objects
          /\ kids' \in [Objects -> SUBSET Objects] /\ idx \notin Reach(roots, kids)
          /\ \A m \in Objects \ {idx} : kids'[m] = kids[m]
      BY <1>1, <1>2, <1>3 DEF IInv, TypeOK, Reachable
    <2>2. Reach(roots, kids') = Reach(roots, kids)
      BY <2>1, ReachUnaffected
    <2> QED
      BY <1>1, <2>2 DEF Reachable
  <1>5. \A m \in Objects \ {idx} : kids'[m] = kids[m]
    BY <1>1 DEF IInv, TypeOK
  <1>6. kids'[idx] = {}
    BY <1>1, SlotFacts DEF IInv, TypeOK
  <1>7. roots \subseteq live' \cup Code /\ Global \in live'
    BY <1>1, SlotFacts DEF IInv, Sweeping, Structure, Good
  <1>8. \A c \in Code : kids'[c] \subseteq Code
    BY <1>5, SlotFacts DEF IInv, Structure
  <1>9. \A n \in Managed \ live' : kids'[n] = {}
    BY <1>1, <1>5, <1>6, SlotFacts DEF IInv, Structure
  <1>10. idx' <= MaxNumBlocks + MaxNumEnvironments
    BY <1>1, SlotFacts, CapacityAssumption
  <1>11. Structure'
    BY <1>1, <1>4, <1>7, <1>8, <1>9, <1>10 DEF IInv, Structure, Good
  <1>12. \A n \in marked \cap Managed : kids'[n] \subseteq marked \cup Code
    BY <1>1, <1>5, SlotFacts DEF IInv, Sweeping
  <1>13. \A n \in live' : n < idx' => n \in marked
    BY <1>1, SlotFacts DEF IInv, Sweeping, TypeOK
  <1>14. Sweeping'
    BY <1>1, <1>4, <1>12, <1>13 DEF IInv, Sweeping
  <1> QED
    BY <1>1, <1>2, <1>3, <1>11, <1>14 DEF IInv, NoStalePointer, Unmarking, Marking, Precise

LEMMA SweepIInv == ASSUME IInv, Sweep PROVE IInv'
  <1>1. pc = "sweep" /\ TypeOK'
    BY CollectTypeOK DEF IInv, Collect, Sweep
  <1>2. CASE idx \in Managed /\ idx \notin live \ marked
    <2>1. /\ idx' = idx + 1 /\ pc' = "sweep" /\ Reachable' = Reachable /\ Good' = Good
          /\ UNCHANGED <<live, kids, inUse, marked, roots, next, new, todo, work>>
      BY <1>1, <1>2 DEF Sweep, Reachable, Good
    <2>2. idx' <= MaxNumBlocks + MaxNumEnvironments
      BY <1>2, <2>1, SlotFacts, CapacityAssumption
    <2>3. Structure'
      BY <1>1, <2>1, <2>2 DEF IInv, Structure
    <2>4. \A n \in live : n < idx' => n \in marked
      BY <1>1, <1>2, <2>1, SlotFacts DEF IInv, Sweeping, TypeOK
    <2> QED
      BY <1>1, <2>1, <2>3, <2>4 DEF IInv, NoStalePointer, Unmarking, Marking, Sweeping, Precise
  <1>3. CASE idx \notin Managed
    <2>1. /\ idx' = idx /\ pc' = "collected" /\ Reachable' = Reachable /\ Good' = Good
          /\ UNCHANGED <<live, kids, inUse, marked, roots, next, new, todo, work>>
      BY <1>3 DEF Sweep, Reachable, Good
    <2>2. live = marked \cap Managed
      <3>1. \A n \in Managed : n < idx
        BY <1>3, SlotFacts, CapacityAssumption DEF IInv, TypeOK
      <3> QED
        BY <1>1, <3>1 DEF IInv, Sweeping, TypeOK, Structure
    <2>3. live = Reachable \cap Managed
      BY <1>1, <2>2, SweepReach, SlotFacts DEF IInv, Sweeping
    <2>4. \A n \in live : kids[n] \subseteq Good
      BY <1>1, <2>2, SlotFacts DEF IInv, Sweeping, TypeOK, Good
    <2>5. Structure'
      BY <1>1, <2>1 DEF IInv, Structure
    <2> QED
      BY <1>1, <2>1, <2>3, <2>4, <2>5 DEF IInv, NoStalePointer, Unmarking, Marking, Sweeping, Precise
  <1> QED
    BY <1>2, <1>3, FreeIInv

LEMMA CheckRoomIInv == ASSUME IInv, CheckRoom PROVE IInv'
  <1>1. /\ pc = "collected" /\ pc' \in {"exit", "insert"} /\ idx' = 0
        /\ UNCHANGED <<tables, kids, marked, roots, new, todo, work>>
        /\ Reachable' = Reachable /\ Good' = Good
    BY DEF CheckRoom, Reachable, Good, tables
  <1>2. TypeOK'
    BY CollectTypeOK DEF IInv, Collect
  <1>3. Structure'
    BY <1>1, CapacityAssumption DEF IInv, Structure, tables
  <1> QED
    BY <1>1, <1>2, <1>3 DEF IInv, NoStalePointer, Unmarking, Marking, Sweeping, Precise, tables

LEMMA InsertIInv == ASSUME IInv, Insert PROVE IInv'
  <1>1. PICK n \in Slots(new.kind) \ live :
          /\ live' = live \cup {n}
          /\ kids' = [kids EXCEPT ![n] = new.kids]
          /\ marked' = IF new.marked THEN marked \cup {n} ELSE marked \ {n}
          /\ roots' = roots \cup {n}
    BY DEF Insert
  <1>2. pc = "insert" /\ pc' = "run" /\ new' = NoObject /\ UNCHANGED <<idx, todo, work>>
    BY DEF Insert
  <1>3. TypeOK'
    BY CollectTypeOK DEF IInv, Collect
  <1>4. n \in Managed /\ n \in Objects
    BY SlotFacts DEF IInv, TypeOK
  <1>5. new.kids \subseteq Good
    BY ReachGood DEF IInv, Structure
  <1>6. (\A m \in Objects \ {n} : kids'[m] = kids[m]) /\ kids'[n] = new.kids
    BY <1>1, <1>4 DEF IInv, TypeOK
  <1>7. Good' = Good \cup {n}
    BY <1>1 DEF Good
  <1>8. \A m \in live' : kids'[m] \subseteq Good'
    BY <1>1, <1>2, <1>5, <1>6, <1>7, SlotFacts DEF IInv, NoStalePointer, TypeOK
  <1>9. \A c \in Code : kids'[c] \subseteq Code
    BY <1>4, <1>6, SlotFacts DEF IInv, Structure
  <1>10. \A m \in Managed \ live' : kids'[m] = {}
    BY <1>1, <1>6, SlotFacts DEF IInv, Structure
  <1>11. marked' \cap Managed \subseteq live'
    BY <1>1 DEF IInv, Structure
  <1>12. Structure'
    BY <1>1, <1>2, <1>7, <1>9, <1>10, <1>11 DEF IInv, Structure, NoObject
  <1> QED
    BY <1>2, <1>3, <1>8, <1>12 DEF IInv, NoStalePointer, Unmarking, Marking, Sweeping, Precise

LEMMA NextIInv == IInv /\ [Next]_vars => IInv'
  <1> SUFFICES ASSUME IInv, [Next]_vars PROVE IInv'
    OBVIOUS
  <1>1. CASE UNCHANGED vars
    BY <1>1 DEF vars, IInv, TypeOK, Structure, NoStalePointer, Unmarking, Marking, Sweeping,
                Precise, Reachable, Good
  <1>2. CASE Collect
    BY <1>2, PremarkIInv, UnmarkIInv, MarkIInv, SweepIInv, CheckRoomIInv, InsertIInv DEF Collect
  <1> QED
    BY <1>1, <1>2, MutateIInv DEF Next

\* The inductive invariant holds of every behaviour.
THEOREM Inductive == Spec => []IInv
  BY InitIInv, NextIInv, PTL DEF Spec

\* The collector never frees what the evaluator can still reach, nor what the
\* object under creation points to (NoDangling), in any phase.
THEOREM NeverDangling == Spec => []NoDangling
  <1>1. IInv => NoDangling
    BY ReachGood DEF NoDangling, IInv, Structure, Good
  <1> QED
    BY Inductive, <1>1, PTL

\* The collector itself follows pointers to allocated objects only.
THEOREM NeverTouchesFreed == Spec => []TouchesOnlyLive
  <1>1. IInv => TouchesOnlyLive
    BY DEF TouchesOnlyLive, IInv, Structure, Good
  <1> QED
    BY Inductive, <1>1, PTL

\* A finished collection has freed exactly the unreachable objects.
THEOREM ExactCollection == Spec => []Precise
  <1>1. IInv => Precise
    BY DEF IInv
  <1> QED
    BY Inductive, <1>1, PTL

-----------------------------------------------------------------------------
(* The counters and the limits.                                            *)

LEMMA SlotsFinite ==
    ASSUME NEW kind \in Kinds
    PROVE  IsFiniteSet(Slots(kind)) /\ Cardinality(Slots(kind)) = Capacity(kind)
  <1>1. IsFiniteSet(Blocks) /\ Cardinality(Blocks) = MaxNumBlocks
    BY FS_Interval, CapacityAssumption DEF Blocks
  <1>2. IsFiniteSet(Envs) /\ Cardinality(Envs) = MaxNumEnvironments
    BY FS_Interval, CapacityAssumption DEF Envs
  <1> QED
    BY <1>1, <1>2 DEF Slots, Capacity, Kinds

\* How the number of entries of a table follows an insertion and a removal.
Entries(S, kind) == Cardinality(S \cap Slots(kind))

LEMMA EntriesCount ==
    ASSUME NEW S, NEW kind \in Kinds, NEW n
    PROVE  /\ Entries(S, kind) \in Nat /\ Entries(S, kind) <= Capacity(kind)
           /\ Entries(S, kind) = Capacity(kind) => Slots(kind) \subseteq S
           /\ n \in Slots(kind) \ S => Entries(S \cup {n}, kind) = Entries(S, kind) + 1
           /\ n \in Slots(kind) \cap S => Entries(S \ {n}, kind) = Entries(S, kind) - 1
           /\ n \notin Slots(kind) => /\ Entries(S \cup {n}, kind) = Entries(S, kind)
                                     /\ Entries(S \ {n}, kind) = Entries(S, kind)
  <1> DEFINE T == S \cap Slots(kind)
  <1>1. IsFiniteSet(T) /\ Cardinality(T) \in Nat /\ Cardinality(T) <= Capacity(kind)
        /\ (Cardinality(T) = Capacity(kind) => T = Slots(kind))
    BY SlotsFinite, FS_Subset, FS_CardinalityType
  <1>2. ASSUME n \in Slots(kind) \ S
        PROVE  Cardinality((S \cup {n}) \cap Slots(kind)) = Cardinality(T) + 1
    <2>1. (S \cup {n}) \cap Slots(kind) = T \cup {n} /\ n \notin T
      BY <1>2
    <2> QED
      BY <1>1, <2>1, FS_AddElement
  <1>3. ASSUME n \in Slots(kind) \cap S
        PROVE  Cardinality((S \ {n}) \cap Slots(kind)) = Cardinality(T) - 1
    <2>1. (S \ {n}) \cap Slots(kind) = T \ {n} /\ n \in T
      BY <1>3
    <2> QED
      BY <1>1, <2>1, FS_RemoveElement
  <1>4. ASSUME n \notin Slots(kind)
        PROVE  (S \cup {n}) \cap Slots(kind) = T /\ (S \ {n}) \cap Slots(kind) = T
    BY <1>4
  <1> QED
    BY <1>1, <1>2, <1>3, <1>4 DEF Entries

Counted == \A kind \in Kinds : inUse[kind] = Entries(live, kind)

LEMMA InitCounted == Init => Counted
  <1> SUFFICES ASSUME Init, NEW kind \in Kinds PROVE 1 = Entries(live, kind)
    BY DEF Counted, Init
  <1>1. live \cap Slots(kind) = {FirstSlot(kind)}
    BY SlotFacts DEF Init, Slots, FirstSlot, Kinds, Global
  <1> QED
    BY <1>1, FS_Singleton DEF Entries

LEMMA NextCounted == TypeOK /\ Counted /\ [Next]_vars => Counted'
  <1> SUFFICES ASSUME TypeOK, Counted, [Next]_vars PROVE Counted'
    OBVIOUS
  <1>1. CASE UNCHANGED <<live, inUse>>
    BY <1>1 DEF Counted
  <1>2. ASSUME Sweep, idx \in Managed, idx \in live \ marked  PROVE Counted'
    <2>1. /\ live' = live \ {idx}
          /\ inUse' = [inUse EXCEPT ![IF idx \in Blocks THEN "block" ELSE "env"] = @ - 1]
      BY <1>2 DEF Sweep, Free
    <2> SUFFICES ASSUME NEW kind \in Kinds
                 PROVE  inUse'[kind] = Entries(live', kind)
      BY DEF Counted
    <2>2. idx \in Slots(kind) <=> kind = (IF idx \in Blocks THEN "block" ELSE "env")
      BY <1>2, SlotFacts DEF Managed, Slots, Kinds
    <2>3. inUse'[kind] = IF idx \in Slots(kind) THEN inUse[kind] - 1 ELSE inUse[kind]
      BY <2>1, <2>2 DEF TypeOK
    <2> QED
      BY <1>2, <2>1, <2>3, EntriesCount DEF Counted
  <1>3. ASSUME Insert  PROVE Counted'
    <2>1. PICK n \in Slots(new.kind) \ live : live' = live \cup {n}
      BY <1>3 DEF Insert
    <2>2. inUse' = [inUse EXCEPT ![new.kind] = @ + 1] /\ new.kind \in Kinds
      BY <1>3 DEF Insert, TypeOK
    <2> SUFFICES ASSUME NEW kind \in Kinds
                 PROVE  inUse'[kind] = Entries(live', kind)
      BY DEF Counted
    <2>3. n \in Slots(kind) <=> kind = new.kind
      BY <2>1, <2>2, SlotFacts DEF Slots, Kinds
    <2>4. inUse'[kind] = IF n \in Slots(kind) THEN inUse[kind] + 1 ELSE inUse[kind]
      BY <2>2, <2>3 DEF TypeOK
    <2> QED
      BY <2>1, <2>4, EntriesCount DEF Counted
  <1>4. CASE Sweep /\ ~(idx \in Managed /\ idx \in live \ marked)
    BY <1>1, <1>4 DEF Sweep
  <1>5. CASE Mutate
    <2>1. UNCHANGED <<live, inUse>>
      BY <1>5 DEF Mutate, DataCreate, EnvCreate, EnvSet, AppendToLast, Load, Drop, tables
    <2> QED
      BY <1>1, <2>1
  <1>6. CASE Premark \/ Unmark \/ Mark \/ CheckRoom
    <2>1. UNCHANGED <<live, inUse>>
      BY <1>6 DEF Premark, Unmark, Mark, CheckRoom, UnmarkNext, MarkNext, Visit, tables
    <2> QED
      BY <1>1, <2>1
  <1> QED
    BY <1>1, <1>2, <1>3, <1>4, <1>5, <1>6 DEF Next, Collect, vars

LEMMA AlwaysCounted == Spec => []Counted
  BY InitCounted, NextCounted, Typing, PTL DEF Spec

\* BlocksInUse and EnvironmentsInUse are exact at every step.
THEOREM CountsAreExact == Spec => []CountsAgree
  <1>1. Counted => CountsAgree
    <2>1. \A kind \in Kinds : Entries(live, kind) <= Capacity(kind)
      BY EntriesCount
    <2> QED
      BY <2>1 DEF Counted, CountsAgree, Entries
  <1> QED
    BY AlwaysCounted, <1>1, PTL

LEMMA NextExit ==
    IInv /\ Counted /\ ExitOnlyWhenFull /\ [Next]_vars => ExitOnlyWhenFull'
  <1> SUFFICES ASSUME IInv, Counted, ExitOnlyWhenFull, [Next]_vars, pc' = "exit"
               PROVE  Slots(new'.kind) \subseteq Reachable'
    BY DEF ExitOnlyWhenFull
  <1>1. CASE UNCHANGED vars
    BY <1>1 DEF vars, ExitOnlyWhenFull, Reachable
  <1>2. CASE CheckRoom
    <2>1. new' = new /\ Reachable' = Reachable /\ inUse[new.kind] = Capacity(new.kind)
      BY <1>2 DEF CheckRoom, Reachable
    <2>2. new.kind \in Kinds /\ live = Reachable \cap Managed
      BY <1>2 DEF CheckRoom, IInv, TypeOK, Precise
    <2> QED
      BY <2>1, <2>2, EntriesCount DEF Counted
  <1>3. CASE Next /\ ~CheckRoom
    BY <1>3 DEF Next, Mutate, Collect, DataCreate, EnvCreate, EnvSet, AppendToLast, Load, Drop,
                Premark, Unmark, Mark, Sweep, Insert, UnmarkNext, MarkNext, Visit
  <1> QED
    BY <1>1, <1>2, <1>3

\* The program gives up for lack of room only when all the room is reachable.
THEOREM ExitsOnlyWhenFull == Spec => []ExitOnlyWhenFull
  <1>1. Init => ExitOnlyWhenFull
    BY DEF Init, ExitOnlyWhenFull
  <1> QED
    BY <1>1, NextExit, Inductive, AlwaysCounted, PTL DEF Spec

-----------------------------------------------------------------------------
(* The collector implements ManagedHeap: a step of the evaluator is one of  *)
(* the abstract heap's, an insertion is an allocation, the freeing of a     *)
(* table entry is a reclamation, and every other step changes nothing the   *)
(* abstract heap has.                                                       *)

LEMMA SameReach == Heap!Accessible = Reachable
  BY DEF Heap!Accessible, Heap!Reach, Heap!Closed, Reachable, Reach, Closed

LEMMA MutateRefines ==
    ASSUME IInv, Mutate
    PROVE  Heap!Next \/ UNCHANGED <<live, kids, roots>>
  <1>1. ASSUME NEW K \in SUBSET Objects, DataCreate(K)  PROVE UNCHANGED <<live, kids, roots>>
    BY <1>1 DEF DataCreate, tables
  <1>2. ASSUME NEW parent \in Envs, EnvCreate(parent)  PROVE UNCHANGED <<live, kids, roots>>
    BY <1>2 DEF EnvCreate, tables
  <1>3. ASSUME NEW e \in Envs, NEW v \in Objects, NEW gone \in SUBSET Objects,
               EnvSet(e, v, gone)
        PROVE  Heap!Next
    <2>1. Heap!Link(e, v, gone)
      BY <1>3, SlotFacts, SameReach DEF EnvSet, tables, Heap!Link
    <2> QED
      BY <2>1, SlotFacts DEF Heap!Next
  <1>4. ASSUME NEW last \in Blocks, NEW cell \in Blocks, AppendToLast(last, cell)
        PROVE  Heap!Next
    <2>1. kids' = [kids EXCEPT ![last] = (@ \ {}) \cup {cell}]
      BY <1>4 DEF AppendToLast
    <2>2. Heap!Link(last, cell, {})
      BY <1>4, <2>1, SlotFacts, SameReach DEF AppendToLast, tables, Heap!Link
    <2> QED
      BY <2>2, SlotFacts DEF Heap!Next
  <1>5. ASSUME NEW n \in Objects, Load(n)  PROVE Heap!Next
    <2>1. Heap!Root(n)
      BY <1>5, SameReach DEF Load, tables, Heap!Root
    <2> QED
      BY <2>1, SlotFacts DEF Heap!Next
  <1>6. ASSUME NEW n \in Objects, Drop(n)  PROVE Heap!Next
    <2>1. Heap!Unroot(n)
      BY <1>6 DEF Drop, tables, Heap!Unroot
    <2> QED
      BY <2>1, SlotFacts DEF Heap!Next
  <1> QED
    BY <1>1, <1>2, <1>3, <1>4, <1>5, <1>6 DEF Mutate

LEMMA CollectRefines ==
    ASSUME IInv, Collect
    PROVE  Heap!Next \/ UNCHANGED <<live, kids, roots>>
  <1>1. CASE Premark \/ Unmark \/ Mark \/ CheckRoom
    BY <1>1 DEF Premark, Unmark, Mark, CheckRoom, UnmarkNext, MarkNext, Visit, tables
  <1>2. ASSUME Sweep, idx \in Managed, idx \in live \ marked  PROVE Heap!Next
    <2>1. idx \notin Reachable
      BY <1>2, FreeIInv
    <2>2. Heap!Reclaim(idx)
      BY <1>2, <2>1, SameReach DEF Sweep, Free, Heap!Reclaim
    <2> QED
      BY <1>2, <2>2 DEF Heap!Next
  <1>3. CASE Sweep /\ ~(idx \in Managed /\ idx \in live \ marked)
    BY <1>3 DEF Sweep
  <1>4. ASSUME Insert  PROVE Heap!Next
    <2>1. PICK n \in Slots(new.kind) \ live :
            /\ live' = live \cup {n}
            /\ kids' = [kids EXCEPT ![n] = new.kids]
            /\ roots' = roots \cup {n}
      BY <1>4 DEF Insert
    <2>2. n \in Managed /\ new.kids \subseteq Reachable /\ new.kids \in SUBSET (Managed \cup Code)
      BY SlotFacts DEF IInv, TypeOK, Structure
    <2>3. Heap!Alloc(n, new.kids)
      BY <2>1, <2>2, SameReach DEF Heap!Alloc
    <2> QED
      BY <2>2, <2>3 DEF Heap!Next
  <1> QED
    BY <1>1, <1>2, <1>3, <1>4 DEF Collect

\* The collector keeps the abstract promise, for tables of any size.
THEOREM Refinement == Spec => HeapSpec
  <1>1. Init => Heap!Init
    BY SlotFacts DEF Init, Heap!Init
  <1>2. IInv /\ [Next]_vars => [Heap!Next]_(Heap!heapVars)
    BY MutateRefines, CollectRefines DEF Next, vars, Heap!heapVars
  <1> QED
    BY <1>1, <1>2, Inductive, PTL DEF Spec, HeapSpec, Heap!Spec
=============================================================================
