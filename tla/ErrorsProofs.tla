------------------------------- MODULE ErrorsProofs --------------------------
(***************************************************************************)
(* Proofs about addresses and errors in the evaluator: no pointer is ahead *)
(* of what malloc has returned, and with kill_if_error on no variable and  *)
(* no argument is ever an error, until an error ends an evaluation.        *)
(***************************************************************************)
EXTENDS FramesProofs

-----------------------------------------------------------------------------
(* What the interpreter holds: a set W that has its constants, and the      *)
(* addresses of the objects a step creates, is not left by the step.        *)

EntriesIn(W) == [kind : {"data", "env", "cont", "arg"}, v : W]
RegistersIn(W) == [DOMAIN InitialRegisters -> W]

CellsIn(cells, W) == \A a \in DOMAIN cells : {cells[a].car, cells[a].cdr, cells[a].env} \subseteq W
BindingsIn(environments, W) ==
    \A e \in DOMAIN environments : \A x \in DOMAIN environments[e].bind : environments[e].bind[x] \in W

MemoryHolds(W) == CellsIn(heap, W) /\ BindingsIn(envs, W) /\ error_value \in W
PluginHolds(W) ==
    /\ GlobalEnv \in W /\ restoring.held \in Seq(W)
    /\ \A e \in DOMAIN restoring.made : restoring.made[e] \in W
CoreHolds(W) == reg \in RegistersIn(W) /\ stack \in Seq(EntriesIn(W)) /\ MemoryHolds(W)

Ground(W) == W \subseteq Nat /\ 0 .. Global \subseteq W
Takes(W) == Ground(W) /\ fresh .. fresh' - 1 \subseteq W

LEMMA GroundHas ==
    ASSUME NEW W, Ground(W)
    PROVE  /\ NULL \in W /\ WILD \in W /\ NIL \in W /\ T \in W /\ Global \in W /\ JUMP_CODE \in W
           /\ JUMP_MACRO_FINISH \in W /\ JUMP_EV_DEFINITION_1 \in W /\ JUMP_EV_ASSIGNMENT_1 \in W
           /\ JUMP_EV_APPL_DID_OPERATOR \in W /\ JUMP_EV_APPL_ACCUMULATE_ARG \in W
           /\ JUMP_EV_APPL_ACCUM_LAST_ARG \in W /\ JUMP_EV_SEQUENCE_CONTINUE \in W
           /\ JUMP_EV_IF_DECIDE \in W /\ JUMP_EV_IMPORT_AUX \in W
BY DEF Ground, NULL, WILD, NIL, T, Global, JUMP_CODE, JUMP_MACRO_FINISH, JUMP_EV_DEFINITION_1,
       JUMP_EV_ASSIGNMENT_1, JUMP_EV_APPL_DID_OPERATOR, JUMP_EV_APPL_ACCUMULATE_ARG,
       JUMP_EV_APPL_ACCUM_LAST_ARG, JUMP_EV_SEQUENCE_CONTINUE, JUMP_EV_IF_DECIDE, JUMP_EV_IMPORT_AUX

LEMMA GroundNumbers ==
    ASSUME NEW W, Ground(W)
    PROVE  \A p \in W : p \in Nat /\ p \in Int
BY DEF Ground

LEMMA SeqWider ==
    ASSUME NEW R, NEW S, S \subseteq R, NEW s \in Seq(S)
    PROVE  s \in Seq(R)
<1>1. Len(s) \in Nat /\ DOMAIN s = 1 .. Len(s) /\ \A i \in 1 .. Len(s) : s[i] \in S
  OBVIOUS
<1>2. s \in [1 .. Len(s) -> R]
  BY <1>1
<1>3. QED BY <1>1, <1>2, FunctionIsSequence

LEMMA PushIn ==
    ASSUME NEW S, NEW s \in Seq(S), NEW entries \in Seq(S)
    PROVE  Push(s, entries) \in Seq(S)
<1>1. s \o entries \in Seq(S)
  OBVIOUS
<1>2. CASE Len(s \o entries) <= MaxStackDepth
  BY <1>1, <1>2 DEF Push
<1>3. CASE ~ (Len(s \o entries) <= MaxStackDepth)
  BY <1>1, <1>3, MachineAssumption DEF Push
<1>4. QED BY <1>2, <1>3

LEMMA PushedIn ==
    ASSUME NEW S, NEW s \in Seq(S)
    PROVE  \A a, b, c, d \in S :
              /\ Push(s, <<a>>) \in Seq(S) /\ Push(s, <<a, b>>) \in Seq(S)
              /\ Push(s, <<a, b, c>>) \in Seq(S) /\ Push(s, <<a, b, c, d>>) \in Seq(S)
<1>1. TAKE a, b, c, d \in S
<1>2. /\ <<a>> \in Seq(S) /\ <<a, b>> \in Seq(S)
      /\ <<a, b, c>> \in Seq(S) /\ <<a, b, c, d>> \in Seq(S)
  OBVIOUS
<1>3. QED BY <1>2, PushIn

LEMMA PoppedIn ==
    ASSUME NEW W, Ground(W), NEW s \in Seq(EntriesIn(W)), NEW i \in Nat \ {0}
    PROVE  Popped(s, i) \in W
<1>1. CASE i > Len(s)
  BY <1>1, GroundHas DEF Popped
<1>2. CASE i <= Len(s)
  <2>1. Len(s) - i + 1 \in DOMAIN s
    BY <1>2
  <2>2. s[Len(s) - i + 1] \in EntriesIn(W)
    BY <2>1
  <2>3. QED BY <1>2, <2>2 DEF Popped, EntriesIn
<1>3. QED BY <1>1, <1>2

LEMMA EntryIn ==
    ASSUME NEW W, NEW p \in W
    PROVE  /\ Data(p) \in EntriesIn(W) /\ Env(p) \in EntriesIn(W)
           /\ Cont(p) \in EntriesIn(W) /\ ArgPointer(p) \in EntriesIn(W)
BY DEF Data, Env, Cont, ArgPointer, EntriesIn

LEMMA RegisterIn ==
    ASSUME NEW W, NEW r \in RegistersIn(W)
    PROVE  /\ r.val \in W /\ r.exp \in W /\ r.argl \in W /\ r.unev \in W /\ r.proc \in W
           /\ r.env \in W /\ r.cont \in W /\ r.last \in W /\ r.code \in W /\ r.top \in W
BY RegisterNames DEF RegistersIn

LEMMA AssignIn ==
    ASSUME NEW W, NEW r \in RegistersIn(W), NEW n, NEW v \in W
    PROVE  [r EXCEPT ![n] = v] \in RegistersIn(W)
BY DEF RegistersIn

LEMMA SaveIn ==
    ASSUME NEW W, NEW r \in RegistersIn(W), NEW s \in Seq(EntriesIn(W))
    PROVE  save_regs(r, s) \in Seq(EntriesIn(W))
<1>1. <<Data(r.exp), Data(r.argl), Data(r.unev), Data(r.proc), Data(r.code), Data(r.top),
        Env(r.env), Cont(r.cont), ArgPointer(r.last)>> \in Seq(EntriesIn(W))
  BY RegisterIn, EntryIn
<1>2. QED BY <1>1, PushIn DEF save_regs

LEMMA PopIntoIn ==
    ASSUME NEW W, Ground(W), NEW names, DOMAIN names \subseteq Nat \ {0},
           NEW r \in RegistersIn(W), NEW s \in Seq(EntriesIn(W))
    PROVE  PopInto(names, r, s) \in RegistersIn(W)
<1>1. ASSUME NEW n \in DOMAIN InitialRegisters, \E i \in DOMAIN names : names[i] = n
      PROVE  Popped(s, CHOOSE i \in DOMAIN names : names[i] = n) \in W
  BY <1>1, PoppedIn
<1>2. QED BY <1>1 DEF PopInto, RegistersIn

LEMMA RestoreIn ==
    ASSUME NEW W, Ground(W), NEW r \in RegistersIn(W), NEW s \in Seq(EntriesIn(W))
    PROVE  restore_regs(r, s) \in RegistersIn(W)
<1>1. DOMAIN Saved \subseteq Nat \ {0}
  BY DEF Saved
<1>2. QED BY <1>1, PopIntoIn DEF restore_regs

LEMMA UnwoundIn ==
    ASSUME NEW W, Ground(W), reg \in RegistersIn(W), stack \in Seq(EntriesIn(W))
    PROVE  Unwound \in RegistersIn(W) /\ Rest \in Seq(EntriesIn(W))
<1>1. DOMAIN Pops(pc) \subseteq Nat \ {0} /\ Len(Pops(pc)) \in Nat
  <2>1. DOMAIN PopTable = {"if_decide", "assignment_1", "definition_1", "did_operator",
                           "accumulate_arg", "accum_last_arg", "sequence_continue", "macro_finish"}
    BY DEF PopTable
  <2>2. QED BY <2>1 DEF Pops, PopTable
<1>2. QED BY <1>1, PopIntoIn, PopType DEF Unwound, Rest

-----------------------------------------------------------------------------
(* Reading cells and environments.                                         *)

LEMMA PartsHold ==
    ASSUME NEW W, Ground(W), CellsIn(heap, W), NEW p
    PROVE  CAR(p) \in W /\ CDR(p) \in W /\ Cell(p).env \in W
<1>1. NilCell.car = NIL /\ NilCell.cdr = NIL /\ NilCell.env = NULL
  BY DEF NilCell, Pair, Text
<1>2. TrueCell.car = WILD /\ TrueCell.cdr = WILD /\ TrueCell.env = NULL
  BY DEF TrueCell, Text
<1>3. BadCell.car = WILD /\ BadCell.cdr = WILD /\ BadCell.env = NULL
  BY DEF BadCell, Text
<1>4. ASSUME p \in DOMAIN heap PROVE heap[p].car \in W /\ heap[p].cdr \in W /\ heap[p].env \in W
  BY <1>4 DEF CellsIn
<1>5. NIL \in W /\ NULL \in W /\ WILD \in W
  BY GroundHas
<1>6. QED BY <1>1, <1>2, <1>3, <1>4, <1>5 DEF CAR, CDR, Cell, CellIn

\* The recursion that NthCdr abbreviates exists.
LEMMA NthCdrSteps ==
    ASSUME MemoryOK, NEW list \in Nat
    PROVE  NthCdr(list, 0) = list /\ \A n \in Nat \ {0} : NthCdr(list, n) = CDR(NthCdr(list, n - 1))
<1> DEFINE g == [p \in Nat |-> CDR(p)]
           Steps(f) == f = [k \in Nat |-> IF k = 0 THEN list ELSE CDR(f[k - 1])]
<1>1. g \in [Nat -> Nat] /\ \A p \in Nat : g[p] = CDR(p)
  BY PartsType
<1> HIDE DEF g
<1>2. PICK f \in [Nat -> Nat] : Iterates(f, list, g)
  BY <1>1, Iteration
<1>3. Steps(f)
  <2>1. ASSUME NEW k \in Nat, k # 0 PROVE f[k] = CDR(f[k - 1])
    <3>1. k - 1 \in Nat /\ (k - 1) + 1 = k
      BY <2>1
    <3>2. QED BY <3>1, <1>1, <1>2 DEF Iterates
  <2>2. QED BY <2>1, <1>2 DEF Iterates
<1> DEFINE rest == CHOOSE h : Steps(h)
<1>4. Steps(rest)
  BY <1>3
<1> HIDE DEF rest
<1>5. \A n : NthCdr(list, n) = rest[n]
  BY DEF NthCdr, rest
<1>6. rest[0] = list /\ \A n \in Nat \ {0} : rest[n] = CDR(rest[n - 1])
  BY <1>4
<1>7. \A n \in Nat \ {0} : NthCdr(list, n) = rest[n] /\ NthCdr(list, n - 1) = rest[n - 1]
  BY <1>5
<1>8. QED BY <1>5, <1>6, <1>7

LEMMA NthCdrIn ==
    ASSUME NEW W, Ground(W), MemoryOK, CellsIn(heap, W), NEW list \in W, NEW n \in Nat
    PROVE  NthCdr(list, n) \in W
<1>1. list \in Nat
  BY DEF Ground
<1>2. QED BY <1>1, NthCdrSteps, PartsHold

LEMMA ElementsIn ==
    ASSUME NEW W, Ground(W), MemoryOK, CellsIn(heap, W), NEW list
    PROVE  Elements(list) \in Seq(W)
BY LengthType, PartsHold DEF Elements

LEMMA LookupIn ==
    ASSUME NEW W, Ground(W), BindingsIn(envs, W), NEW name, NEW env
    PROVE  Lookup(name, env) \in W
<1>1. ASSUME NEW e, Binds(e, name) PROVE envs[e].bind[name] \in W
  BY <1>1 DEF Binds, BindingsIn
<1>2. QED BY <1>1, GroundHas DEF Lookup

\* Where a list of parameters ends.
Ending(formals) == CHOOSE x \in Places : EndsAt(formals, x) /\ \A k \in 0 .. x - 1 : ~ EndsAt(formals, k)

LEMMA EndingPlace ==
    ASSUME MemoryOK, NEW formals, Walkable(formals)
    PROVE  Ending(formals) \in Nat
<1> DEFINE H == {x \in Places : EndsAt(formals, x)}
<1>1. H # {}
  BY DEF Walkable
<1>2. PICK x \in H : x \in Nat /\ \A k \in 0 .. x - 1 : k \notin H
  BY <1>1, FirstPlace
<1>3. \A k \in 0 .. x - 1 : k \in Places
  BY <1>2, HeapFinite DEF Places
<1>4. \E y \in Places : EndsAt(formals, y) /\ \A k \in 0 .. y - 1 : ~ EndsAt(formals, k)
  BY <1>2, <1>3
<1>5. Ending(formals) \in Places
  BY <1>4 DEF Ending
<1>6. QED BY <1>5, HeapFinite DEF Places

LEMMA BindingsHold ==
    ASSUME NEW W, Ground(W), MemoryOK, CellsIn(heap, W), NEW formals, NEW actuals \in W, Walkable(formals)
    PROVE  \A x \in DOMAIN Bindings(formals, actuals) : Bindings(formals, actuals)[x] \in W
<1> DEFINE n == Ending(formals)
           Name(k) == TextOf(Parameter(formals, k))
           Latest(name) == CHOOSE k \in 0 .. n - 1 : Name(k) = name /\ \A i \in k + 1 .. n - 1 : Name(i) # name
           names == {Name(k) : k \in 0 .. n - 1}
           named == [name \in names |-> CAR(NthCdr(actuals, Latest(name)))]
<1>1. n \in Nat
  BY EndingPlace
<1>2. Bindings(formals, actuals) =
        IF Parameter(formals, n) = NIL THEN named ELSE With(named, "&rest", NthCdr(actuals, n))
  BY DEF Bindings, Ending
<1> HIDE DEF n
<1>3. \A x \in DOMAIN named : named[x] \in W
  BY PartsHold
<1>4. NthCdr(actuals, n) \in W
  BY <1>1, NthCdrIn
<1> HIDE DEF named
<1>5. \A x \in DOMAIN With(named, "&rest", NthCdr(actuals, n)) : With(named, "&rest", NthCdr(actuals, n))[x] \in W
  BY <1>3, <1>4 DEF With
<1>6. QED BY <1>2, <1>3, <1>5

-----------------------------------------------------------------------------
(* Allocation.                                                             *)

BatchIn(cells, W) ==
    \A i \in DOMAIN cells : {cells[i].car, cells[i].cdr} \subseteq W \cup -Len(cells) .. -1 /\ cells[i].env \in W
ResultIn(o, W) == IsResult(o) /\ BatchIn(o.cells, W) /\ o.val \in W \cup -Len(o.cells) .. -1

LEMMA AddressIn ==
    ASSUME NEW W, Ground(W), MemoryOK, NEW n \in Nat, fresh .. fresh + n - 1 \subseteq W, NEW p \in W \cup -n .. -1
    PROVE  Address(p) \in W
<1>1. CASE p \in W
  <2>1. p \in Nat
    BY <1>1 DEF Ground
  <2>2. QED BY <1>1, <2>1 DEF Address
<1>2. CASE p \in -n .. -1
  <2>1. fresh - p - 1 \in fresh .. fresh + n - 1
    BY <1>2 DEF MemoryOK
  <2>2. QED BY <1>2, <2>1 DEF Address
<1>3. QED BY <1>1, <1>2

LEMMA RelocatedIn ==
    ASSUME NEW W, Ground(W), MemoryOK, NEW cells, IsBatch(cells), BatchIn(cells, W),
           fresh .. fresh + Len(cells) - 1 \subseteq W
    PROVE  CellsIn(Relocated(cells), W)
<1>1. ASSUME NEW a \in DOMAIN Relocated(cells)
      PROVE  {Relocated(cells)[a].car, Relocated(cells)[a].cdr, Relocated(cells)[a].env} \subseteq W
  <2> DEFINE c == cells[a - fresh + 1]
             d == [c EXCEPT !.car = Address(@), !.cdr = Address(@)]
  <2>1. a \in fresh .. fresh + Len(cells) - 1
    BY RelocatedType
  <2>2. a \in Nat /\ fresh \in Nat /\ a - fresh + 1 \in 1 .. Len(cells) /\ Len(cells) \in Nat
    BY <2>1 DEF MemoryOK, IsBatch
  <2>3. IsCell(c) /\ {c.car, c.cdr} \subseteq W \cup -Len(cells) .. -1 /\ c.env \in W
    BY <2>2 DEF IsBatch, BatchIn
  <2>4. Relocated(cells)[a] = d
    BY <2>1 DEF Relocated
  <2> HIDE DEF c
  <2>5. Address(c.car) \in W /\ Address(c.cdr) \in W
    BY <2>2, <2>3, AddressIn
  <2>6. d.car = Address(c.car) /\ d.cdr = Address(c.cdr) /\ d.env = c.env
    BY <2>3, CellDomain DEF IsCell
  <2> HIDE DEF d
  <2>7. QED BY <2>3, <2>4, <2>5, <2>6
<1>2. QED BY <1>1 DEF CellsIn

LEMMA OverIn ==
    ASSUME NEW W, NEW f, NEW g, CellsIn(f, W), CellsIn(g, W)
    PROVE  CellsIn(Over(f, g), W)
BY DEF CellsIn, Over

LEMMA KeptIn ==
    ASSUME NEW W, NEW f, NEW S, CellsIn(f, W)
    PROVE  CellsIn(Keep(f, S), W)
<1>1. ASSUME NEW a \in DOMAIN Keep(f, S) PROVE a \in DOMAIN f /\ Keep(f, S)[a] = f[a]
  BY KeepType
<1>2. QED BY <1>1 DEF CellsIn

LEMMA HeapAfterIn ==
    ASSUME NEW W, Ground(W), MemoryOK, CellsIn(heap, W), NEW cells, IsBatch(cells), BatchIn(cells, W),
           fresh .. fresh + Len(cells) - 1 \subseteq W, NEW j, NEW r, NEW s
    PROVE  CellsIn(HeapAfter(cells, j, r, s), W)
BY RelocatedIn, OverIn, KeptIn DEF HeapAfter

LEMMA EnvsAfterIn ==
    ASSUME NEW W, BindingsIn(envs, W), NEW j, NEW r, NEW s
    PROVE  BindingsIn(EnvsAfter(j, r, s), W)
<1>1. ASSUME NEW e \in DOMAIN Keep(envs, Marked(r, s))
      PROVE  e \in DOMAIN envs /\ Keep(envs, Marked(r, s))[e] = envs[e]
  BY KeepType
<1>2. QED BY <1>1 DEF EnvsAfter, BindingsIn

LEMMA CreatedIn ==
    ASSUME NEW W, Takes(W), MemoryOK, MemoryHolds(W), NEW cells, IsBatch(cells), Created(cells)
    PROVE  /\ fresh .. fresh + Len(cells) - 1 \subseteq W /\ Len(cells) \in Nat
           /\ error_value' \in W
<1>1. fresh' = fresh + Len(cells) /\ Len(cells) \in Nat /\ fresh \in Nat
  BY DEF Created, IsBatch, MemoryOK
<1>2. fresh .. fresh + Len(cells) - 1 \subseteq W
  BY <1>1 DEF Takes
<1>3. CASE error_value' = error_value
  BY <1>1, <1>2, <1>3 DEF MemoryHolds
<1>4. CASE error_value' # error_value
  <2>1. error_value' = fresh /\ \E c \in Range(cells) : c.type = "error"
    BY <1>4 DEF Created
  <2>2. Len(cells) # 0
    BY <2>1 DEF Range, IsBatch
  <2>3. fresh \in W
    BY <1>1, <1>2, <2>2
  <2>4. QED BY <1>1, <1>2, <2>1, <2>3
<1>5. QED BY <1>3, <1>4

LEMMA CreateIn ==
    ASSUME NEW W, Takes(W), MemoryOK, MemoryHolds(W), NEW cells, IsBatch(cells), BatchIn(cells, W),
           NEW j, NEW r, NEW s, Create(cells, j, r, s)
    PROVE  MemoryHolds(W)'
<1>1. Ground(W) /\ Created(cells) /\ CellsIn(heap, W) /\ BindingsIn(envs, W)
  BY DEF Takes, Create, MemoryHolds
<1>2. fresh .. fresh + Len(cells) - 1 \subseteq W /\ error_value' \in W
  BY <1>1, CreatedIn
<1>3. CellsIn(HeapAfter(cells, j, r, s), W) /\ BindingsIn(EnvsAfter(j, r, s), W)
  BY <1>1, <1>2, HeapAfterIn, EnvsAfterIn
<1>4. heap' = HeapAfter(cells, j, r, s) /\ envs' = EnvsAfter(j, r, s)
  BY DEF Create
<1>5. CellsIn(heap', W) /\ BindingsIn(envs', W)
  BY <1>3, <1>4
<1>6. QED BY <1>2, <1>5 DEF MemoryHolds, CellsIn, BindingsIn

LEMMA MemoryKept ==
    ASSUME NEW W, MemoryHolds(W), UNCHANGED <<heap, envs, error_value>>
    PROVE  MemoryHolds(W)'
BY DEF MemoryHolds, CellsIn, BindingsIn

-----------------------------------------------------------------------------
(* What functions return.                                                  *)

LEMMA ReturnsIn ==
    ASSUME NEW W, Ground(W), NEW p \in W
    PROVE  ResultIn(Returns(p), W)
<1>1. IsResult(Returns(p))
  BY ReturnsType DEF Ground
<1>2. Returns(p).cells = <<>> /\ Returns(p).val = p
  BY DEF Returns
<1>3. QED BY <1>1, <1>2 DEF ResultIn, BatchIn

LEMMA CreatesIn ==
    ASSUME NEW W, NEW c, IsCell(c), {c.car, c.cdr, c.env} \subseteq W
    PROVE  ResultIn(Creates(c), W) /\ IsBatch(<<c>>) /\ BatchIn(<<c>>, W)
<1>1. IsResult(Creates(c)) /\ IsBatch(<<c>>)
  BY CreatesType, OneCell
<1>2. Creates(c).cells = <<c>> /\ Creates(c).val = -1 /\ Len(<<c>>) = 1
  BY DEF Creates
<1>3. BatchIn(<<c>>, W)
  BY DEF BatchIn
<1>4. -1 \in -Len(<<c>>) .. -1
  BY <1>2
<1>5. QED BY <1>1, <1>2, <1>3, <1>4 DEF ResultIn

\* The fields of the cells that functions create.
LEMMA CellFields ==
    /\ \A text : Error(text).car = WILD /\ Error(text).cdr = WILD /\ Error(text).env = NULL
    /\ \A n : Number(n).car = WILD /\ Number(n).cdr = WILD /\ Number(n).env = NULL
    /\ \A a, d : Pair(a, d).car = a /\ Pair(a, d).cdr = d /\ Pair(a, d).env = NULL
    /\ \A a, d, e : Procedure(a, d, e).car = a /\ Procedure(a, d, e).cdr = d /\ Procedure(a, d, e).env = e
    /\ \A a, d : Macro(a, d).car = a /\ Macro(a, d).cdr = d /\ Macro(a, d).env = NULL
<1>1. \A text : Error(text).car = WILD /\ Error(text).cdr = WILD /\ Error(text).env = NULL
  BY DEF Error, Text
<1>2. \A n : Number(n).car = WILD /\ Number(n).cdr = WILD /\ Number(n).env = NULL
  BY DEF Number, Text
<1>3. \A a, d : Pair(a, d).car = a /\ Pair(a, d).cdr = d /\ Pair(a, d).env = NULL
  BY DEF Pair, Text
<1>4. \A a, d, e : Procedure(a, d, e).car = a /\ Procedure(a, d, e).cdr = d /\ Procedure(a, d, e).env = e
  BY DEF Procedure, Pair, Text
<1>5. \A a, d : Macro(a, d).car = a /\ Macro(a, d).cdr = d /\ Macro(a, d).env = NULL
  BY DEF Macro, Pair, Text
<1>6. QED BY <1>1, <1>2, <1>3, <1>4, <1>5

LEMMA ErrorIn ==
    ASSUME NEW W, Ground(W)
    PROVE  \A text : ResultIn(Creates(Error(text)), W)
BY CellFields, CellTypes, CreatesIn, GroundHas

LEMMA NumberIn ==
    ASSUME NEW W, Ground(W)
    PROVE  \A n : ResultIn(Creates(Number(n)), W)
BY CellFields, CellTypes, CreatesIn, GroundHas

LEMMA PairIn ==
    ASSUME NEW W, Ground(W), NEW a \in W, NEW d \in W
    PROVE  ResultIn(Creates(Pair(a, d)), W) /\ IsBatch(<<Pair(a, d)>>) /\ BatchIn(<<Pair(a, d)>>, W)
<1>1. a \in Int /\ d \in Int
  BY DEF Ground
<1>2. IsCell(Pair(a, d))
  BY <1>1, PairIsCell
<1>3. QED BY <1>2, CellFields, CreatesIn, GroundHas

LEMMA TruthIn ==
    ASSUME NEW W, Ground(W), NEW b
    PROVE  ResultIn(Truth(b), W)
<1>1. (IF b THEN T ELSE NIL) \in W
  BY GroundHas
<1>2. QED BY <1>1, ReturnsIn DEF Truth

LEMMA LookedUpIn ==
    ASSUME NEW W, Ground(W), BindingsIn(envs, W), NEW p \in W, NEW env
    PROVE  ResultIn(lookup_variable_value(p, env), W)
BY LookupIn, ReturnsIn, ErrorIn DEF lookup_variable_value

LEMMA ListIn ==
    ASSUME NEW W, Ground(W), NEW a \in Seq(W)
    PROVE  ResultIn(list_func(a), W)
<1> DEFINE cells == [i \in 1 .. Len(a) + 1 |->
                        IF i = Len(a) + 1 THEN Pair(NIL, NIL)
                        ELSE Pair(a[i], IF i = Len(a) THEN NIL ELSE -(i + 1))]
<1>1. Len(cells) = Len(a) + 1 /\ DOMAIN cells = 1 .. Len(a) + 1 /\ Len(a) \in Nat
  OBVIOUS
<1>2. ASSUME NEW i \in 1 .. Len(a) + 1
      PROVE  {cells[i].car, cells[i].cdr} \subseteq W \cup -(Len(a) + 1) .. -1 /\ cells[i].env \in W
  <2>1. CASE i = Len(a) + 1
    BY <2>1, CellFields, GroundHas
  <2>2. CASE i # Len(a) + 1
    <3> DEFINE d == IF i = Len(a) THEN NIL ELSE -(i + 1)
    <3>1. a[i] \in W
      BY <1>1, <2>2
    <3>2. d \in W \cup -(Len(a) + 1) .. -1
      BY <1>1, <2>2, GroundHas
    <3>3. cells[i] = Pair(a[i], d)
      BY <2>2
    <3> HIDE DEF d, cells
    <3>4. QED BY <3>1, <3>2, <3>3, CellFields, GroundHas
  <2>3. QED BY <2>1, <2>2
<1>3. list_func(a).cells = cells /\ list_func(a).val = -1
  BY DEF list_func
<1> HIDE DEF cells
<1>4. BatchIn(cells, W)
  BY <1>1, <1>2 DEF BatchIn
<1>5. a \in Seq(Nat)
  BY SeqWider DEF Ground
<1>6. IsResult(list_func(a))
  BY <1>5, ListResult
<1>7. -1 \in -(Len(a) + 1) .. -1
  BY <1>1
<1>8. QED BY <1>1, <1>3, <1>4, <1>6, <1>7 DEF ResultIn

LEMMA ArithmeticIn ==
    ASSUME NEW W, Ground(W), NEW name, NEW a
    PROVE  ResultIn(Arithmetic(name, a), W)
<1>1. ResultIn(Returns(WILD), W)
  BY ReturnsIn, GroundHas
<1>2. QED BY <1>1, NumberIn, TruthIn DEF Arithmetic

LEMMA EqualsIn ==
    ASSUME NEW W, Ground(W), NEW x, NEW y
    PROVE  ResultIn(equals_func(x, y), W)
BY TruthIn, ErrorIn DEF equals_func

LEMMA PrimitiveIn ==
    ASSUME NEW W, Ground(W), MemoryOK, CellsIn(heap, W), NEW name, NEW argl
    PROVE  ResultIn(proc_prim(name, argl), W)
<1> DEFINE a == Elements(argl)
           true == {i \in DOMAIN a : a[i] # NIL}
<1>1. a \in Seq(W) /\ NIL \in W
  BY ElementsIn, GroundHas
<1>2. \A text : ResultIn(Creates(Error(text)), W)
  BY ErrorIn
<1>3. ResultIn(list_func(a), W)
  BY <1>1, ListIn
<1>4. ResultIn(Returns(CAR(a[1])), W) /\ ResultIn(Returns(CDR(a[1])), W)
  BY PartsHold, ReturnsIn
<1>5. ASSUME Len(a) >= 2
      PROVE  ResultIn(Creates(Pair(a[1], a[2])), W)
  <2>1. a[1] \in W /\ a[2] \in W
    BY <1>1, <1>5
  <2>2. QED BY <2>1, PairIn
<1>6. ASSUME Len(a) >= 1
      PROVE  ResultIn(Returns(IF true = {} THEN NIL ELSE a[CHOOSE i \in true : \A k \in true : i <= k]), W)
  <2>1. CASE true = {}
    BY <1>1, <2>1, ReturnsIn
  <2>2. CASE true # {}
    <3>1. \E i \in true : \A k \in true : i <= k
      <4>1. true \in SUBSET Nat
        BY <1>1
      <4>2. QED BY <2>2, <4>1, Least
    <3>2. (CHOOSE i \in true : \A k \in true : i <= k) \in DOMAIN a
      BY <3>1
    <3>3. a[CHOOSE i \in true : \A k \in true : i <= k] \in W
      BY <1>1, <3>2
    <3>4. QED BY <2>2, <3>3, ReturnsIn
  <2>3. QED BY <2>1, <2>2
<1>7. ASSUME Len(a) >= 1
      PROVE  ResultIn(Returns(IF true = DOMAIN a THEN a[Len(a)] ELSE NIL), W)
  <2>1. a[Len(a)] \in W
    BY <1>1, <1>7
  <2>2. QED BY <1>1, <2>1, ReturnsIn
<1>8. ResultIn(Truth(a[1] = NIL), W) /\ ResultIn(equals_func(a[1], a[2]), W) /\ ResultIn(Arithmetic(name, a), W)
  BY TruthIn, EqualsIn, ArithmeticIn
<1>9. ASSUME ArityOK(name, Len(a)) PROVE /\ name \in {"or", "and"} => Len(a) >= 1
                                         /\ name = "push" => Len(a) >= 2
  BY <1>9 DEF ArityOK
<1>10. Len(a) \in Nat
  BY <1>1
<1> HIDE DEF a, true
<1>11. CASE ArityOK(name, Len(a)) /\ name \in {"list", "first", "rest", "push"}
  BY <1>2, <1>3, <1>4, <1>5, <1>9, <1>10, <1>11 DEF proc_prim, a, true
<1>12. CASE ArityOK(name, Len(a)) /\ name \in {"or", "and"}
  BY <1>6, <1>7, <1>9, <1>10, <1>12 DEF proc_prim, a, true
<1>13. CASE ArityOK(name, Len(a)) /\ name \notin {"list", "first", "rest", "push", "or", "and"}
  BY <1>2, <1>8, <1>10, <1>13 DEF proc_prim, a, true
<1>14. CASE ~ ArityOK(name, Len(a))
  BY <1>2, <1>14 DEF proc_prim, a, true
<1>15. QED BY <1>11, <1>12, <1>13, <1>14

-----------------------------------------------------------------------------
(* The steps of the evaluator.                                             *)

\* What a step finds.
Holding(W) == Ready /\ Takes(W) /\ CoreHolds(W) /\ GlobalEnv \in W

LEMMA HoldingHas ==
    ASSUME NEW W, Holding(W)
    PROVE  /\ reg \in RegistersIn(W) /\ stack \in Seq(EntriesIn(W))
           /\ MemoryOK /\ MemoryHolds(W) /\ CellsIn(heap, W) /\ BindingsIn(envs, W) /\ Ground(W) /\ Takes(W)
           /\ reg.val \in W /\ reg.exp \in W /\ reg.argl \in W /\ reg.unev \in W /\ reg.proc \in W
           /\ reg.env \in W /\ reg.cont \in W /\ reg.last \in W
           /\ \A p : CAR(p) \in W /\ CDR(p) \in W /\ CADR(p) \in W /\ CDDR(p) \in W
           /\ Popped(stack, 1) \in W /\ Pop(stack, 1) \in Seq(EntriesIn(W))
<1>1. /\ reg \in RegistersIn(W) /\ stack \in Seq(EntriesIn(W))
      /\ MemoryOK /\ MemoryHolds(W) /\ CellsIn(heap, W) /\ BindingsIn(envs, W) /\ Ground(W) /\ Takes(W)
  BY ReadyTypes DEF Holding, CoreHolds, MemoryHolds, Takes
<1>2. \A p : CAR(p) \in W /\ CDR(p) \in W /\ CADR(p) \in W /\ CDDR(p) \in W
  BY <1>1, PartsHold DEF CADR, CDDR
<1>3. Popped(stack, 1) \in W /\ Pop(stack, 1) \in Seq(EntriesIn(W))
  BY <1>1, PoppedIn, PopType
<1>4. QED BY <1>1, <1>2, <1>3, RegisterIn

LEMMA MoveHolds ==
    ASSUME NEW W, MemoryHolds(W), NEW label, NEW r \in RegistersIn(W), NEW s \in Seq(EntriesIn(W)),
           To(label, r, s), UNCHANGED memory
    PROVE  CoreHolds(W)'
<1>1. MemoryHolds(W)'
  BY MemoryKept DEF memory
<1>2. QED BY <1>1 DEF CoreHolds, To

LEMMA DeliverHolds ==
    ASSUME NEW W, Holding(W), NEW outcome, ResultIn(outcome, W), NEW label,
           NEW r \in RegistersIn(W), NEW s \in Seq(EntriesIn(W)), Deliver(outcome, label, r, s)
    PROVE  CoreHolds(W)'
<1>1. PICK j \in Collections(outcome.cells, r, s) :
         /\ Create(outcome.cells, j, r, s)
         /\ To(label, [r EXCEPT !.val = Address(outcome.val)], s)
  BY DEF Deliver
<1>2. IsBatch(outcome.cells) /\ BatchIn(outcome.cells, W) /\ outcome.val \in W \cup -Len(outcome.cells) .. -1
  BY DEF ResultIn, IsResult
<1>3. Takes(W) /\ Ground(W) /\ MemoryOK /\ MemoryHolds(W)
  BY HoldingHas
<1>4. MemoryHolds(W)'
  BY <1>1, <1>2, <1>3, CreateIn
<1>5. fresh .. fresh + Len(outcome.cells) - 1 \subseteq W /\ Len(outcome.cells) \in Nat
  BY <1>1, <1>2, <1>3, CreatedIn DEF Create
<1>6. Address(outcome.val) \in W
  BY <1>2, <1>3, <1>5, AddressIn
<1>7. [r EXCEPT !.val = Address(outcome.val)] \in RegistersIn(W)
  BY <1>6, AssignIn
<1>8. QED BY <1>1, <1>4, <1>7 DEF CoreHolds, To

LEMMA BindIn ==
    ASSUME NEW W, NEW environments, EnvironmentsOK(environments), BindingsIn(environments, W),
           NEW e, NEW name, NEW p \in W
    PROVE  BindingsIn(Bind(environments, e, name, p), W)
<1> DEFINE bound == Bind(environments, e, name, p)
<1>1. DOMAIN bound = DOMAIN environments
  BY DEF Bind
<1>2. ASSUME NEW x \in DOMAIN environments
      PROVE  \A y \in DOMAIN bound[x].bind : bound[x].bind[y] \in W
  <2>1. CASE x # e
    BY <2>1 DEF Bind, BindingsIn
  <2>2. CASE x = e
    <3> DEFINE old == environments[x]
               new == [old EXCEPT !.bind = With(@, name, p)]
    <3>1. bound[x] = new /\ IsEnv(old) /\ \A y \in DOMAIN old.bind : old.bind[y] \in W
      BY <2>2 DEF Bind, EnvironmentsOK, BindingsIn
    <3> HIDE DEF old
    <3>2. new.bind = With(old.bind, name, p)
      BY <3>1 DEF IsEnv
    <3> HIDE DEF new
    <3>3. \A y \in DOMAIN With(old.bind, name, p) : With(old.bind, name, p)[y] \in W
      BY <3>1 DEF With
    <3>4. QED BY <3>1, <3>2, <3>3
  <2>3. QED BY <2>1, <2>2
<1> HIDE DEF bound
<1>3. QED BY <1>1, <1>2 DEF BindingsIn, bound

LEMMA ExtendHolds ==
    ASSUME NEW W, Holding(W), NEW body \in W, NEW r \in RegistersIn(W), NEW s \in Seq(EntriesIn(W)),
           ExtendEnvironment(body, r, s)
    PROVE  CoreHolds(W)'
<1> DEFINE new == [parent |-> r.env, bind |-> Bindings(r.unev, r.argl)]
<1>1. PICK j \in Collections(<<BadCell>>, r, s) :
         /\ envs' = With(EnvsAfter(j, r, s), fresh, new)
         /\ heap' = IF j = 0 THEN heap ELSE Keep(heap, Marked(r, s) \cup code)
  BY DEF ExtendEnvironment
<1>2. Takes(W) /\ Ground(W) /\ MemoryOK /\ MemoryHolds(W) /\ CellsIn(heap, W) /\ BindingsIn(envs, W)
  BY HoldingHas
<1>3. \A x \in DOMAIN new.bind : new.bind[x] \in W
  BY <1>2, BindingsHold, RegisterIn DEF ExtendEnvironment
<1>4. BindingsIn(EnvsAfter(j, r, s), W)
  BY <1>2, EnvsAfterIn
<1> DEFINE kept == EnvsAfter(j, r, s)
<1> HIDE DEF new, kept
<1>5. BindingsIn(envs', W)
  BY <1>1, <1>3, <1>4 DEF BindingsIn, With, kept
<1>6. CellsIn(heap', W)
  BY <1>1, <1>2, KeptIn
<1>7. fresh' = fresh + 1 /\ UNCHANGED error_value
  BY DEF ExtendEnvironment
<1>8. fresh \in W
  BY <1>2, <1>7 DEF Takes, MemoryOK
<1>9. [r EXCEPT !.env = fresh, !.unev = body] \in RegistersIn(W)
  BY <1>8 DEF RegistersIn
<1>10. reg' = [r EXCEPT !.env = fresh, !.unev = body] /\ stack' = s
  BY DEF ExtendEnvironment, To
<1>11. MemoryHolds(W)'
  BY <1>2, <1>5, <1>6, <1>7 DEF MemoryHolds, CellsIn, BindingsIn
<1>12. QED BY <1>9, <1>10, <1>11 DEF CoreHolds

LEMMA OutcomeIn ==
    ASSUME NEW W, Ground(W), NEW o, IsOutcome(o)
    PROVE  ResultIn(o, W)
<1> DEFINE n == Len(o.cells)
           places == W \cup -n .. -1
<1>1. IsResult(o)
  BY OutcomeResult
<1>2. n \in Nat
  BY DEF IsOutcome
<1>3. -n .. T \subseteq places
  <2>1. ASSUME NEW v \in -n .. T PROVE v \in places
    <3>1. v \in Int /\ -n <= v /\ v <= 101
      BY <1>2 DEF T
    <3> HIDE DEF n
    <3>2. CASE v < 0
      BY <1>2, <3>1, <3>2
    <3>3. CASE v >= 0
      BY <3>1, <3>3 DEF Ground, Global
    <3>4. QED BY <3>1, <3>2, <3>3
  <2>2. QED BY <2>1
<1>4. \A i \in DOMAIN o.cells : {o.cells[i].car, o.cells[i].cdr} \subseteq -n .. T /\ o.cells[i].env = NULL
  BY DEF IsOutcome
<1>5. o.val \in -n .. T
  BY DEF IsOutcome
<1>6. NULL \in W
  BY GroundHas
<1>7. \A i \in DOMAIN o.cells : {o.cells[i].car, o.cells[i].cdr} \subseteq places /\ o.cells[i].env \in W
  BY <1>3, <1>4, <1>6
<1>8. BatchIn(o.cells, W)
  BY <1>7 DEF BatchIn
<1>9. o.val \in places
  BY <1>3, <1>5
<1>10. QED BY <1>1, <1>8, <1>9 DEF ResultIn

LEMMA EnterHolds ==
    ASSUME NEW W, Holding(W), NEW program, ResultIn(program, W), NEW caller,
           NEW r \in RegistersIn(W), NEW s \in Seq(EntriesIn(W)), Enter(program, caller, r, s)
    PROVE  CoreHolds(W)'
<1>1. stack' \in Seq(EntriesIn(W))
  BY SaveIn DEF Enter
<1>2. Takes(W) /\ Ground(W) /\ MemoryOK /\ MemoryHolds(W) /\ CellsIn(heap, W) /\ BindingsIn(envs, W)
  BY HoldingHas
<1>3. GlobalEnv \in W /\ JUMP_CODE \in W
  BY <1>2, GroundHas DEF Holding
<1>4. CASE program.val = NULL
  <2>1. reg' = [r EXCEPT !.cont = JUMP_CODE]
    BY <1>4 DEF Enter
  <2>2. reg' \in RegistersIn(W)
    BY <1>3, <2>1, AssignIn
  <2>3. MemoryHolds(W)'
    BY <1>2, <1>4, MemoryKept DEF Enter, memory
  <2>4. QED BY <1>1, <2>2, <2>3 DEF CoreHolds
<1>5. CASE program.val # NULL
  <2> DEFINE top == Address(program.val)
             cells == program.cells
  <2>1. /\ heap' = Over(Relocated(cells), heap)
        /\ fresh' = fresh + Len(cells) /\ UNCHANGED <<envs, have_error, error_value>>
    BY <1>5 DEF Enter
  <2>2. reg' = [r EXCEPT !.cont = JUMP_CODE, !.code = top, !.top = top, !.exp = top, !.env = GlobalEnv]
    BY <1>5 DEF Enter
  <2>3. IsBatch(cells) /\ BatchIn(cells, W) /\ program.val \in W \cup -Len(cells) .. -1
    BY DEF ResultIn, IsResult
  <2>4. Len(cells) \in Nat /\ fresh .. fresh + Len(cells) - 1 \subseteq W
    <3>1. Len(cells) \in Nat
      BY <2>3 DEF IsBatch
    <3>2. fresh \in Nat /\ fresh .. fresh' - 1 \subseteq W
      BY <1>2 DEF Takes, MemoryOK
    <3> HIDE DEF cells
    <3>3. QED BY <2>1, <3>1, <3>2
  <2>5. top \in W
    BY <1>2, <2>3, <2>4, AddressIn
  <2> HIDE DEF top, cells
  <2>6. reg' \in RegistersIn(W)
    BY <1>3, <2>2, <2>5 DEF RegistersIn
  <2>7. CellsIn(heap', W)
    BY <1>2, <2>1, <2>3, <2>4, RelocatedIn, OverIn
  <2>8. MemoryHolds(W)'
    BY <1>2, <2>1, <2>7 DEF MemoryHolds, CellsIn, BindingsIn
  <2>9. QED BY <1>1, <2>6, <2>8 DEF CoreHolds
<1>6. QED BY <1>4, <1>5

LEMMA NestedHolds ==
    ASSUME NEW W, Holding(W), NEW text \in DOMAIN Image, NEW caller,
           NEW r \in RegistersIn(W), NEW s \in Seq(EntriesIn(W)), Nested(text, caller, r, s)
    PROVE  CoreHolds(W)'
<1>1. Ground(W) /\ JUMP_CODE \in W
  BY HoldingHas, GroundHas
<1>2. ResultIn(Image[text], W)
  BY <1>1, EvaluatorAssumption, OutcomeIn
<1>3. [r EXCEPT !.cont = JUMP_CODE] \in RegistersIn(W) /\ save_regs(r, s) \in Seq(EntriesIn(W))
  BY <1>1, SaveIn, AssignIn
<1>4. Enter(Image[text], caller, [r EXCEPT !.cont = JUMP_CODE], save_regs(r, s))
  BY DEF Nested
<1>5. QED BY <1>2, <1>3, <1>4, EnterHolds

LEMMA EvalOnStringHolds ==
    ASSUME NEW W, Holding(W), NEW p,
           NEW r \in RegistersIn(W), NEW s \in Seq(EntriesIn(W)), run_eval_on_string(p, r, s)
    PROVE  CoreHolds(W)'
<1>1. CASE TextOf(p) \in DOMAIN Image
  BY <1>1, NestedHolds DEF run_eval_on_string
<1>2. CASE TextOf(p) \notin DOMAIN Image
  BY <1>2, DeliverHolds, HoldingHas, ErrorIn DEF run_eval_on_string
<1>3. QED BY <1>1, <1>2

LEMMA EvalOnFileHolds ==
    ASSUME NEW W, Holding(W), NEW name, NEW caller,
           NEW r \in RegistersIn(W), NEW s \in Seq(EntriesIn(W)), run_eval_on_file(name, caller, r, s)
    PROVE  CoreHolds(W)'
<1>1. CASE name \in Files \cap DOMAIN Image
  BY <1>1, NestedHolds DEF run_eval_on_file
<1>2. CASE name \notin Files \cap DOMAIN Image
  <2> DEFINE r2 == IF caller = "import_aux" THEN [r EXCEPT !.cont = Popped(s, 1)] ELSE r
             s2 == IF caller = "import_aux" THEN Pop(s, 1) ELSE s
  <2>1. Deliver(Creates(Error("problem with file")), "continue", r2, s2)
    BY <1>2 DEF run_eval_on_file
  <2>2. r2 \in RegistersIn(W) /\ s2 \in Seq(EntriesIn(W))
    <3>1. Popped(s, 1) \in W /\ Pop(s, 1) \in Seq(EntriesIn(W))
      BY HoldingHas, PoppedIn, PopType
    <3>2. QED BY <3>1, AssignIn
  <2> HIDE DEF r2, s2
  <2>3. QED BY <2>1, <2>2, DeliverHolds, HoldingHas, ErrorIn
<1>3. QED BY <1>1, <1>2

LEMMA NamedCodeHolds ==
    ASSUME NEW W, Holding(W), NEW cell, IsCell(cell), {cell.car, cell.cdr, cell.env} \subseteq W, NamedCode(cell)
    PROVE  CoreHolds(W)'
<1> DEFINE name == CAR(CADR(reg.exp))
           r == [reg EXCEPT !.unev = CDR(CADR(reg.exp))]
           cells == <<cell>>
<1>1. PICK j \in Collections(cells, r, stack) :
         /\ heap' = HeapAfter(cells, j, r, stack)
         /\ envs' = Bind(EnvsAfter(j, r, stack), reg.env, TextOf(name), fresh)
         /\ Created(cells)
  BY DEF NamedCode
<1>2. Takes(W) /\ Ground(W) /\ MemoryOK /\ MemoryHolds(W) /\ CellsIn(heap, W) /\ BindingsIn(envs, W)
  BY HoldingHas
<1>3. IsBatch(cells) /\ BatchIn(cells, W) /\ Len(cells) = 1
  BY CreatesIn
<1>4. name \in W /\ T \in W
  BY <1>2, HoldingHas, GroundHas
<1>5. reg' = [reg EXCEPT !.unev = name, !.val = T] /\ stack' = stack
  BY DEF NamedCode, To
<1> HIDE DEF r, cells, name
<1>6. fresh .. fresh + Len(cells) - 1 \subseteq W /\ error_value' \in W
  BY <1>1, <1>2, <1>3, CreatedIn
<1>7. fresh \in W
  BY <1>2, <1>3, <1>6 DEF MemoryOK
<1>8. CellsIn(heap', W)
  BY <1>1, <1>2, <1>3, <1>6, HeapAfterIn
<1>9. BindingsIn(envs', W)
  BY <1>1, <1>2, <1>7, EnvsAfterIn, EnvsAfterType, BindIn
<1>10. MemoryHolds(W)'
  BY <1>6, <1>8, <1>9 DEF MemoryHolds, CellsIn, BindingsIn
<1>11. reg \in RegistersIn(W) /\ stack \in Seq(EntriesIn(W))
  BY HoldingHas
<1>12. reg' \in RegistersIn(W)
  BY <1>4, <1>5, <1>11 DEF RegistersIn
<1>13. QED BY <1>5, <1>10, <1>11, <1>12 DEF CoreHolds

LEMMA LinkedIn ==
    ASSUME NEW W, NEW cells, CellsOK(cells), CellsIn(cells, W), NEW a, NEW d \in W
    PROVE  CellsIn([cells EXCEPT ![a].cdr = d], W)
<1> DEFINE linked == [cells EXCEPT ![a].cdr = d]
<1>1. ASSUME NEW x \in DOMAIN cells
      PROVE  {linked[x].car, linked[x].cdr, linked[x].env} \subseteq W
  <2>1. CASE x # a
    BY <2>1 DEF CellsIn
  <2>2. CASE x = a
    <3> DEFINE c == cells[x]
               e == [c EXCEPT !.cdr = d]
    <3>1. linked[x] = e /\ IsCell(c) /\ c.car \in W /\ c.env \in W
      BY <2>2 DEF CellsOK, CellsIn
    <3> HIDE DEF c
    <3>2. e.env = c.env /\ e.car = c.car /\ e.cdr = d
      BY <3>1, CellDomain DEF IsCell
    <3> HIDE DEF e
    <3>3. QED BY <3>1, <3>2
  <2>3. QED BY <2>1, <2>2
<1>2. DOMAIN linked = DOMAIN cells
  OBVIOUS
<1> HIDE DEF linked
<1>3. QED BY <1>1, <1>2 DEF CellsIn, linked

LEMMA StoreHolds ==
    ASSUME NEW W, Holding(W), NEW e, Store(e)
    PROVE  CoreHolds(W)'
<1>1. Unwound \in RegistersIn(W) /\ Rest \in Seq(EntriesIn(W))
  BY HoldingHas, UnwoundIn
<1>2. MemoryOK /\ MemoryHolds(W) /\ BindingsIn(envs, W) /\ reg.val \in W /\ T \in W
  BY HoldingHas, GroundHas
<1>3. BindingsIn(envs', W)
  BY <1>2, BindIn DEF Store, MemoryOK
<1>4. UNCHANGED <<heap, error_value>>
  BY DEF Store
<1>5. MemoryHolds(W)'
  BY <1>2, <1>3, <1>4 DEF MemoryHolds, CellsIn, BindingsIn
<1>6. reg' \in RegistersIn(W) /\ stack' \in Seq(EntriesIn(W))
  BY <1>1, <1>2, AssignIn DEF Store, To
<1>7. QED BY <1>5, <1>6 DEF CoreHolds

LEMMA AppendHolds ==
    ASSUME NEW W, Holding(W), NEW label,
           NEW r \in RegistersIn(W), NEW s, NEW r2 \in RegistersIn(W), NEW s2 \in Seq(EntriesIn(W)),
           AppendToLast(label, r, s, r2, s2)
    PROVE  CoreHolds(W)'
<1> DEFINE cells == <<Pair(r.val, NIL)>>
<1>1. PICK j \in Collections(cells, r, s) :
         /\ heap' = IF r.last = NULL THEN HeapAfter(cells, j, r, s)
                    ELSE [HeapAfter(cells, j, r, s) EXCEPT ![r.last].cdr = fresh]
         /\ envs' = EnvsAfter(j, r, s)
         /\ Created(cells)
         /\ To(label, [r2 EXCEPT !.last = fresh, !.argl = IF r.last = NULL THEN fresh ELSE @], s2)
  BY DEF AppendToLast
<1>2. Takes(W) /\ Ground(W) /\ MemoryOK /\ MemoryHolds(W) /\ CellsIn(heap, W) /\ BindingsIn(envs, W)
  BY HoldingHas
<1>3. IsBatch(cells) /\ BatchIn(cells, W) /\ j \in 0 .. Len(cells) /\ Len(cells) = 1
  <2>1. IsBatch(cells) /\ BatchIn(cells, W)
    BY <1>2, RegisterIn, GroundHas, PairIn
  <2>2. QED BY <2>1, CollectionsType
<1> DEFINE after == HeapAfter(cells, j, r, s)
<1>4. fresh .. fresh + Len(cells) - 1 \subseteq W /\ error_value' \in W
  BY <1>1, <1>2, <1>3, CreatedIn
<1>5. fresh \in W
  <2> HIDE DEF cells
  <2>1. QED BY <1>2, <1>3, <1>4 DEF MemoryOK
<1>6. CellsOK(after) /\ CellsIn(after, W)
  BY <1>2, <1>3, <1>4, HeapAfterType, HeapAfterIn
<1>7. BindingsIn(envs', W)
  BY <1>1, <1>2, EnvsAfterIn
<1>8. CellsIn(heap', W)
  <2>1. CASE r.last = NULL
    BY <1>1, <1>6, <2>1
  <2>2. CASE r.last # NULL
    <3>1. heap' = [after EXCEPT ![r.last].cdr = fresh]
      BY <1>1, <2>2
    <3> HIDE DEF after
    <3>2. QED BY <1>5, <1>6, <3>1, LinkedIn
  <2>3. QED BY <2>1, <2>2
<1>9. MemoryHolds(W)'
  BY <1>4, <1>7, <1>8 DEF MemoryHolds, CellsIn, BindingsIn
<1>10. reg' \in RegistersIn(W) /\ stack' = s2
  BY <1>1, <1>5 DEF To, RegistersIn
<1>11. QED BY <1>9, <1>10 DEF CoreHolds

LEMMA DispatchHolds ==
    ASSUME NEW W, Holding(W), Dispatch
    PROVE  CoreHolds(W)'
<1>1. /\ reg \in RegistersIn(W) /\ stack \in Seq(EntriesIn(W))
      /\ MemoryOK /\ MemoryHolds(W) /\ CellsIn(heap, W) /\ BindingsIn(envs, W) /\ Ground(W)
      /\ reg.val \in W /\ reg.exp \in W /\ reg.unev \in W /\ reg.env \in W /\ reg.cont \in W
      /\ \A p : CAR(p) \in W /\ CDR(p) \in W /\ CADR(p) \in W /\ CDDR(p) \in W
  BY HoldingHas
<1>2. CASE EvalSelf
  <2>1. [reg EXCEPT !.val = reg.exp] \in RegistersIn(W)
    BY <1>1, AssignIn
  <2>2. QED BY <1>1, <1>2, <2>1, MoveHolds DEF EvalSelf, At
<1>3. CASE EvalVariable
  BY <1>1, <1>3, LookedUpIn, DeliverHolds DEF EvalVariable
<1>4. CASE EvalQuoted
  <2> DEFINE text == TextOf(reg.exp)
             root == Image[text].cells[-Image[text].val]
             o == IF text \in Quoted THEN [Image[text] EXCEPT !.val = root.car] ELSE Returns(reg.exp)
  <2>1. ResultIn(o, W)
    <3>1. CASE text \in Quoted
      <4>1. IsOutcome(Image[text]) /\ Image[text].val < 0
        BY <3>1, EvaluatorAssumption
      <4>2. -Image[text].val \in DOMAIN Image[text].cells
        BY <4>1, ResultPlace
      <4>3. ResultIn(Image[text], W)
        BY <1>1, <4>1, OutcomeIn
      <4>4. root.car \in W \cup -Len(Image[text].cells) .. -1 /\ IsCell(root)
        BY <4>2, <4>3 DEF ResultIn, BatchIn, IsResult, IsBatch
      <4>5. root.car \in Int
        BY <4>4 DEF IsCell
      <4>6. QED BY <3>1, <4>3, <4>4, <4>5 DEF ResultIn, IsResult
    <3>2. CASE text \notin Quoted
      BY <1>1, <3>2, ReturnsIn
    <3>3. QED BY <3>1, <3>2
  <2>2. Deliver(o, "continue", reg, stack)
    BY <1>4 DEF EvalQuoted
  <2> HIDE DEF o
  <2>3. QED BY <1>1, <2>1, <2>2, DeliverHolds
<1>5. CASE EvalLambda
  <2> DEFINE r == [reg EXCEPT !.unev = CADR(reg.exp), !.exp = CDDR(reg.exp)]
             c == Procedure(r.unev, r.exp, r.env)
  <2>1. r \in RegistersIn(W)
    BY <1>1 DEF RegistersIn
  <2>2. Deliver(Creates(c), "continue", r, stack)
    BY <1>5 DEF EvalLambda
  <2> HIDE DEF r
  <2>3. r.unev \in W /\ r.exp \in W /\ r.env \in W
    BY <2>1, RegisterIn
  <2>4. r.unev \in Int /\ r.exp \in Int /\ r.env \in Nat
    BY <1>1, <2>3, GroundNumbers
  <2>5. IsCell(c) /\ c.car = r.unev /\ c.cdr = r.exp /\ c.env = r.env
    BY <2>4, CellTypes, CellFields
  <2> HIDE DEF c
  <2>6. ResultIn(Creates(c), W)
    BY <2>3, <2>5, CreatesIn
  <2>7. QED BY <1>1, <2>1, <2>2, <2>6, DeliverHolds
<1>6. CASE EvalDefineLambda
  <2>1. CDR(CADR(reg.exp)) \in Int /\ CDDR(reg.exp) \in Int /\ reg.env \in Nat
    BY <1>1, GroundNumbers
  <2>2. IsCell(Procedure(CDR(CADR(reg.exp)), CDDR(reg.exp), reg.env))
    BY <2>1, CellTypes
  <2>3. QED BY <1>1, <1>6, <2>2, CellFields, NamedCodeHolds DEF EvalDefineLambda
<1>7. CASE EvalMacroLambda
  <2>1. CDR(CADR(reg.exp)) \in Int /\ CDDR(reg.exp) \in Int /\ NULL \in W
    BY <1>1, GroundHas, GroundNumbers
  <2>2. IsCell(Macro(CDR(CADR(reg.exp)), CDDR(reg.exp)))
    BY <2>1, CellTypes
  <2>3. QED BY <1>1, <1>7, <2>1, <2>2, CellFields, NamedCodeHolds DEF EvalMacroLambda
<1>8. CASE EvalEval
  <2> DEFINE r == [reg EXCEPT !.exp = CADR(reg.exp)]
  <2>1. r \in RegistersIn(W)
    BY <1>1, AssignIn
  <2>2. \/ run_eval_on_string(r.exp, r, stack)
        \/ Deliver(Creates(Error("argument to eval")), "continue", r, stack)
    BY <1>8 DEF EvalEval
  <2> HIDE DEF r
  <2>3. QED BY <1>1, <2>1, <2>2, EvalOnStringHolds, DeliverHolds, ErrorIn
<1>9. CASE EvalImport
  <2> DEFINE r == [reg EXCEPT !.exp = CADR(reg.exp)]
  <2>1. r \in RegistersIn(W)
    BY <1>1, AssignIn
  <2>2. \/ run_eval_on_file(TextOf(r.exp), "import", r, stack)
        \/ /\ To("dispatch", [r EXCEPT !.cont = JUMP_EV_IMPORT_AUX], Push(stack, <<Cont(r.cont)>>))
           /\ UNCHANGED memory
        \/ Deliver(Creates(Error("argument to import")), "continue", r, stack)
    BY <1>9 DEF EvalImport
  <2> HIDE DEF r
  <2>3. CASE run_eval_on_file(TextOf(r.exp), "import", r, stack)
    BY <1>1, <2>1, <2>3, EvalOnFileHolds
  <2>4. CASE /\ To("dispatch", [r EXCEPT !.cont = JUMP_EV_IMPORT_AUX], Push(stack, <<Cont(r.cont)>>))
             /\ UNCHANGED memory
    <3>1. [r EXCEPT !.cont = JUMP_EV_IMPORT_AUX] \in RegistersIn(W)
      BY <1>1, <2>1, AssignIn, GroundHas
    <3>2. Push(stack, <<Cont(r.cont)>>) \in Seq(EntriesIn(W))
      BY <1>1, <2>1, RegisterIn, EntryIn, PushedIn, Zenon
    <3>3. QED BY <1>1, <2>4, <3>1, <3>2, MoveHolds
  <2>5. CASE Deliver(Creates(Error("argument to import")), "continue", r, stack)
    BY <1>1, <2>1, <2>5, DeliverHolds, ErrorIn
  <2>6. QED BY <2>2, <2>3, <2>4, <2>5
<1>10. CASE EvalIf
  <2>1. [reg EXCEPT !.cont = JUMP_EV_IF_DECIDE, !.exp = CADR(reg.exp)] \in RegistersIn(W)
    <3>1. JUMP_EV_IF_DECIDE \in W
      BY <1>1, GroundHas
    <3>2. QED BY <1>1, <3>1 DEF RegistersIn
  <2>2. Push(stack, <<Data(reg.exp), Env(reg.env), Cont(reg.cont)>>) \in Seq(EntriesIn(W))
    BY <1>1, EntryIn, PushedIn
  <2>3. QED BY <1>1, <1>10, <2>1, <2>2, MoveHolds DEF EvalIf
<1>11. ASSUME NEW form, NEW jump \in W, EvalStore(form, jump) PROVE CoreHolds(W)'
  <2>1. [reg EXCEPT !.unev = CADR(reg.exp), !.exp = CAR(CDDR(reg.exp)), !.cont = jump] \in RegistersIn(W)
    BY <1>1 DEF RegistersIn
  <2>2. Push(stack, <<Data(CADR(reg.exp)), Env(reg.env), Cont(reg.cont)>>) \in Seq(EntriesIn(W))
    BY <1>1, EntryIn, PushedIn
  <2>3. QED BY <1>1, <1>11, <2>1, <2>2, MoveHolds DEF EvalStore
<1>12. CASE EvalAssignment \/ EvalDefinition
  BY <1>1, <1>11, <1>12, GroundHas DEF EvalAssignment, EvalDefinition
<1>13. CASE EvalApplication
  <2>1. [reg EXCEPT !.unev = CDR(reg.exp), !.exp = CAR(reg.exp), !.cont = JUMP_EV_APPL_DID_OPERATOR]
          \in RegistersIn(W)
    <3>1. JUMP_EV_APPL_DID_OPERATOR \in W
      BY <1>1, GroundHas
    <3>2. QED BY <1>1, <3>1 DEF RegistersIn
  <2>2. Push(stack, <<Cont(reg.cont), Env(reg.env), Data(CDR(reg.exp))>>) \in Seq(EntriesIn(W))
    BY <1>1, EntryIn, PushedIn
  <2>3. QED BY <1>1, <1>13, <2>1, <2>2, MoveHolds DEF EvalApplication
<1>14. QED BY <1>2, <1>3, <1>4, <1>5, <1>6, <1>7, <1>8, <1>9, <1>10, <1>12, <1>13, Zenon DEF Dispatch

LEMMA SequenceHolds ==
    ASSUME NEW W, Holding(W), EvalBegin \/ Sequence
    PROVE  CoreHolds(W)'
<1>1. /\ reg \in RegistersIn(W) /\ stack \in Seq(EntriesIn(W)) /\ MemoryHolds(W) /\ Ground(W)
      /\ reg.exp \in W /\ reg.unev \in W /\ reg.env \in W /\ reg.cont \in W
      /\ \A p : CAR(p) \in W /\ CDR(p) \in W
      /\ Popped(stack, 1) \in W /\ Pop(stack, 1) \in Seq(EntriesIn(W))
  BY HoldingHas
<1>2. ASSUME NEW r \in RegistersIn(W), NEW label, NEW s \in Seq(EntriesIn(W)), UNCHANGED memory, To(label, r, s)
      PROVE  CoreHolds(W)'
  BY <1>1, <1>2, MoveHolds
<1>3. CASE EvalBegin
  <2>1. Push(stack, <<Cont(reg.cont)>>) \in Seq(EntriesIn(W))
    BY <1>1, EntryIn, PushedIn
  <2>2. /\ [reg EXCEPT !.unev = reg.exp] \in RegistersIn(W)
        /\ [reg EXCEPT !.exp = CDR(reg.exp), !.unev = CDR(reg.exp)] \in RegistersIn(W)
    BY <1>1 DEF RegistersIn
  <2>3. QED BY <1>2, <1>3, <2>1, <2>2 DEF EvalBegin, At
<1>4. CASE Sequence
  <2>1. Push(stack, <<Data(reg.unev), Env(reg.env)>>) \in Seq(EntriesIn(W))
    BY <1>1, EntryIn, PushedIn
  <2> DEFINE r == [reg EXCEPT !.exp = CAR(reg.unev)]
  <2>2. r \in RegistersIn(W) /\ JUMP_EV_SEQUENCE_CONTINUE \in W
    BY <1>1, AssignIn, GroundHas
  <2>3. /\ [r EXCEPT !.cont = Popped(stack, 1)] \in RegistersIn(W)
        /\ [r EXCEPT !.cont = JUMP_EV_SEQUENCE_CONTINUE] \in RegistersIn(W)
    BY <1>1, <2>2, AssignIn
  <2>4. QED BY <1>1, <1>2, <1>4, <2>1, <2>3 DEF Sequence, At
<1>5. QED BY <1>3, <1>4

LEMMA ContinuationHolds ==
    ASSUME NEW W, Holding(W), Continuation
    PROVE  CoreHolds(W)'
<1>1. /\ reg \in RegistersIn(W) /\ stack \in Seq(EntriesIn(W))
      /\ MemoryOK /\ MemoryHolds(W) /\ CellsIn(heap, W) /\ BindingsIn(envs, W) /\ Ground(W) /\ Takes(W)
      /\ reg.val \in W /\ reg.argl \in W /\ reg.unev \in W /\ reg.proc \in W /\ reg.env \in W /\ reg.last \in W
      /\ \A p : CAR(p) \in W /\ CDR(p) \in W /\ CADR(p) \in W /\ CDDR(p) \in W
      /\ Popped(stack, 1) \in W /\ Pop(stack, 1) \in Seq(EntriesIn(W))
  BY HoldingHas
<1>2. Unwound \in RegistersIn(W) /\ Rest \in Seq(EntriesIn(W))
  BY <1>1, UnwoundIn
<1>3. ASSUME NEW r \in RegistersIn(W), NEW label, NEW s \in Seq(EntriesIn(W)), UNCHANGED memory, To(label, r, s)
      PROVE  CoreHolds(W)'
  BY <1>1, <1>3, MoveHolds
<1>4. CASE IfDecide
  <2> DEFINE branches == CDDR(Unwound.exp)
             next == IF reg.val # NIL THEN CAR(branches) ELSE CADR(branches)
  <2>1. [Unwound EXCEPT !.exp = next] \in RegistersIn(W)
    BY <1>1, <1>2, AssignIn
  <2>2. UNCHANGED memory /\ To("dispatch", [Unwound EXCEPT !.exp = next], Rest)
    BY <1>4 DEF IfDecide, At
  <2>3. QED BY <1>2, <1>3, <2>1, <2>2
<1>5. CASE Assignment1 \/ Definition1
  BY <1>5, StoreHolds DEF Assignment1, Definition1
<1>6. CASE DidOperator
  <2> DEFINE r == [Unwound EXCEPT !.argl = NIL, !.last = NULL, !.proc = reg.val]
             found == IF IsStringType(reg.val) THEN lookup_variable_value(reg.val, r.env) ELSE Returns(reg.val)
             called == [r EXCEPT !.proc = Address(found.val)]
             entered == [called EXCEPT !.cont = JUMP_MACRO_FINISH, !.argl = r.unev, !.unev = CAR(called.proc)]
  <2>1. r \in RegistersIn(W)
    <3>1. NIL \in W /\ NULL \in W
      BY <1>1, GroundHas
    <3>2. QED BY <1>1, <1>2, <3>1 DEF RegistersIn
  <2>2. ResultIn(found, W)
    BY <1>1, LookedUpIn, ReturnsIn
  <2>3. PICK j \in Collections(found.cells, r, Rest) :
           IF Cell(called.proc).type = "macro"
           THEN ExtendEnvironment(CDR(called.proc), entered, Push(Rest, <<Cont(JUMP_MACRO_FINISH)>>))
           ELSE /\ Create(found.cells, j, r, Rest)
                /\ IF r.unev = NIL THEN To("apply", called, Rest)
                   ELSE To("operand_loop", called, Push(Rest, <<Data(called.proc)>>))
    BY <1>6, Zenon DEF DidOperator
  <2>4. /\ IsBatch(found.cells) /\ BatchIn(found.cells, W) /\ Len(found.cells) \in Nat
        /\ found.val \in W \cup -Len(found.cells) .. -1
    BY <2>2 DEF ResultIn, IsResult, IsBatch
  <2>5. CASE Cell(called.proc).type = "macro"
    <3>1. Address(found.val) \in W
      <4>1. called.proc = Address(found.val)
        BY <2>1, RegisterNames DEF RegistersIn
      <4>2. Address(found.val) \in {NIL, T} \cup DOMAIN heap
        BY <2>5, <4>1 DEF Cell, CellIn, BadCell, Text
      <4> HIDE DEF found
      <4>3. CASE found.val \in W
        <5>1. found.val \in Nat
          BY <1>1, <4>3, GroundNumbers
        <5>2. Address(found.val) = found.val
          BY <5>1 DEF Address
        <5>3. QED BY <4>3, <5>2
      <4>4. CASE found.val \in -Len(found.cells) .. -1
        <5>1. Address(found.val) \in Nat /\ Address(found.val) >= fresh
          BY <1>1, <2>4, <4>4 DEF Address, MemoryOK
        <5>2. QED BY <1>1, <4>2, <5>1 DEF MemoryOK, Global, FirstAddress, NIL, T
      <4>5. QED BY <2>4, <4>3, <4>4
    <3>2. called \in RegistersIn(W)
      BY <2>1, <3>1, AssignIn
    <3>3. entered \in RegistersIn(W)
      <4>1. r.unev \in W /\ CAR(called.proc) \in W /\ JUMP_MACRO_FINISH \in W
        BY <1>1, <2>1, RegisterIn, GroundHas
      <4> HIDE DEF r, called
      <4>2. QED BY <3>2, <4>1 DEF RegistersIn
    <3>4. Push(Rest, <<Cont(JUMP_MACRO_FINISH)>>) \in Seq(EntriesIn(W))
      <4>1. Cont(JUMP_MACRO_FINISH) \in EntriesIn(W)
        BY <1>1, GroundHas, EntryIn
      <4>2. QED BY <1>2, <4>1, PushedIn
    <3>5. ExtendEnvironment(CDR(called.proc), entered, Push(Rest, <<Cont(JUMP_MACRO_FINISH)>>))
      BY <2>3, <2>5
    <3> HIDE DEF called, entered, found
    <3>6. QED BY <1>1, <3>3, <3>4, <3>5, ExtendHolds
  <2>6. CASE Cell(called.proc).type # "macro"
    <3>1. Create(found.cells, j, r, Rest)
      BY <2>3, <2>6
    <3>2. /\ reg' = called
          /\ stack' \in {Rest, Push(Rest, <<Data(called.proc)>>)}
      BY <2>3, <2>6 DEF To
    <3> HIDE DEF found
    <3>3. MemoryHolds(W)'
      BY <1>1, <2>4, <3>1, CreateIn
    <3>4. fresh .. fresh + Len(found.cells) - 1 \subseteq W
      BY <1>1, <2>4, <3>1, CreatedIn DEF Create
    <3>5. Address(found.val) \in W
      BY <1>1, <2>4, <3>4, AddressIn
    <3>6. called \in RegistersIn(W)
      BY <2>1, <3>5, AssignIn
    <3> HIDE DEF called
    <3>7. Push(Rest, <<Data(called.proc)>>) \in Seq(EntriesIn(W))
      <4>1. Data(called.proc) \in EntriesIn(W)
        BY <3>6, RegisterIn, EntryIn
      <4>2. QED BY <1>2, <4>1, PushedIn
    <3>8. QED BY <1>2, <3>2, <3>3, <3>6, <3>7 DEF CoreHolds
  <2>7. QED BY <2>5, <2>6
<1>7. CASE OperandLoop
  <2> DEFINE r == [reg EXCEPT !.exp = CAR(reg.unev)]
             saved == <<Data(reg.argl), ArgPointer(reg.last)>>
             more == <<Data(reg.argl), ArgPointer(reg.last), Env(reg.env), Data(reg.unev)>>
  <2>1. r \in RegistersIn(W) /\ JUMP_EV_APPL_ACCUM_LAST_ARG \in W /\ JUMP_EV_APPL_ACCUMULATE_ARG \in W
    BY <1>1, AssignIn, GroundHas
  <2>2. Push(stack, saved) \in Seq(EntriesIn(W)) /\ Push(stack, more) \in Seq(EntriesIn(W))
    BY <1>1, EntryIn, PushedIn
  <2>3. /\ UNCHANGED memory
        /\ \/ To("dispatch", [r EXCEPT !.cont = JUMP_EV_APPL_ACCUM_LAST_ARG], Push(stack, saved))
           \/ To("dispatch", [r EXCEPT !.cont = JUMP_EV_APPL_ACCUMULATE_ARG], Push(stack, more))
    BY <1>7 DEF OperandLoop, At
  <2> HIDE DEF r, saved, more
  <2>4. /\ [r EXCEPT !.cont = JUMP_EV_APPL_ACCUM_LAST_ARG] \in RegistersIn(W)
        /\ [r EXCEPT !.cont = JUMP_EV_APPL_ACCUMULATE_ARG] \in RegistersIn(W)
    BY <2>1, AssignIn
  <2>5. QED BY <1>3, <2>2, <2>3, <2>4
<1>8. CASE AccumulateArg
  <2>1. [Unwound EXCEPT !.unev = CDR(@)] \in RegistersIn(W)
    BY <1>1, <1>2, AssignIn
  <2>2. QED BY <1>2, <1>8, <2>1, AppendHolds DEF AccumulateArg
<1>9. CASE AccumLastArg
  <2>1. [Unwound EXCEPT !.proc = reg.proc] \in RegistersIn(W)
    BY <1>1, <1>2, AssignIn
  <2>2. QED BY <1>2, <1>9, <2>1, AppendHolds DEF AccumLastArg
<1>10. CASE SequenceContinue
  <2>1. [Unwound EXCEPT !.unev = CDR(@)] \in RegistersIn(W)
    BY <1>1, <1>2, AssignIn
  <2>2. QED BY <1>2, <1>3, <1>10, <2>1 DEF SequenceContinue, At
<1>11. CASE MacroFinish
  <2>1. [Unwound EXCEPT !.exp = reg.val] \in RegistersIn(W)
    BY <1>1, <1>2, AssignIn
  <2>2. QED BY <1>2, <1>3, <1>11, <2>1 DEF MacroFinish, At
<1>12. CASE ImportAux
  <2>1. [reg EXCEPT !.cont = Popped(stack, 1)] \in RegistersIn(W)
    BY <1>1, AssignIn
  <2>2. QED BY <1>1, <1>12, <2>1, EvalOnFileHolds, DeliverHolds, ErrorIn DEF ImportAux
<1>13. QED BY <1>4, <1>5, <1>6, <1>7, <1>8, <1>9, <1>10, <1>11, <1>12, Zenon DEF Continuation

LEMMA ApplyHolds ==
    ASSUME NEW W, Holding(W), Apply
    PROVE  CoreHolds(W)'
<1>1. /\ reg \in RegistersIn(W) /\ stack \in Seq(EntriesIn(W)) /\ MemoryOK /\ CellsIn(heap, W) /\ Ground(W)
      /\ \A p : CAR(p) \in W /\ CDR(p) \in W
      /\ Popped(stack, 1) \in W /\ Pop(stack, 1) \in Seq(EntriesIn(W))
  BY HoldingHas
<1>2. [reg EXCEPT !.cont = Popped(stack, 1)] \in RegistersIn(W)
  BY <1>1, AssignIn
<1>3. CASE PrimitiveApply
  BY <1>1, <1>2, <1>3, PrimitiveIn, DeliverHolds DEF PrimitiveApply
<1>4. CASE CompoundApply
  <2>1. CAR(reg.proc) \in W /\ Cell(reg.proc).env \in W
    BY <1>1, PartsHold
  <2>2. [reg EXCEPT !.unev = CAR(reg.proc), !.env = Cell(reg.proc).env] \in RegistersIn(W)
    BY <1>1, <2>1 DEF RegistersIn
  <2>3. QED BY <1>1, <1>4, <2>2, ExtendHolds DEF CompoundApply
<1>5. CASE UnknownProcedure
  BY <1>1, <1>2, <1>5, ErrorIn, DeliverHolds DEF UnknownProcedure
<1>6. QED BY <1>3, <1>4, <1>5 DEF Apply

LEMMA ContinueHolds ==
    ASSUME NEW W, Holding(W), Continue
    PROVE  CoreHolds(W)'
<1>1. reg \in RegistersIn(W) /\ stack \in Seq(EntriesIn(W)) /\ MemoryHolds(W) /\ reg.val \in W
  BY HoldingHas
<1>2. Answer \in W
  BY <1>1 DEF Answer, MemoryHolds
<1>3. reg' \in RegistersIn(W) /\ stack' \in Seq(EntriesIn(W))
  BY <1>1, <1>2, AssignIn DEF Continue, To
<1>4. MemoryHolds(W)'
  BY <1>1, MemoryKept DEF Continue
<1>5. QED BY <1>3, <1>4 DEF CoreHolds

LEMMA ExitHolds ==
    ASSUME NEW W, Holding(W), Exit
    PROVE  CoreHolds(W)'
<1> DEFINE r == restore_regs(reg, stack)
           s == Pop(stack, Len(Saved))
           r2 == restore_regs(r, s)
           s2 == Pop(s, Len(Saved))
           back == Return(r, s)
<1>1. Len(Saved) \in Nat
  BY DEF Saved
<1>2. Ground(W) /\ MemoryHolds(W) /\ CellsIn(heap, W)
  BY HoldingHas
<1>3. r \in RegistersIn(W) /\ s \in Seq(EntriesIn(W))
  BY <1>1, HoldingHas, RestoreIn, PopType
<1>4. r2 \in RegistersIn(W) /\ s2 \in Seq(EntriesIn(W)) /\ Popped(s2, 1) \in W /\ Pop(s2, 1) \in Seq(EntriesIn(W))
  <2> HIDE DEF r, s
  <2>1. r2 \in RegistersIn(W) /\ s2 \in Seq(EntriesIn(W))
    BY <1>1, <1>2, <1>3, RestoreIn, PopType
  <2> HIDE DEF r2, s2
  <2>2. QED BY <1>2, <2>1, PoppedIn, PopType
<1>5. back.r \in RegistersIn(W) /\ back.s \in Seq(EntriesIn(W))
  <2>1. [r2 EXCEPT !.cont = Popped(s2, 1)] \in RegistersIn(W)
    BY <1>4, AssignIn
  <2>2. back = CASE Head(calls) = "host" -> [label |-> "host", r |-> r, s |-> s]
                 [] Head(calls) = "import_aux" ->
                      [label |-> "continue", r |-> [r2 EXCEPT !.cont = Popped(s2, 1)], s |-> Pop(s2, 1)]
                 [] OTHER -> [label |-> "continue", r |-> r2, s |-> s2]
    BY DEF Return
  <2> HIDE DEF r, s, r2, s2, back
  <2>3. QED BY <1>3, <1>4, <2>1, <2>2
<1>6. /\ reg' = back.r /\ stack' = back.s
      /\ heap' = Keep(heap, DOMAIN heap \ {reg.top}) /\ UNCHANGED <<envs, error_value>>
  BY DEF Exit, To
<1> HIDE DEF back
<1>7. CellsIn(heap', W)
  BY <1>2, <1>6, KeptIn
<1>8. MemoryHolds(W)'
  BY <1>2, <1>6, <1>7 DEF MemoryHolds, CellsIn, BindingsIn
<1>9. QED BY <1>5, <1>6, <1>8 DEF CoreHolds

-----------------------------------------------------------------------------
(* The steps of the plugin.                                                *)

LEMMA PluginHeld ==
    ASSUME NEW W, PluginHolds(W), UNCHANGED <<GlobalEnv, restoring>>
    PROVE  PluginHolds(W)'
BY DEF PluginHolds

LEMMA HeldIn ==
    ASSUME NEW W, Ground(W), PluginHolds(W), NEW n \in Nat
    PROVE  Held(n) \in W
<1> DEFINE k == Len(restoring.held) - n
<1>1. restoring.held \in Seq(W)
  BY DEF PluginHolds
<1>2. CASE n < Len(restoring.held)
  <2>1. k \in 1 .. Len(restoring.held)
    BY <1>1, <1>2
  <2>2. restoring.held[k] \in W
    BY <1>1, <2>1
  <2>3. QED BY <1>2, <2>2 DEF Held
<1>3. CASE ~ (n < Len(restoring.held))
  BY <1>3, GroundHas DEF Held
<1>4. QED BY <1>2, <1>3

LEMMA RedirectedIn ==
    ASSUME NEW W, Ground(W), PluginHolds(W)
    PROVE  /\ \A e : Made(e) \in W
           /\ \A e \in W : Redirected(e) \in W
BY GroundHas DEF PluginHolds, Redirected, Made

LEMMA FrontIn ==
    ASSUME NEW S, NEW q \in Seq(S)
    PROVE  Front(q) \in Seq(S)
<1>1. Len(q) \in Nat
  OBVIOUS
<1>2. \A n \in Int : n <= Len(q) => SubSeq(q, 1, n) \in Seq(S)
  BY <1>1
<1>3. Len(q) - 1 \in Int /\ Len(q) - 1 <= Len(q)
  BY <1>1
<1>4. QED BY <1>2, <1>3 DEF Front

LEMMA RestoredCellIn ==
    ASSUME NEW W, Ground(W), PluginHolds(W), Ready, PluginOK, IsTask(Task)
    PROVE  {RestoredCell.car, RestoredCell.cdr, RestoredCell.env} \subseteq W
<1>1. Copied.type \in Types
  BY TaskTypes DEF Copied, IsCell
<1>2. DOMAIN Leaf = DOMAIN BadCell /\ Leaf.car = WILD /\ Leaf.cdr = WILD /\ Leaf.env = NULL
  <2> DEFINE t == Text(Copied.type, Copied.text)
             c == [t EXCEPT !.num = Copied.num]
  <2>1. IsCell(t)
    BY <1>1, TextIsCell
  <2>2. t.car = WILD /\ t.cdr = WILD /\ t.env = NULL
    BY DEF Text
  <2> HIDE DEF t
  <2>3. DOMAIN c = DOMAIN t /\ c.car = t.car /\ c.cdr = t.cdr /\ c.env = t.env
    BY <2>1, CellDomain DEF IsCell
  <2> HIDE DEF c
  <2>4. QED BY <2>1, <2>2, <2>3 DEF Leaf, c, t, IsCell
<1>3. Held(0) \in W /\ Held(1) \in W /\ Made(Task.env) \in W /\ WILD \in W /\ NULL \in W
  BY HeldIn, RedirectedIn, GroundHas
<1> DEFINE d == [Leaf EXCEPT !.car = Held(1), !.cdr = Held(0), !.env = Made(Task.env)]
<1>4. d.car = Held(1) /\ d.cdr = Held(0) /\ d.env = Made(Task.env)
  BY <1>2, CellDomain
<1> HIDE DEF d
<1>5. QED BY <1>2, <1>3, <1>4 DEF RestoredCell, d

LEMMA RewiredIn ==
    ASSUME NEW W, NEW cells, CellsOK(cells), CellsIn(cells, W), NEW p, p \in DOMAIN cells => Redirected(cells[p].env) \in W
    PROVE  CellsIn([cells EXCEPT ![p].env = Redirected(@)], W)
<1> DEFINE rewired == [cells EXCEPT ![p].env = Redirected(@)]
<1>1. ASSUME NEW x \in DOMAIN cells
      PROVE  {rewired[x].car, rewired[x].cdr, rewired[x].env} \subseteq W
  <2>1. CASE x # p
    BY <2>1 DEF CellsIn
  <2>2. CASE x = p
    <3> DEFINE c == cells[x]
               e == [c EXCEPT !.env = Redirected(@)]
    <3>1. rewired[x] = e /\ IsCell(c) /\ c.car \in W /\ c.cdr \in W /\ Redirected(c.env) \in W
      BY <2>2 DEF CellsOK, CellsIn
    <3> HIDE DEF c
    <3>2. e.env = Redirected(c.env) /\ e.car = c.car /\ e.cdr = c.cdr
      BY <3>1, CellDomain DEF IsCell
    <3> HIDE DEF e
    <3>3. QED BY <3>1, <3>2
  <2>3. QED BY <2>1, <2>2
<1>2. DOMAIN rewired = DOMAIN cells
  OBVIOUS
<1> HIDE DEF rewired
<1>3. QED BY <1>1, <1>2 DEF CellsIn, rewired

LEMMA EnvironmentHolds ==
    ASSUME NEW W, Holding(W), PluginOK, PluginHolds(W), env_restore
    PROVE  CoreHolds(W)' /\ PluginHolds(W)'
<1>1. /\ reg \in RegistersIn(W) /\ stack \in Seq(EntriesIn(W)) /\ Takes(W) /\ GlobalEnv \in W
      /\ MemoryOK /\ MemoryHolds(W) /\ CellsIn(heap, W) /\ BindingsIn(envs, W)
  BY HoldingHas DEF Holding
<1>2. UNCHANGED <<reg, stack>>
  BY DEF env_restore
<1>3. DOMAIN restoring = {"todo", "held", "made", "walk"} /\ restoring.held \in Seq(W)
      /\ \A e \in DOMAIN restoring.made : restoring.made[e] \in W
  BY RestoringTypes DEF PluginHolds
<1>4. CASE Task.env \in DOMAIN restoring.made
  <2>1. restoring' = [restoring EXCEPT !.todo = Tail(@)] /\ UNCHANGED <<GlobalEnv, memory>>
    BY <1>4 DEF env_restore
  <2>2. restoring'.held = restoring.held /\ restoring'.made = restoring.made
    BY <1>3, <2>1
  <2>3. MemoryHolds(W)'
    BY <1>1, <2>1, MemoryKept DEF memory
  <2>4. QED BY <1>1, <1>2, <1>3, <2>1, <2>2, <2>3 DEF CoreHolds, PluginHolds
<1>5. CASE Task.env \notin DOMAIN restoring.made
  <2> DEFINE new == [parent |-> stored.envs[Task.env].parent, bind |-> <<>>]
  <2>1. PICK j \in Room(<<BadCell>>) :
           /\ envs' = With(EnvsAfter(j, reg, stack), fresh, new)
           /\ heap' = IF j = 0 THEN heap ELSE Keep(heap, Marked(reg, stack) \cup code)
    BY <1>5 DEF env_restore
  <2>2. /\ fresh' = fresh + 1 /\ UNCHANGED error_value /\ GlobalEnv' \in {fresh, GlobalEnv}
        /\ restoring' = [restoring EXCEPT !.made = With(@, Task.env, fresh), !.todo = Instead(BindingTasks(Task.env))]
    BY <1>5 DEF env_restore
  <2>3. \A x \in DOMAIN new.bind : new.bind[x] \in W
    OBVIOUS
  <2> DEFINE kept == EnvsAfter(j, reg, stack)
  <2>4. BindingsIn(kept, W)
    BY <1>1, EnvsAfterIn
  <2> HIDE DEF new, kept
  <2>5. BindingsIn(envs', W)
    BY <2>1, <2>3, <2>4 DEF BindingsIn, With, kept
  <2>6. CellsIn(heap', W)
    BY <1>1, <2>1, KeptIn
  <2>7. MemoryHolds(W)'
    BY <1>1, <2>2, <2>5, <2>6 DEF MemoryHolds, CellsIn, BindingsIn
  <2>8. fresh \in W
    BY <1>1, <2>2 DEF Takes, MemoryOK
  <2>9. restoring'.held = restoring.held /\ restoring'.made = With(restoring.made, Task.env, fresh)
    BY <1>3, <2>2
  <2>10. \A e \in DOMAIN restoring'.made : restoring'.made[e] \in W
    BY <1>3, <2>8, <2>9 DEF With
  <2>11. QED BY <1>1, <1>2, <1>3, <2>2, <2>7, <2>8, <2>9, <2>10 DEF CoreHolds, PluginHolds
<1>6. QED BY <1>4, <1>5

LEMMA CellHolds ==
    ASSUME NEW W, Holding(W), PluginOK, PluginHolds(W), data_restore_cell
    PROVE  CoreHolds(W)' /\ PluginHolds(W)'
<1>1. /\ reg \in RegistersIn(W) /\ stack \in Seq(EntriesIn(W)) /\ Takes(W) /\ GlobalEnv \in W
      /\ MemoryOK /\ MemoryHolds(W) /\ Ground(W) /\ Ready
  BY HoldingHas DEF Holding
<1>2. /\ restoring.todo # <<>> /\ UNCHANGED <<reg, stack, GlobalEnv>>
  BY DEF data_restore_cell, Restoring
<1>3. DOMAIN restoring = {"todo", "held", "made", "walk"} /\ restoring.held \in Seq(W)
      /\ \A e \in DOMAIN restoring.made : restoring.made[e] \in W
  BY RestoringTypes DEF PluginHolds
<1>4. IsTask(Task)
  BY <1>2, RestoringTypes, TodoTail DEF Task
<1> DEFINE shared == Copied.type \in {"nil", "true"}
           address == IF Copied.type = "nil" THEN NIL ELSE IF shared THEN T ELSE fresh
           cells == IF shared THEN <<>> ELSE <<RestoredCell>>
           n == IF Task.do = "cell" THEN 2 ELSE 0
<1>5. PICK j \in Room(cells) : Create(cells, j, reg, stack)
  BY DEF data_restore_cell
<1>6. restoring' = [restoring EXCEPT !.todo = Tail(@), !.held = Hold(n, address)]
  BY DEF data_restore_cell
<1>7. IsBatch(cells) /\ BatchIn(cells, W)
  <2>1. IsBatch(<<>>) /\ BatchIn(<<>>, W)
    BY DEF IsBatch, BatchIn
  <2>2. IsBatch(<<RestoredCell>>) /\ BatchIn(<<RestoredCell>>, W)
    BY <1>1, <1>4, RestoredCellType, RestoredCellIn, CreatesIn
  <2>3. QED BY <2>1, <2>2
<1>8. address \in W
  <2>1. CASE shared
    BY <1>1, <2>1, GroundHas
  <2>2. CASE ~ shared
    <3>1. address = fresh /\ Len(cells) = 1
      BY <2>2
    <3>2. fresh' = fresh + Len(cells) /\ fresh \in Nat
      BY <1>1, <1>5 DEF Create, Created, MemoryOK
    <3> HIDE DEF address, cells
    <3>3. QED BY <1>1, <3>1, <3>2 DEF Takes
  <2>3. QED BY <2>1, <2>2
<1> HIDE DEF cells, address
<1>9. MemoryHolds(W)'
  BY <1>1, <1>5, <1>7, CreateIn
<1>10. Hold(n, address) \in Seq(W)
  <2>1. n \in Nat
    OBVIOUS
  <2> HIDE DEF n
  <2>2. SubSeq(restoring.held, 1, Len(restoring.held) - n) \in Seq(W) /\ <<address>> \in Seq(W)
    <3>1. Pop(restoring.held, n) \in Seq(W)
      BY <1>3, <2>1, PopType
    <3>2. QED BY <1>8, <3>1 DEF Pop
  <2>3. QED BY <2>2 DEF Hold
<1> HIDE DEF n
<1>11. restoring'.held = Hold(n, address) /\ restoring'.made = restoring.made
  BY <1>3, <1>6
<1>12. QED BY <1>1, <1>2, <1>3, <1>9, <1>10, <1>11 DEF CoreHolds, PluginHolds

LEMMA PluginStepHolds ==
    ASSUME NEW W, Holding(W), PluginOK, PluginHolds(W), EnvRestore
    PROVE  CoreHolds(W)' /\ PluginHolds(W)'
<1>1. /\ reg \in RegistersIn(W) /\ stack \in Seq(EntriesIn(W)) /\ Ground(W) /\ GlobalEnv \in W
      /\ MemoryOK /\ MemoryHolds(W) /\ CellsIn(heap, W) /\ BindingsIn(envs, W) /\ reg.env \in W
      /\ Popped(stack, 1) \in W /\ Pop(stack, 1) \in Seq(EntriesIn(W)) /\ T \in W /\ NIL \in W
  BY HoldingHas, GroundHas DEF Holding
<1>2. DOMAIN restoring = {"todo", "held", "made", "walk"} /\ restoring.held \in Seq(W)
      /\ \A e \in DOMAIN restoring.made : restoring.made[e] \in W
  BY RestoringTypes DEF PluginHolds
<1>3. ASSUME UNCHANGED <<reg, stack, memory>> PROVE CoreHolds(W)'
  BY <1>1, <1>3, MemoryKept DEF CoreHolds, memory
<1>4. ASSUME GlobalEnv' = GlobalEnv, restoring'.held = restoring.held, restoring'.made = restoring.made
      PROVE  PluginHolds(W)'
  BY <1>1, <1>2, <1>4 DEF PluginHolds
<1>5. CASE env_restore_plugin_save
  <2>1. [reg EXCEPT !.val = T, !.cont = Popped(stack, 1)] \in RegistersIn(W)
    BY <1>1 DEF RegistersIn
  <2>2. CoreHolds(W)'
    BY <1>1, <1>5, <2>1, MoveHolds DEF env_restore_plugin_save
  <2>3. PluginHolds(W)'
    BY <1>4, <1>5 DEF env_restore_plugin_save
  <2>4. QED BY <2>2, <2>3
<1>6. CASE env_restore_plugin_restore
  <2>1. CASE stored = NothingSaved
    <3>1. [reg EXCEPT !.val = NIL, !.cont = Popped(stack, 1)] \in RegistersIn(W)
      BY <1>1 DEF RegistersIn
    <3>2. CoreHolds(W)'
      BY <1>1, <1>6, <2>1, <3>1, MoveHolds DEF env_restore_plugin_restore
    <3>3. PluginHolds(W)'
      BY <1>4, <1>6, <2>1 DEF env_restore_plugin_restore
    <3>4. QED BY <3>2, <3>3
  <2>2. CASE stored # NothingSaved
    <3>1. restoring' = [NotRestoring EXCEPT !.todo = <<EnvTask(stored.main)>>] /\ GlobalEnv' = GlobalEnv
      BY <1>6, <2>2 DEF env_restore_plugin_restore
    <3>2. restoring'.held = <<>> /\ restoring'.made = <<>>
      BY <3>1 DEF NotRestoring
    <3>3. CoreHolds(W)'
      BY <1>3, <1>6, <2>2 DEF env_restore_plugin_restore, To
    <3>4. GlobalEnv' = GlobalEnv
      BY <3>1
    <3>5. PluginHolds(W)'
      BY <1>1, <3>2, <3>4 DEF PluginHolds
    <3>6. QED BY <3>3, <3>5
  <2>3. QED BY <2>1, <2>2
<1>7. CASE data_restore
  <2>1. PICK todo : restoring' = [restoring EXCEPT !.todo = todo] /\ UNCHANGED <<reg, stack, GlobalEnv, memory>>
    BY <1>7 DEF data_restore
  <2>2. restoring'.held = restoring.held /\ restoring'.made = restoring.made
    BY <1>2, <2>1
  <2>3. QED BY <1>3, <1>4, <2>1, <2>2
<1>8. CASE env_restore_bind
  <2>1. /\ UNCHANGED <<reg, stack, GlobalEnv, heap, error_value>>
        /\ envs' = Bind(envs, Made(Task.env), Task.name, Held(0))
        /\ restoring' = [restoring EXCEPT !.todo = Tail(@), !.held = Front(@)]
    BY <1>8 DEF env_restore_bind
  <2>2. Held(0) \in W
    BY <1>1, HeldIn
  <2>3. BindingsIn(envs', W)
    BY <1>1, <2>1, <2>2, BindIn DEF MemoryOK
  <2>4. MemoryHolds(W)'
    BY <1>1, <2>1, <2>3 DEF MemoryHolds, CellsIn, BindingsIn
  <2>5. restoring'.held = Front(restoring.held) /\ restoring'.made = restoring.made
    BY <1>2, <2>1
  <2>6. Front(restoring.held) \in Seq(W)
    BY <1>2, FrontIn
  <2>7. QED BY <1>1, <1>2, <2>1, <2>4, <2>5, <2>6 DEF CoreHolds, PluginHolds
<1>9. CASE eval_set_new_pointers
  <2>1. PICK walk : restoring' = [restoring EXCEPT !.walk = walk]
    BY <1>9 DEF eval_set_new_pointers
  <2>2. UNCHANGED <<reg, stack, GlobalEnv, memory>>
    BY <1>9 DEF eval_set_new_pointers, To
  <2>3. restoring'.held = restoring.held /\ restoring'.made = restoring.made
    BY <1>2, <2>1
  <2>4. QED BY <1>3, <1>4, <2>2, <2>3
<1>10. CASE rec_set_new_pointers
  <2> DEFINE met == Head(restoring.walk)
             c == Cell(met.v)
             isProcedure == met.kind = "data" /\ c.type = "procedure"
             parts == IF met.kind = "data" /\ HasParts(c.type) THEN <<Data(c.car), Data(c.cdr)>> ELSE <<>>
             next == IF isProcedure THEN <<Env(c.env)>> \o parts
                     ELSE IF met.kind = "env" THEN Slots(met.v) ELSE parts
             p == met.v
  <2>1. /\ restoring' = [restoring EXCEPT !.walk = next \o Tail(@)]
        /\ heap' = IF isProcedure THEN [heap EXCEPT ![p].env = Redirected(@)] ELSE heap
    BY <1>10, Zenon DEF rec_set_new_pointers
  <2>2. UNCHANGED <<reg, stack, GlobalEnv, envs, error_value>>
    BY <1>10 DEF rec_set_new_pointers
  <2> HIDE DEF met, c, isProcedure, parts, next, p
  <2>3. restoring'.held = restoring.held /\ restoring'.made = restoring.made
    BY <1>2, <2>1
  <2>4. ASSUME p \in DOMAIN heap PROVE Redirected(heap[p].env) \in W
    BY <1>1, <2>4, RedirectedIn DEF CellsIn
  <2>5. CellsIn([heap EXCEPT ![p].env = Redirected(@)], W)
    BY <1>1, <2>4, RewiredIn DEF MemoryOK
  <2>6. CellsIn(heap', W)
    BY <1>1, <2>1, <2>5
  <2>7. MemoryHolds(W)'
    BY <1>1, <2>2, <2>6 DEF MemoryHolds, CellsIn, BindingsIn
  <2>8. QED BY <1>1, <1>4, <2>2, <2>3, <2>7 DEF CoreHolds
<1>11. CASE env_restore_plugin_return
  <2> DEFINE rest == Pop(stack, 1)
             r == [reg EXCEPT !.val = T, !.env = Redirected(@), !.cont = Popped(stack, 1)]
             s == [i \in DOMAIN rest |-> IF stack[i].kind = "env" THEN Env(Redirected(stack[i].v)) ELSE stack[i]]
  <2>1. restoring' = NotRestoring /\ UNCHANGED <<GlobalEnv, memory>> /\ To("continue", r, s)
    BY <1>11 DEF env_restore_plugin_return
  <2>2. r \in RegistersIn(W)
    <3>1. Redirected(reg.env) \in W
      BY <1>1, RedirectedIn
    <3>2. QED BY <1>1, <3>1 DEF RegistersIn
  <2>3. s \in Seq(EntriesIn(W))
    <3>1. rest \in Seq(EntriesIn(W)) /\ Len(rest) <= Len(stack)
      BY <1>1 DEF Pop
    <3>2. ASSUME NEW i \in DOMAIN rest PROVE s[i] \in EntriesIn(W)
      <4>1. stack[i] \in EntriesIn(W)
        BY <1>1, <3>1
      <4>2. stack[i].v \in W
        BY <4>1 DEF EntriesIn
      <4>3. Env(Redirected(stack[i].v)) \in EntriesIn(W)
        BY <1>1, <4>2, RedirectedIn, EntryIn
      <4>4. QED BY <4>1, <4>3
    <3>3. DOMAIN rest = 1 .. Len(rest) /\ Len(rest) \in Nat
      BY <3>1
    <3> HIDE DEF rest
    <3>4. s \in [1 .. Len(rest) -> EntriesIn(W)]
      BY <3>2, <3>3
    <3> HIDE DEF s
    <3>5. \E n \in Nat : s \in [1 .. n -> EntriesIn(W)]
      BY <3>3, <3>4
    <3>6. QED BY <3>5, FunctionIsSequence
  <2> HIDE DEF r, s
  <2>4. CoreHolds(W)'
    BY <1>1, <2>1, <2>2, <2>3, MoveHolds
  <2>5. restoring'.held = <<>> /\ restoring'.made = <<>> /\ GlobalEnv' = GlobalEnv
    BY <2>1 DEF NotRestoring
  <2>6. QED BY <1>1, <2>4, <2>5 DEF PluginHolds
<1>12. CASE env_restore \/ data_restore_cell
  BY <1>12, EnvironmentHolds, CellHolds
<1>13. QED BY <1>5, <1>6, <1>7, <1>8, <1>9, <1>10, <1>11, <1>12, Zenon DEF EnvRestore

-----------------------------------------------------------------------------
(* Addresses are issued before they are held.                              *)

Holds(W) == CoreHolds(W) /\ PluginHolds(W)

\* A set that holds what the interpreter holds still does after a step, if it
\* has the addresses of what the step creates.
LEMMA StepHolds ==
    ASSUME NEW W, Inv, [Next]_vars, Takes(W), Holds(W)
    PROVE  Holds(W)'
<1>1. Ready /\ PluginOK /\ script \in Scripts
  BY TypeParts DEF Inv, Ready, PluginOK
<1>2. Holding(W) /\ PluginHolds(W) /\ CoreHolds(W) /\ Ground(W)
  BY <1>1 DEF Holding, Holds, PluginHolds, Takes
<1>3. reg \in RegistersIn(W) /\ stack \in Seq(EntriesIn(W)) /\ MemoryHolds(W)
  BY <1>2 DEF CoreHolds
<1>4. ASSUME UNCHANGED plugin PROVE PluginHolds(W)'
  BY <1>2, <1>4, PluginHeld DEF plugin
<1>5. CASE Run
  <2>1. CASE EnvRestore
    BY <1>1, <1>2, <2>1, PluginStepHolds DEF Holds
  <2>2. CASE (Dispatch \/ EvalBegin \/ Sequence \/ Continuation \/ Apply \/ Continue \/ Exit) /\ UNCHANGED plugin
    <3>1. CoreHolds(W)'
      BY <1>2, <2>2, DispatchHolds, SequenceHolds, ContinuationHolds, ApplyHolds, ContinueHolds, ExitHolds
    <3>2. QED BY <1>4, <2>2, <3>1 DEF Holds
  <2>3. QED BY <1>5, <2>1, <2>2 DEF Run
<1>6. CASE Eval /\ UNCHANGED plugin
  <2>1. asked + 1 \in DOMAIN script.programs
    <3>1. asked \in 0 .. Len(script.programs) /\ asked < Len(script.programs)
      BY <1>1, <1>6 DEF Ready, CoreOK, CallsOK, Eval
    <3>2. script.programs \in Seq({script.programs[i] : i \in DOMAIN script.programs})
      BY <1>1, EvaluatorAssumption
    <3>3. QED BY <3>1, <3>2
  <2>2. ResultIn(script.programs[asked + 1], W)
    BY <1>1, <1>2, <2>1, EvaluatorAssumption, OutcomeIn
  <2>3. Enter(script.programs[asked + 1], "host", reg, stack)
    BY <1>6 DEF Eval
  <2>4. CoreHolds(W)'
    BY <1>2, <1>3, <2>2, <2>3, EnterHolds
  <2>5. QED BY <1>4, <1>6, <2>4 DEF Holds
<1>7. CASE (Undefined \/ UNCHANGED vars) /\ UNCHANGED plugin
  <2>1. UNCHANGED <<reg, stack, heap, envs, error_value>>
    BY <1>7 DEF Undefined, vars, memory
  <2>2. MemoryHolds(W)'
    BY <1>3, <2>1, MemoryKept
  <2>3. QED BY <1>3, <1>4, <1>7, <2>1, <2>2 DEF CoreHolds, Holds
<1>8. UNCHANGED vars => UNCHANGED plugin
  BY DEF vars
<1>9. QED BY <1>5, <1>6, <1>7, <1>8 DEF Next

LEMMA HoldsWider ==
    ASSUME NEW V, NEW W, V \subseteq W, Holds(V)
    PROVE  Holds(W)
<1>1. reg \in RegistersIn(W)
  BY DEF Holds, CoreHolds, RegistersIn
<1>2. EntriesIn(V) \subseteq EntriesIn(W)
  BY DEF EntriesIn
<1>3. stack \in Seq(EntriesIn(V)) /\ restoring.held \in Seq(V)
  BY DEF Holds, CoreHolds, PluginHolds
<1>4. stack \in Seq(EntriesIn(W)) /\ restoring.held \in Seq(W)
  BY <1>2, <1>3, SeqWider
<1>5. MemoryHolds(W)
  BY DEF Holds, CoreHolds, MemoryHolds, CellsIn, BindingsIn
<1>6. QED BY <1>1, <1>4, <1>5 DEF Holds, CoreHolds, PluginHolds

\* Nothing refers to an address that malloc has not returned yet.
Issued == Holds(0 .. fresh - 1)

LEMMA IssuedInit ==
    ASSUME Init
    PROVE  Issued
<1> DEFINE V == 0 .. fresh - 1
<1>1. V = 0 .. 102
  BY DEF Init, FirstAddress
<1> HIDE DEF V
<1>2. reg \in RegistersIn(V)
  BY <1>1 DEF Init, InitialRegisters, RegistersIn, NULL, JUMP_CODE
<1>3. stack \in Seq(EntriesIn(V)) /\ restoring.held \in Seq(V) /\ DOMAIN restoring.made = {}
  BY DEF Init, PluginInit, NotRestoring
<1>4. CellsIn(heap, V)
  BY DEF Init, CellsIn
<1>5. BindingsIn(envs, V)
  <2>1. DOMAIN envs = {Global} /\ envs[Global].bind = [nil |-> NIL]
    BY DEF Init
  <2>2. NIL \in V
    BY <1>1 DEF NIL
  <2>3. QED BY <2>1, <2>2 DEF BindingsIn
<1>6. error_value \in V /\ GlobalEnv \in V
  BY <1>1 DEF Init, PluginInit, NULL, Global
<1>7. QED BY <1>2, <1>3, <1>4, <1>5, <1>6 DEF Issued, Holds, CoreHolds, PluginHolds, MemoryHolds, V

\* malloc's addresses are used up, never given back.
Grows == fresh' \in Nat /\ fresh <= fresh'

LEMMA SameGrows ==
    ASSUME MemoryOK, fresh' = fresh
    PROVE  Grows
BY DEF MemoryOK, Grows

LEMMA BatchGrows ==
    ASSUME MemoryOK, NEW cells, IsBatch(cells), fresh' = fresh + Len(cells)
    PROVE  Grows
BY DEF MemoryOK, IsBatch, Grows

LEMMA DeliverGrows ==
    ASSUME MemoryOK, NEW o, IsResult(o), NEW label, NEW r, NEW s, Deliver(o, label, r, s)
    PROVE  Grows
<1>1. fresh' = fresh + Len(o.cells)
  BY DEF Deliver, Create, Created
<1>2. QED BY <1>1, BatchGrows DEF IsResult

LEMMA ExtendGrows ==
    ASSUME MemoryOK, NEW body, NEW r, NEW s, ExtendEnvironment(body, r, s)
    PROVE  Grows
<1>1. fresh' = fresh + 1
  BY DEF ExtendEnvironment
<1>2. QED BY <1>1 DEF MemoryOK, Grows

LEMMA EnterGrows ==
    ASSUME MemoryOK, NEW program, IsOutcome(program), NEW caller, NEW r, NEW s, Enter(program, caller, r, s)
    PROVE  Grows
<1>1. fresh' = fresh \/ fresh' = fresh + Len(program.cells)
  BY DEF Enter, memory
<1>2. IsBatch(program.cells)
  BY OutcomeResult DEF IsResult
<1>3. QED BY <1>1, <1>2, SameGrows, BatchGrows

LEMMA NestedGrows ==
    ASSUME MemoryOK, NEW p, NEW name, NEW caller, NEW r, NEW s,
           run_eval_on_string(p, r, s) \/ run_eval_on_file(name, caller, r, s)
    PROVE  Grows
<1>1. \/ \E text, c, r2, s2 : text \in DOMAIN Image /\ Enter(Image[text], c, r2, s2)
      \/ \E text, r2, s2 : Deliver(Creates(Error(text)), "continue", r2, s2)
  <2>1. CASE run_eval_on_string(p, r, s)
    BY <2>1, Zenon DEF run_eval_on_string, Nested
  <2>2. CASE run_eval_on_file(name, caller, r, s)
    <3>1. CASE name \in Files \cap DOMAIN Image
      BY <2>2, <3>1, Zenon DEF run_eval_on_file, Nested
    <3>2. CASE name \notin Files \cap DOMAIN Image
      <4>1. \E r2, s2 : Deliver(Creates(Error("problem with file")), "continue", r2, s2)
        BY <2>2, <3>2 DEF run_eval_on_file
      <4>2. QED BY <4>1
    <3>3. QED BY <3>1, <3>2
  <2>3. QED BY <2>1, <2>2
<1>2. QED BY <1>1, EvaluatorAssumption, EnterGrows, ErrorResult, DeliverGrows

LEMMA DispatchGrows ==
    ASSUME Ready, Dispatch
    PROVE  Grows
<1>1. MemoryOK /\ reg \in Registers /\ reg.exp \in Nat /\ reg.env \in Nat
      /\ \A p : CADR(p) \in Nat /\ CDR(p) \in Nat /\ CDDR(p) \in Nat
  BY ReadyTypes
<1>2. CASE UNCHANGED memory
  BY <1>1, <1>2, SameGrows DEF memory
<1>3. ASSUME NEW o, IsResult(o), NEW r, Deliver(o, "continue", r, stack) PROVE Grows
  BY <1>1, <1>3, DeliverGrows
<1>4. CASE EvalVariable
  BY <1>1, <1>3, <1>4, LookupResult DEF EvalVariable
<1>5. CASE EvalQuoted
  <2> DEFINE text == TextOf(reg.exp)
             root == Image[text].cells[-Image[text].val]
             o == IF text \in Quoted THEN [Image[text] EXCEPT !.val = root.car] ELSE Returns(reg.exp)
  <2>1. fresh' = fresh + Len(o.cells)
    BY <1>5 DEF EvalQuoted, Deliver, Create, Created
  <2>2. CASE text \in Quoted
    <3>1. IsOutcome(Image[text])
      BY <2>2, EvaluatorAssumption
    <3>2. IsBatch(Image[text].cells)
      BY <3>1, OutcomeResult DEF IsResult
    <3>3. o.cells = Image[text].cells
      BY <2>2
    <3>4. QED BY <1>1, <2>1, <3>2, <3>3, BatchGrows
  <2>3. CASE text \notin Quoted
    <3>1. o.cells = <<>>
      BY <2>3 DEF Returns
    <3>2. fresh' = fresh
      BY <1>1, <2>1, <3>1 DEF MemoryOK
    <3>3. QED BY <1>1, <3>2, SameGrows
  <2>4. QED BY <2>2, <2>3
<1>6. CASE EvalLambda
  <2> DEFINE r == [reg EXCEPT !.unev = CADR(reg.exp), !.exp = CDDR(reg.exp)]
  <2>1. r.unev = CADR(reg.exp) /\ r.exp = CDDR(reg.exp) /\ r.env = reg.env
    BY <1>1, RegisterNames DEF Registers
  <2>2. Deliver(Creates(Procedure(r.unev, r.exp, r.env)), "continue", r, stack)
    BY <1>6 DEF EvalLambda
  <2> HIDE DEF r
  <2>3. IsResult(Creates(Procedure(r.unev, r.exp, r.env)))
    BY <1>1, <2>1, CellTypes, CreatesType
  <2>4. QED BY <1>3, <2>2, <2>3
<1>7. CASE EvalDefineLambda \/ EvalMacroLambda
  <2>1. fresh' = fresh + 1
    BY <1>7 DEF EvalDefineLambda, EvalMacroLambda, NamedCode, Created
  <2>2. QED BY <1>1, <2>1 DEF MemoryOK, Grows
<1>8. CASE EvalEval
  <2>1. \/ \E p, r : run_eval_on_string(p, r, stack)
        \/ \E r : Deliver(Creates(Error("argument to eval")), "continue", r, stack)
    BY <1>8, Zenon DEF EvalEval
  <2>2. QED BY <1>1, <1>3, <2>1, NestedGrows, ErrorResult
<1>9. CASE EvalImport
  <2>1. \/ \E name, r : run_eval_on_file(name, "import", r, stack)
        \/ \E text, r : Deliver(Creates(Error(text)), "continue", r, stack)
        \/ UNCHANGED memory
    BY <1>9, Zenon DEF EvalImport
  <2>2. QED BY <1>1, <1>2, <1>3, <2>1, NestedGrows, ErrorResult
<1>10. CASE EvalSelf \/ EvalIf \/ EvalAssignment \/ EvalDefinition \/ EvalApplication
  BY <1>2, <1>10 DEF EvalSelf, At, EvalIf, EvalAssignment, EvalDefinition, EvalStore, EvalApplication
<1>11. QED BY <1>4, <1>5, <1>6, <1>7, <1>8, <1>9, <1>10 DEF Dispatch

LEMMA ContinuationGrows ==
    ASSUME Ready, Continuation
    PROVE  Grows
<1>1. MemoryOK
  BY ReadyTypes
<1>2. CASE IfDecide \/ OperandLoop \/ SequenceContinue \/ MacroFinish \/ Assignment1 \/ Definition1
  <2>1. fresh' = fresh
    BY <1>2 DEF IfDecide, OperandLoop, SequenceContinue, MacroFinish, At, memory, Assignment1, Definition1, Store
  <2>2. QED BY <1>1, <2>1, SameGrows
<1>3. CASE AccumulateArg \/ AccumLastArg
  <2>1. fresh' = fresh + 1
    BY <1>3 DEF AccumulateArg, AccumLastArg, AppendToLast, Created
  <2>2. QED BY <1>1, <2>1 DEF MemoryOK, Grows
<1>4. CASE ImportAux
  <2>1. \/ \E name, r, s : run_eval_on_file(name, "import_aux", r, s)
        \/ \E text, r, s : Deliver(Creates(Error(text)), "continue", r, s)
    BY <1>4, Zenon DEF ImportAux
  <2>2. QED BY <1>1, <2>1, NestedGrows, DeliverGrows, ErrorResult
<1>5. CASE DidOperator
  <2> DEFINE r == [Unwound EXCEPT !.argl = NIL, !.last = NULL, !.proc = reg.val]
             found == IF IsStringType(reg.val) THEN lookup_variable_value(reg.val, r.env) ELSE Returns(reg.val)
  <2>1. \/ \E body, r2, s2 : ExtendEnvironment(body, r2, s2)
        \/ \E j : Create(found.cells, j, r, Rest)
    BY <1>5, Zenon DEF DidOperator
  <2>2. IsResult(found)
    BY LookupResult, ReturnsType, ReadyTypes
  <2> HIDE DEF found
  <2>3. QED BY <1>1, <2>1, <2>2, ExtendGrows, BatchGrows DEF Create, Created, IsResult
<1>6. QED BY <1>2, <1>3, <1>4, <1>5 DEF Continuation

LEMMA ApplyGrows ==
    ASSUME Ready, Apply
    PROVE  Grows
<1>1. MemoryOK
  BY ReadyTypes
<1>2. CASE PrimitiveApply
  BY <1>1, <1>2, PrimitiveResult, DeliverGrows DEF PrimitiveApply
<1>3. CASE CompoundApply
  BY <1>1, <1>3, ExtendGrows DEF CompoundApply
<1>4. CASE UnknownProcedure
  <2>1. \E text, r, s : Deliver(Creates(Error(text)), "exit", r, s)
    BY <1>4, Zenon DEF UnknownProcedure
  <2>2. QED BY <1>1, <2>1, DeliverGrows, ErrorResult
<1>5. QED BY <1>2, <1>3, <1>4 DEF Apply

LEMMA PluginGrows ==
    ASSUME Ready, EnvRestore
    PROVE  Grows
<1>1. MemoryOK
  BY ReadyTypes
<1>2. CASE env_restore
  <2>1. fresh' = fresh \/ fresh' = fresh + 1
    BY <1>2 DEF env_restore, memory
  <2>2. QED BY <1>1, <2>1 DEF MemoryOK, Grows
<1>3. CASE data_restore_cell
  <2>1. PICK cells : Created(cells) /\ (cells = <<>> \/ cells = <<RestoredCell>>)
    <3>1. PICK shared : \E j : Create(IF shared THEN <<>> ELSE <<RestoredCell>>, j, reg, stack)
      BY <1>3, Zenon DEF data_restore_cell
    <3>2. QED BY <3>1 DEF Create
  <2>2. fresh' = fresh + Len(cells) /\ Len(cells) \in Nat
    BY <2>1 DEF Created
  <2>3. QED BY <1>1, <2>2 DEF MemoryOK, Grows
<1>4. CASE \/ env_restore_plugin_save \/ env_restore_plugin_restore \/ data_restore \/ env_restore_bind
           \/ eval_set_new_pointers \/ rec_set_new_pointers \/ env_restore_plugin_return
  <2>1. fresh' = fresh
    BY <1>4 DEF env_restore_plugin_save, env_restore_plugin_restore, data_restore, env_restore_bind,
                eval_set_new_pointers, rec_set_new_pointers, env_restore_plugin_return, memory
  <2>2. QED BY <1>1, <2>1, SameGrows
<1>5. QED BY <1>2, <1>3, <1>4 DEF EnvRestore

\* The program the host evaluates next is one of the script's.
LEMMA NextProgram ==
    ASSUME Inv, Eval
    PROVE  /\ IsOutcome(script.programs[asked + 1])
           /\ Enter(script.programs[asked + 1], "host", reg, stack)
<1>1. asked \in 0 .. Len(script.programs) /\ asked < Len(script.programs)
  BY TypeParts DEF Eval, Inv, CoreOK, CallsOK
<1>2. script \in Scripts
  BY DEF Inv
<1>3. script.programs \in Seq({script.programs[i] : i \in DOMAIN script.programs})
  BY <1>2, EvaluatorAssumption
<1>4. asked + 1 \in DOMAIN script.programs
  BY <1>1, <1>3
<1>5. QED BY <1>2, <1>4, EvaluatorAssumption DEF Eval

LEMMA StepGrows ==
    ASSUME Inv, [Next]_vars
    PROVE  Grows
<1>1. Ready /\ MemoryOK
  BY TypeParts, ReadyTypes DEF Inv, Ready, PluginOK
<1>2. CASE Run
  <2>1. CASE EvalBegin \/ Sequence \/ Continue \/ Exit
    <3>1. fresh' = fresh
      BY <2>1 DEF EvalBegin, Sequence, Continue, Exit, At, memory
    <3>2. QED BY <1>1, <3>1, SameGrows
  <2>2. CASE Dispatch \/ Continuation \/ Apply \/ EnvRestore
    BY <1>1, <2>2, DispatchGrows, ContinuationGrows, ApplyGrows, PluginGrows
  <2>3. QED BY <1>2, <2>1, <2>2 DEF Run
<1>3. CASE Eval
  BY <1>1, <1>3, NextProgram, EnterGrows
<1>4. CASE Undefined \/ UNCHANGED vars
  BY <1>1, <1>4, SameGrows DEF Undefined, vars, memory
<1>5. QED BY <1>2, <1>3, <1>4 DEF Next

LEMMA WiderRange ==
    ASSUME NEW m \in Nat, NEW n \in Nat, m <= n, m >= 103
    PROVE  /\ 0 .. m - 1 \subseteq 0 .. n - 1 /\ 0 .. n - 1 \subseteq Nat /\ 0 .. 102 \subseteq 0 .. n - 1
           /\ m .. n - 1 \subseteq 0 .. n - 1
OBVIOUS

LEMMA IssuedNext ==
    ASSUME Inv, Issued, [Next]_vars
    PROVE  Issued'
<1>1. MemoryOK /\ Grows
  BY TypeParts, StepGrows DEF Inv, CoreOK
<1>2. PICK V : V = 0 .. fresh - 1
  OBVIOUS
<1>3. PICK W : W = 0 .. fresh' - 1
  OBVIOUS
<1>4. V \subseteq W /\ Takes(W)
  <2>1. fresh \in Nat /\ fresh >= 103 /\ fresh' \in Nat /\ fresh <= fresh'
    BY <1>1 DEF MemoryOK, Grows, FirstAddress
  <2>2. /\ V \subseteq W /\ W \subseteq Nat /\ 0 .. 102 \subseteq W
        /\ fresh .. fresh' - 1 \subseteq W
    BY <1>2, <1>3, <2>1, WiderRange
  <2>3. QED BY <2>2 DEF Takes, Ground, Global
<1>5. Holds(W)
  BY <1>2, <1>4, HoldsWider DEF Issued
<1>6. Holds(W)'
  BY <1>4, <1>5, StepHolds
<1>7. QED BY <1>3, <1>6 DEF Issued

\* No register, stack entry, cell, binding or pending restore refers to an
\* address that malloc has not returned yet.
THEOREM AddressesIssued == Spec => []Issued
<1>1. Init => Inv /\ Issued
  BY InvInit, IssuedInit
<1>2. Inv /\ Issued /\ [Next]_vars => (Inv /\ Issued)'
  BY InvNext, IssuedNext
<1>3. QED BY <1>1, <1>2, PTL DEF Spec

-----------------------------------------------------------------------------
(* Errors.  Until an evaluation is left because of one, only val, proc and  *)
(* the stack refer to the cells of errors.                                  *)

ErrorsIn(cells) == {a \in DOMAIN cells : cells[a].type = "error"}
Sound == (0 .. fresh - 1) \ ErrorsIn(heap)

PartsIn(cells, W) == \A a \in DOMAIN cells : {cells[a].car, cells[a].cdr} \subseteq W
Unreferenced == PartsIn(heap, Sound) /\ BindingsIn(envs, Sound)

\* error_value is the last error, which a collection may have freed.
ErrorKept ==
    /\ error_value \in FirstAddress .. fresh - 1
    /\ error_value \in DOMAIN heap => heap[error_value].type = "error"

Tidy == Unreferenced /\ (have_error => ErrorKept)

\* What a C function creates: an error, or cells that refer to no error.
CleanBatch(cells) ==
    /\ IsBatch(cells)
    /\ \A i \in DOMAIN cells : {cells[i].car, cells[i].cdr} \subseteq Sound \cup -Len(cells) .. -1
    /\ \/ \A i \in DOMAIN cells : cells[i].type # "error"
       \/ \A i \in DOMAIN cells : cells[i].type = "error" /\ {cells[i].car, cells[i].cdr} \subseteq Sound

LEMMA SoundHas ==
    ASSUME MemoryOK
    PROVE  0 .. T \subseteq Sound /\ Sound \subseteq Nat
<1>1. fresh \in Nat /\ fresh >= 103
  BY DEF MemoryOK, FirstAddress
<1>2. \A a \in DOMAIN heap : a = 102 \/ a \in 103 .. fresh - 1
  BY DEF MemoryOK, FirstAddress, Global
<1>3. ASSUME NEW p \in 0 .. 101 PROVE p \in 0 .. fresh - 1 /\ p \notin DOMAIN heap
  BY <1>1, <1>2
<1>4. Sound \subseteq Nat
  BY <1>1 DEF Sound
<1>5. QED BY <1>3, <1>4 DEF Sound, ErrorsIn, T

\* The parts of the cells of a batch.
LEMMA MadeParts ==
    ASSUME MemoryOK, NEW cells, IsBatch(cells), NEW j \in 0 .. Len(cells), NEW r, NEW s,
           NEW a \in DOMAIN HeapAfter(cells, j, r, s), a >= fresh
    PROVE  LET made == HeapAfter(cells, j, r, s)[a]
               c == cells[a - fresh + 1]
           IN  /\ a \in Int /\ a - fresh + 1 \in 1 .. Len(cells)
               /\ made.car = Address(c.car) /\ made.cdr = Address(c.cdr)
               /\ made.type = c.type /\ made.text = c.text
<1> DEFINE all == Relocated(cells)
           made == IF j = 0 THEN all ELSE Keep(all, fresh + j - 1 .. fresh + Len(cells) - 1)
           kept == IF j = 0 THEN heap ELSE Keep(heap, Marked(r, s) \cup code)
           after == HeapAfter(cells, j, r, s)
           c == cells[a - fresh + 1]
           d == [c EXCEPT !.car = Address(@), !.cdr = Address(@)]
<1>1. after = Over(made, kept)
  BY DEF HeapAfter
<1>2. a - fresh + 1 \in 1 .. Len(cells) /\ after[a].type = c.type
  BY HeapAfterCells
<1>3. a \notin DOMAIN heap
  BY DEF MemoryOK, FirstAddress, Global
<1>4. DOMAIN kept \subseteq DOMAIN heap
  BY KeepType, Zenon
<1>5. DOMAIN made \subseteq DOMAIN all /\ \A x \in DOMAIN made : made[x] = all[x]
  BY KeepType
<1>6. DOMAIN all = fresh .. fresh + Len(cells) - 1
  BY RelocatedType
<1>7. all[a] = d \/ a \notin DOMAIN all
  BY <1>6 DEF Relocated
<1> HIDE DEF all, made, kept, after
<1>8. a \in DOMAIN made /\ after[a] = all[a]
  <2>1. a \in DOMAIN after
    BY DEF after
  <2>2. a \in DOMAIN made /\ after[a] = made[a]
    BY <1>1, <1>3, <1>4, <2>1 DEF Over
  <2>3. QED BY <1>5, <2>2
<1>9. a \in fresh .. fresh + Len(cells) - 1 /\ after[a] = d
  BY <1>5, <1>6, <1>7, <1>8
<1>10. IsCell(c)
  BY <1>2 DEF IsBatch
<1> HIDE DEF c
<1>11. d.car = Address(c.car) /\ d.cdr = Address(c.cdr) /\ d.text = c.text
  BY <1>10, CellDomain DEF IsCell
<1> HIDE DEF d
<1>12. a \in Int
  BY <1>9
<1>13. QED BY <1>2, <1>9, <1>11, <1>12 DEF after, c

\* Where the parts of a batch are.
LEMMA AddressSound ==
    ASSUME MemoryOK, NEW n \in Nat, NEW p \in Sound \cup -n .. -1
    PROVE  \/ p \in Sound /\ Address(p) = p
           \/ Address(p) \in fresh .. fresh + n - 1 /\ p \in -n .. -1 /\ Address(p) - fresh + 1 = -p
<1>1. CASE p \in Sound
  <2>1. p \in Nat
    BY <1>1, SoundHas
  <2>2. QED BY <1>1, <2>1 DEF Address
<1>2. CASE p \in -n .. -1
  <2>1. fresh \in Nat
    BY DEF MemoryOK
  <2>2. Address(p) = fresh - p - 1
    BY <1>2 DEF Address
  <2>3. QED BY <1>2, <2>1, <2>2
<1>3. QED BY <1>1, <1>2

LEMMA CleanHeap ==
    ASSUME MemoryOK, PartsIn(heap, Sound), NEW cells, CleanBatch(cells), NEW j \in 0 .. Len(cells), NEW r, NEW s
    PROVE  LET after == HeapAfter(cells, j, r, s)
               sound == (0 .. fresh + Len(cells) - 1) \ ErrorsIn(after)
           IN  PartsIn(after, sound) /\ Sound \subseteq sound
<1> DEFINE after == HeapAfter(cells, j, r, s)
           sound == (0 .. fresh + Len(cells) - 1) \ ErrorsIn(after)
<1>1. IsBatch(cells) /\ Len(cells) \in Nat /\ fresh \in Nat
  BY DEF CleanBatch, IsBatch, MemoryOK
<1>2. \A a \in DOMAIN after : a >= fresh => /\ a \in Int /\ a - fresh + 1 \in 1 .. Len(cells)
                                            /\ after[a].car = Address(cells[a - fresh + 1].car)
                                            /\ after[a].cdr = Address(cells[a - fresh + 1].cdr)
                                            /\ after[a].type = cells[a - fresh + 1].type
  BY <1>1, MadeParts
<1>3. \A a \in DOMAIN after : ~ (a >= fresh) => a \in DOMAIN heap /\ after[a] = heap[a]
  BY <1>1, HeapAfterCells
<1> HIDE DEF after
<1>4. ASSUME NEW p \in Sound PROVE p \in sound
  <2>1. p \in 0 .. fresh - 1 /\ p \notin ErrorsIn(heap)
    BY DEF Sound
  <2>2. p \in 0 .. fresh + Len(cells) - 1 /\ ~ (p >= fresh)
    BY <1>1, <2>1
  <2>3. p \notin ErrorsIn(after)
    BY <1>3, <2>1, <2>2 DEF ErrorsIn
  <2>4. QED BY <2>2, <2>3
<1>5. ASSUME NEW i \in 1 .. Len(cells), NEW p \in {cells[i].car, cells[i].cdr} PROVE Address(p) \in sound
  <2>1. p \in Sound \cup -Len(cells) .. -1 /\ i \in DOMAIN cells /\ DOMAIN cells = 1 .. Len(cells)
    BY <1>1 DEF CleanBatch, IsBatch
  <2>2. CASE p \in Sound /\ Address(p) = p
    BY <1>4, <2>2
  <2>3. CASE Address(p) \in fresh .. fresh + Len(cells) - 1 /\ p \in -Len(cells) .. -1 /\ Address(p) - fresh + 1 = -p
    <3>1. p \notin Sound
      <4>1. Sound \subseteq Nat
        BY SoundHas
      <4>2. QED BY <1>1, <2>3, <4>1
    <3>2. \A k \in DOMAIN cells : cells[k].type # "error"
      BY <2>1, <3>1 DEF CleanBatch
    <3>3. -p \in DOMAIN cells
      BY <1>1, <2>1, <2>3
    <3>4. Address(p) \notin ErrorsIn(after)
      <4>1. Address(p) >= fresh
        BY <1>1, <2>3
      <4>2. QED BY <1>2, <2>3, <3>2, <3>3, <4>1 DEF ErrorsIn
    <3>5. Address(p) \in 0 .. fresh + Len(cells) - 1
      BY <1>1, <2>3
    <3>6. QED BY <3>4, <3>5
  <2>4. QED BY <1>1, <2>1, <2>2, <2>3, AddressSound
<1> HIDE DEF sound
<1>6. ASSUME NEW a \in DOMAIN after PROVE {after[a].car, after[a].cdr} \subseteq sound
  <2>1. CASE a >= fresh
    BY <1>2, <1>5, <2>1
  <2>2. CASE ~ (a >= fresh)
    BY <1>3, <1>4, <2>2 DEF PartsIn
  <2>3. QED BY <2>1, <2>2
<1>7. QED BY <1>4, <1>6 DEF PartsIn, sound, after

\* After a batch that is clean the memory is tidy, if the bindings are.
LEMMA CleanTidy ==
    ASSUME MemoryOK, Tidy, NEW cells, CleanBatch(cells), NEW j \in 0 .. Len(cells), NEW r, NEW s,
           heap' = HeapAfter(cells, j, r, s), fresh' = fresh + Len(cells),
           BindingsIn(envs', Sound'),
           \/ have_error' = have_error /\ error_value' = error_value
           \/ error_value' = fresh /\ \E c \in Range(cells) : c.type = "error"
    PROVE  Tidy'
<1> DEFINE after == HeapAfter(cells, j, r, s)
<1>1. IsBatch(cells) /\ Len(cells) \in Nat /\ DOMAIN cells = 1 .. Len(cells) /\ fresh \in Nat /\ fresh >= 103
  BY DEF CleanBatch, IsBatch, MemoryOK, FirstAddress
<1>2. Sound' = (0 .. fresh + Len(cells) - 1) \ ErrorsIn(after)
  <2>1. Sound' = (0 .. fresh' - 1) \ ErrorsIn(heap')
    BY DEF Sound
  <2>2. QED BY <1>1, <2>1
<1>3. PartsIn(heap', Sound')
  BY <1>2, CleanHeap DEF Tidy, Unreferenced
<1>4. Unreferenced'
  BY <1>3 DEF Unreferenced, PartsIn, BindingsIn
<1>5. CASE have_error' = have_error /\ error_value' = error_value
  <2>1. ASSUME have_error' PROVE ErrorKept'
    <3>1. error_value \in 103 .. fresh - 1 /\ (error_value \in DOMAIN heap => heap[error_value].type = "error")
      BY <1>5, <2>1 DEF Tidy, ErrorKept, FirstAddress
    <3>2. error_value' \in 103 .. fresh' - 1 /\ ~ (error_value >= fresh)
      BY <1>1, <1>5, <3>1
    <3>3. error_value \in DOMAIN heap' => heap'[error_value].type = "error"
      BY <1>1, <3>1, <3>2, HeapAfterCells
    <3>4. QED BY <1>5, <3>2, <3>3 DEF ErrorKept, FirstAddress
  <2>2. QED BY <1>4, <2>1 DEF Tidy
<1>6. CASE error_value' = fresh /\ \E c \in Range(cells) : c.type = "error"
  <2>1. PICK i \in DOMAIN cells : cells[i].type = "error"
    BY <1>6 DEF Range
  <2>2. \A k \in DOMAIN cells : cells[k].type = "error"
    BY <2>1 DEF CleanBatch
  <2>3. Len(cells) >= 1
    BY <1>1, <2>1
  <2>4. fresh \in 103 .. fresh' - 1
    BY <1>1, <2>3
  <2>5. fresh \in DOMAIN heap' => heap'[fresh].type = "error"
    <3>1. fresh >= fresh /\ fresh - fresh + 1 = 1 /\ 1 \in DOMAIN cells
      BY <1>1, <2>3
    <3>2. fresh \in DOMAIN after => after[fresh].type = cells[1].type
      BY <1>1, <3>1, MadeParts
    <3>3. QED BY <2>2, <3>1, <3>2
  <2>6. ErrorKept'
    BY <1>6, <2>4, <2>5 DEF ErrorKept, FirstAddress
  <2>7. QED BY <1>4, <2>6 DEF Tidy
<1>7. QED BY <1>5, <1>6

LEMMA BindingsWider ==
    ASSUME NEW V, NEW W, V \subseteq W, NEW environments, BindingsIn(environments, V)
    PROVE  BindingsIn(environments, W)
BY DEF BindingsIn

LEMMA SoundGrows ==
    ASSUME MemoryOK, Tidy, NEW cells, CleanBatch(cells), NEW j \in 0 .. Len(cells), NEW r, NEW s,
           heap' = HeapAfter(cells, j, r, s), fresh' = fresh + Len(cells)
    PROVE  Sound \subseteq Sound'
<1>1. Sound' = (0 .. fresh + Len(cells) - 1) \ ErrorsIn(HeapAfter(cells, j, r, s))
  <2>1. Sound' = (0 .. fresh' - 1) \ ErrorsIn(heap')
    BY DEF Sound
  <2>2. fresh \in Nat /\ Len(cells) \in Nat
    BY DEF MemoryOK, CleanBatch, IsBatch
  <2>3. QED BY <2>1, <2>2
<1>2. QED BY <1>1, CleanHeap DEF Tidy, Unreferenced

LEMMA CreatedError ==
    ASSUME KillIfError, MemoryOK, NEW cells, Created(cells)
    PROVE  \/ have_error' = have_error /\ error_value' = error_value
           \/ error_value' = fresh /\ \E c \in Range(cells) : c.type = "error"
<1>1. CASE \E c \in Range(cells) : c.type = "error"
  BY <1>1 DEF Created
<1>2. CASE ~ (\E c \in Range(cells) : c.type = "error")
  <2>1. error_value' = error_value
    BY <1>2 DEF Created
  <2>2. have_error' = have_error
    <3>1. have_error' = (have_error \/ \E c \in Range(cells) : c.type = "error")
      BY DEF Created
    <3>2. QED BY <1>2, <3>1 DEF MemoryOK
  <2>3. QED BY <2>1, <2>2
<1>3. QED BY <1>1, <1>2

LEMMA CreateTidy ==
    ASSUME KillIfError, MemoryOK, Tidy, NEW cells, CleanBatch(cells), NEW r, NEW s,
           NEW j \in Collections(cells, r, s), Create(cells, j, r, s)
    PROVE  Tidy'
<1>1. /\ heap' = HeapAfter(cells, j, r, s) /\ envs' = EnvsAfter(j, r, s)
      /\ Created(cells) /\ fresh' = fresh + Len(cells)
  BY DEF Create, Created
<1>2. j \in 0 .. Len(cells)
  BY CollectionsType DEF CleanBatch
<1>3. Sound \subseteq Sound'
  BY <1>1, <1>2, SoundGrows
<1>4. BindingsIn(envs', Sound)
  BY <1>1, EnvsAfterIn DEF Tidy, Unreferenced
<1>5. BindingsIn(envs', Sound')
  BY <1>3, <1>4, BindingsWider
<1>6. QED BY <1>1, <1>2, <1>5, CreatedError, CleanTidy

LEMMA StillTidy ==
    ASSUME Tidy, UNCHANGED <<heap, envs, fresh, have_error, error_value>>
    PROVE  Tidy'
<1>1. Sound' = Sound
  BY DEF Sound
<1>2. Unreferenced'
  BY <1>1 DEF Tidy, Unreferenced, PartsIn, BindingsIn
<1>3. QED BY <1>2 DEF Tidy, ErrorKept

LEMMA PartSound ==
    ASSUME MemoryOK, Tidy
    PROVE  \A p : CAR(p) \in Sound /\ CDR(p) \in Sound /\ CADR(p) \in Sound /\ CDDR(p) \in Sound
<1>1. NIL \in Sound /\ WILD \in Sound
  BY SoundHas DEF NIL, WILD, T
<1>2. \A a \in DOMAIN heap : {heap[a].car, heap[a].cdr} \subseteq Sound
  BY DEF Tidy, Unreferenced, PartsIn
<1>3. /\ NilCell.car = NIL /\ NilCell.cdr = NIL /\ TrueCell.car = WILD /\ TrueCell.cdr = WILD
      /\ BadCell.car = WILD /\ BadCell.cdr = WILD
  BY DEF NilCell, TrueCell, BadCell, Pair, Text
<1>4. ASSUME NEW p PROVE CAR(p) \in Sound /\ CDR(p) \in Sound
  <2>1. p \in DOMAIN heap => heap[p].car \in Sound /\ heap[p].cdr \in Sound
    BY <1>2
  <2>2. QED BY <1>1, <1>3, <2>1 DEF CAR, CDR, Cell, CellIn
<1>5. QED BY <1>4 DEF CADR, CDDR

LEMMA CleanCell ==
    ASSUME NEW c, IsCell(c), {c.car, c.cdr} \subseteq Sound
    PROVE  CleanBatch(<<c>>)
<1> DEFINE cells == <<c>>
<1>1. IsBatch(cells) /\ DOMAIN cells = {1} /\ cells[1] = c
  BY OneCell
<1> HIDE DEF cells
<1>2. \A i \in DOMAIN cells : cells[i].type = c.type /\ {cells[i].car, cells[i].cdr} \subseteq Sound
  BY <1>1
<1>3. \A i \in DOMAIN cells : {cells[i].car, cells[i].cdr} \subseteq Sound \cup -Len(cells) .. -1
  BY <1>2
<1>4. \/ \A i \in DOMAIN cells : cells[i].type # "error"
      \/ \A i \in DOMAIN cells : cells[i].type = "error" /\ {cells[i].car, cells[i].cdr} \subseteq Sound
  BY <1>2
<1>5. CleanBatch(cells)
  BY <1>1, <1>3, <1>4 DEF CleanBatch
<1>6. QED BY <1>5 DEF cells

LEMMA CleanError ==
    ASSUME MemoryOK
    PROVE  \A text : CleanBatch(Creates(Error(text)).cells)
<1>1. WILD \in Sound
  BY SoundHas DEF WILD, T
<1>2. ASSUME NEW text PROVE CleanBatch(<<Error(text)>>)
  BY <1>1, CellFields, CellTypes, CleanCell
<1>3. QED BY <1>2 DEF Creates

LEMMA CleanReturn ==
    \A p : CleanBatch(Returns(p).cells)
<1>1. CleanBatch(<<>>)
  BY DEF CleanBatch, IsBatch
<1>2. QED BY <1>1 DEF Returns

LEMMA CleanOutcome ==
    ASSUME MemoryOK, NEW o, IsOutcome(o)
    PROVE  CleanBatch(o.cells)
<1> DEFINE cells == o.cells
<1>1. IsBatch(cells)
  BY OutcomeResult DEF IsResult
<1>2. \A i \in DOMAIN cells : cells[i].type # "error" /\ {cells[i].car, cells[i].cdr} \subseteq -Len(cells) .. T
  BY DEF IsOutcome
<1>3. -Len(cells) .. T \subseteq Sound \cup -Len(cells) .. -1
  <2>1. Len(cells) \in Nat
    BY <1>1 DEF IsBatch
  <2> HIDE DEF cells
  <2>2. \A p \in -Len(cells) .. T : p \in 0 .. T \/ p \in -Len(cells) .. -1
    BY <2>1 DEF T
  <2>3. QED BY <2>2, SoundHas
<1> HIDE DEF cells
<1>4. CleanBatch(cells)
  BY <1>1, <1>2, <1>3 DEF CleanBatch
<1>5. QED BY <1>4 DEF cells

LEMMA DeliverTidy ==
    ASSUME KillIfError, MemoryOK, Tidy, NEW o, CleanBatch(o.cells), NEW label, NEW r, NEW s,
           Deliver(o, label, r, s)
    PROVE  Tidy'
<1>1. PICK j \in Collections(o.cells, r, s) : Create(o.cells, j, r, s)
  BY DEF Deliver
<1>2. QED BY <1>1, CreateTidy

LEMMA EnterTidy ==
    ASSUME MemoryOK, Tidy, NEW program, IsOutcome(program), NEW caller, NEW r, NEW s, Enter(program, caller, r, s)
    PROVE  Tidy'
<1> DEFINE cells == program.cells
<1>1. CASE UNCHANGED memory
  BY <1>1, StillTidy DEF memory
<1>2. CASE /\ heap' = Over(Relocated(cells), heap) /\ fresh' = fresh + Len(cells)
           /\ UNCHANGED <<envs, have_error, error_value>>
  <2>1. CleanBatch(cells) /\ 0 \in 0 .. Len(cells)
    <3>1. CleanBatch(cells)
      BY CleanOutcome
    <3>2. QED BY <3>1 DEF CleanBatch, IsBatch
  <2> HIDE DEF cells
  <2>2. heap' = HeapAfter(cells, 0, r, s)
    BY <1>2 DEF HeapAfter
  <2>3. Sound \subseteq Sound'
    BY <1>2, <2>1, <2>2, SoundGrows
  <2>4. BindingsIn(envs', Sound')
    BY <1>2, <2>3 DEF Tidy, Unreferenced, BindingsIn
  <2>5. QED BY <1>2, <2>1, <2>2, <2>4, CleanTidy
<1>3. QED BY <1>1, <1>2 DEF Enter

\* What evaluating a string or a file begins with.
LEMMA NestedBegins ==
    ASSUME NEW p, NEW name, NEW caller, NEW r, NEW s,
           run_eval_on_string(p, r, s) \/ run_eval_on_file(name, caller, r, s)
    PROVE  \/ \E program, c, r2, s2 : IsOutcome(program) /\ Enter(program, c, r2, s2)
           \/ \E text, r2, s2 : Deliver(Creates(Error(text)), "continue", r2, s2)
<1>1. CASE run_eval_on_string(p, r, s)
  <2>1. \/ \E text, c, r2, s2 : text \in DOMAIN Image /\ Enter(Image[text], c, r2, s2)
        \/ \E text, r2, s2 : Deliver(Creates(Error(text)), "continue", r2, s2)
    BY <1>1, Zenon DEF run_eval_on_string, Nested
  <2>2. QED BY <2>1, EvaluatorAssumption
<1>2. CASE run_eval_on_file(name, caller, r, s)
  <2>1. CASE name \in Files \cap DOMAIN Image
    <3>1. \E text, c, r2, s2 : text \in DOMAIN Image /\ Enter(Image[text], c, r2, s2)
      BY <1>2, <2>1, Zenon DEF run_eval_on_file, Nested
    <3>2. QED BY <3>1, EvaluatorAssumption
  <2>2. CASE name \notin Files \cap DOMAIN Image
    <3>1. \E r2, s2 : Deliver(Creates(Error("problem with file")), "continue", r2, s2)
      BY <1>2, <2>2 DEF run_eval_on_file
    <3>2. QED BY <3>1
  <2>3. QED BY <2>1, <2>2
<1>3. QED BY <1>1, <1>2

LEMMA NestedTidy ==
    ASSUME KillIfError, MemoryOK, Tidy, NEW p, NEW name, NEW caller, NEW r, NEW s,
           run_eval_on_string(p, r, s) \/ run_eval_on_file(name, caller, r, s)
    PROVE  Tidy'
BY NestedBegins, EnterTidy, CleanError, DeliverTidy

LEMMA NamedCodeTidy ==
    ASSUME KillIfError, MemoryOK, Tidy, NEW cell, IsCell(cell), cell.type # "error", {cell.car, cell.cdr} \subseteq Sound,
           NamedCode(cell)
    PROVE  Tidy'
<1> DEFINE cells == <<cell>>
<1>1. PICK r : \E j \in Collections(cells, r, stack) :
                 /\ heap' = HeapAfter(cells, j, r, stack)
                 /\ \E name : envs' = Bind(EnvsAfter(j, r, stack), reg.env, name, fresh)
                 /\ Created(cells)
  BY DEF NamedCode
<1>2. CleanBatch(cells) /\ IsBatch(cells) /\ Len(cells) = 1 /\ cells[1] = cell
  BY CleanCell DEF CleanBatch
<1> HIDE DEF cells
<1>3. PICK j, name :
         /\ j \in Collections(cells, r, stack)
         /\ heap' = HeapAfter(cells, j, r, stack)
         /\ envs' = Bind(EnvsAfter(j, r, stack), reg.env, name, fresh)
         /\ Created(cells)
  BY <1>1
<1>4. j \in 0 .. Len(cells) /\ fresh' = fresh + Len(cells)
  BY <1>2, <1>3, CollectionsType DEF Created
<1>5. Sound \subseteq Sound'
  BY <1>2, <1>3, <1>4, SoundGrows
<1>6. fresh \in Sound'
  <2>1. fresh \in Nat
    BY DEF MemoryOK
  <2>2. fresh \in DOMAIN heap' => heap'[fresh].type = cell.type
    <3>1. fresh >= fresh /\ fresh - fresh + 1 = 1
      BY <2>1
    <3>2. fresh \in DOMAIN HeapAfter(cells, j, r, stack) => HeapAfter(cells, j, r, stack)[fresh].type = cells[1].type
      BY <1>2, <1>4, <2>1, <3>1, MadeParts
    <3>3. QED BY <1>2, <1>3, <3>2
  <2>3. fresh \in 0 .. fresh' - 1
    BY <1>2, <1>4, <2>1
  <2>4. QED BY <2>2, <2>3 DEF Sound, ErrorsIn
<1>7. BindingsIn(envs', Sound')
  <2>1. BindingsIn(EnvsAfter(j, r, stack), Sound)
    BY EnvsAfterIn DEF Tidy, Unreferenced
  <2>2. BindingsIn(EnvsAfter(j, r, stack), Sound')
    BY <1>5, <2>1, BindingsWider
  <2>3. EnvironmentsOK(EnvsAfter(j, r, stack))
    BY EnvsAfterType
  <2>4. BindingsIn(Bind(EnvsAfter(j, r, stack), reg.env, name, fresh), Sound')
    BY <1>6, <2>2, <2>3, BindIn
  <2>5. QED BY <1>3, <2>4
<1>8. QED BY <1>2, <1>3, <1>4, <1>7, CreatedError, CleanTidy

LEMMA DispatchTidy ==
    ASSUME KillIfError, Ready, Tidy, Dispatch
    PROVE  Tidy'
<1>1. MemoryOK /\ reg \in Registers /\ reg.exp \in Nat /\ reg.env \in Nat
  BY ReadyTypes
<1>2. CASE UNCHANGED memory
  BY <1>2, StillTidy DEF memory
<1>3. ASSUME NEW o, CleanBatch(o.cells), NEW r, Deliver(o, "continue", r, stack) PROVE Tidy'
  BY <1>1, <1>3, DeliverTidy
<1>4. \A p : /\ CAR(p) \in Sound /\ CDR(p) \in Sound /\ CADR(p) \in Sound /\ CDDR(p) \in Sound
             /\ CAR(p) \in Int /\ CDR(p) \in Int /\ CADR(p) \in Int /\ CDDR(p) \in Int
  <2>1. Sound \subseteq Nat
    BY <1>1, SoundHas
  <2>2. \A p \in Sound : p \in Int
    BY <2>1
  <2>3. QED BY <1>1, <2>2, PartSound
<1>5. CASE EvalVariable
  <2> DEFINE o == lookup_variable_value(reg.exp, reg.env)
  <2>1. Deliver(o, "continue", reg, stack)
    BY <1>5 DEF EvalVariable
  <2>2. CleanBatch(o.cells)
    BY <1>1, CleanReturn, CleanError DEF lookup_variable_value
  <2> HIDE DEF o
  <2>3. QED BY <1>3, <2>1, <2>2
<1>6. CASE EvalQuoted
  <2> DEFINE text == TextOf(reg.exp)
             root == Image[text].cells[-Image[text].val]
             o == IF text \in Quoted THEN [Image[text] EXCEPT !.val = root.car] ELSE Returns(reg.exp)
  <2>1. CleanBatch(o.cells)
    <3>1. CASE text \in Quoted
      <4>1. IsOutcome(Image[text])
        BY <3>1, EvaluatorAssumption
      <4>2. o.cells = Image[text].cells
        BY <3>1
      <4>3. QED BY <1>1, <4>1, <4>2, CleanOutcome
    <3>2. CASE text \notin Quoted
      BY <3>2, CleanReturn
    <3>3. QED BY <3>1, <3>2
  <2>2. Deliver(o, "continue", reg, stack)
    BY <1>6 DEF EvalQuoted
  <2> HIDE DEF o
  <2>3. QED BY <1>3, <2>1, <2>2
<1>7. CASE EvalLambda
  <2> DEFINE r == [reg EXCEPT !.unev = CADR(reg.exp), !.exp = CDDR(reg.exp)]
             c == Procedure(r.unev, r.exp, r.env)
  <2>1. r.unev = CADR(reg.exp) /\ r.exp = CDDR(reg.exp) /\ r.env = reg.env
    BY <1>1, RegisterNames DEF Registers
  <2>2. Deliver(Creates(c), "continue", r, stack)
    BY <1>7 DEF EvalLambda
  <2> HIDE DEF r
  <2>3. IsCell(c) /\ {c.car, c.cdr} \subseteq Sound
    BY <1>1, <1>4, <2>1, CellTypes, CellFields
  <2> HIDE DEF c
  <2>4. CleanBatch(Creates(c).cells)
    BY <2>3, CleanCell DEF Creates
  <2>5. QED BY <1>3, <2>2, <2>4
<1>8. CASE EvalDefineLambda
  <2> DEFINE c == Procedure(CDR(CADR(reg.exp)), CDDR(reg.exp), reg.env)
  <2>1. NamedCode(c)
    BY <1>8 DEF EvalDefineLambda
  <2>2. IsCell(c) /\ {c.car, c.cdr} \subseteq Sound
    <3> DEFINE a == CDR(CADR(reg.exp))
               d == CDDR(reg.exp)
    <3>1. a \in Int /\ d \in Int /\ a \in Sound /\ d \in Sound
      BY <1>4
    <3> HIDE DEF a, d
    <3>2. QED BY <1>1, <3>1, CellTypes, CellFields DEF a, d
  <2>3. c.type # "error"
    BY DEF Procedure, Pair, Text
  <2> HIDE DEF c
  <2>4. QED BY <1>1, <2>1, <2>2, <2>3, NamedCodeTidy
<1>9. CASE EvalMacroLambda
  <2> DEFINE c == Macro(CDR(CADR(reg.exp)), CDDR(reg.exp))
  <2>1. NamedCode(c)
    BY <1>9 DEF EvalMacroLambda
  <2>2. IsCell(c) /\ {c.car, c.cdr} \subseteq Sound
    <3> DEFINE a == CDR(CADR(reg.exp))
               d == CDDR(reg.exp)
    <3>1. a \in Int /\ d \in Int /\ a \in Sound /\ d \in Sound
      BY <1>4
    <3> HIDE DEF a, d
    <3>2. QED BY <1>1, <3>1, CellTypes, CellFields DEF a, d
  <2>3. c.type # "error"
    BY DEF Macro, Pair, Text
  <2> HIDE DEF c
  <2>4. QED BY <1>1, <2>1, <2>2, <2>3, NamedCodeTidy
<1>10. CASE EvalEval
  <2>1. \/ \E p, r : run_eval_on_string(p, r, stack)
        \/ \E r : Deliver(Creates(Error("argument to eval")), "continue", r, stack)
    BY <1>10, Zenon DEF EvalEval
  <2>2. QED BY <1>1, <1>3, <2>1, NestedTidy, CleanError
<1>11. CASE EvalImport
  <2>1. \/ \E name, r : run_eval_on_file(name, "import", r, stack)
        \/ \E text, r : Deliver(Creates(Error(text)), "continue", r, stack)
        \/ UNCHANGED memory
    BY <1>11, Zenon DEF EvalImport
  <2>2. QED BY <1>1, <1>2, <1>3, <2>1, NestedTidy, CleanError
<1>12. CASE EvalSelf \/ EvalIf \/ EvalAssignment \/ EvalDefinition \/ EvalApplication
  BY <1>2, <1>12 DEF EvalSelf, At, EvalIf, EvalAssignment, EvalDefinition, EvalStore, EvalApplication
<1>13. QED BY <1>5, <1>6, <1>7, <1>8, <1>9, <1>10, <1>11, <1>12 DEF Dispatch

\* The labels an expression leads to before it has a value.
Starting == {"begin", "sequence", "dispatch", "continue", "exit"}

LEMMA NestedStarts ==
    ASSUME NEW p, NEW name, NEW caller, NEW r, NEW s,
           run_eval_on_string(p, r, s) \/ run_eval_on_file(name, caller, r, s)
    PROVE  pc' \in Starting
<1>1. ASSUME NEW program, NEW c, NEW r2, NEW s2, Enter(program, c, r2, s2) PROVE pc' \in Starting
  BY <1>1 DEF Enter, Starting
<1>2. ASSUME NEW o, NEW r2, NEW s2, Deliver(o, "continue", r2, s2) PROVE pc' \in Starting
  BY <1>2 DEF Deliver, To, Starting
<1>3. QED BY <1>1, <1>2, NestedBegins

LEMMA DispatchStarts ==
    ASSUME Dispatch
    PROVE  pc' \in Starting
<1>1. ASSUME NEW o, NEW r, NEW s, Deliver(o, "continue", r, s) PROVE pc' \in Starting
  BY <1>1 DEF Deliver, To, Starting
<1>2. ASSUME NEW r, NEW s, To("continue", r, s) \/ To("dispatch", r, s) PROVE pc' \in Starting
  BY <1>2 DEF To, Starting
<1>3. CASE EvalEval
  <2>1. \/ \E p, r : run_eval_on_string(p, r, stack)
        \/ \E o, r : Deliver(o, "continue", r, stack)
    BY <1>3, Zenon DEF EvalEval
  <2>2. QED BY <1>1, <2>1, NestedStarts
<1>4. CASE EvalImport
  <2>1. \/ \E name, r : run_eval_on_file(name, "import", r, stack)
        \/ \E o, r : Deliver(o, "continue", r, stack)
        \/ \E r, s : To("dispatch", r, s)
    BY <1>4, Zenon DEF EvalImport
  <2>2. QED BY <1>1, <1>2, <2>1, NestedStarts
<1>5. CASE EvalVariable \/ EvalQuoted \/ EvalLambda
  BY <1>1, <1>5 DEF EvalVariable, EvalQuoted, EvalLambda
<1>6. CASE EvalSelf \/ EvalDefineLambda \/ EvalMacroLambda
  BY <1>2, <1>6 DEF EvalSelf, EvalDefineLambda, EvalMacroLambda, NamedCode
<1>7. CASE EvalIf \/ EvalAssignment \/ EvalDefinition \/ EvalApplication
  BY <1>2, <1>7 DEF EvalIf, EvalAssignment, EvalDefinition, EvalStore, EvalApplication
<1>8. QED BY <1>3, <1>4, <1>5, <1>6, <1>7 DEF Dispatch

-----------------------------------------------------------------------------
(* The first error.                                                        *)

MakesNone(o) == \A i \in DOMAIN o.cells : o.cells[i].type # "error"
MakesError(o) == \E text : o = Creates(Error(text))
Makes(o) == MakesNone(o) \/ MakesError(o)

LEMMA NoneMade ==
    /\ \A p : MakesNone(Returns(p))
    /\ \A n : MakesNone(Creates(Number(n)))
    /\ \A a, d : MakesNone(Creates(Pair(a, d)))
    /\ \A a : MakesNone(list_func(a))
<1>1. \A p : MakesNone(Returns(p))
  BY DEF MakesNone, Returns
<1>2. ASSUME NEW c, c.type # "error" PROVE MakesNone(Creates(c))
  BY <1>2 DEF MakesNone, Creates
<1>3. \A n : Number(n).type = "number"
  BY DEF Number, Text
<1>4. \A a, d : Pair(a, d).type = "pair"
  BY DEF Pair, Text
<1>5. ASSUME NEW a PROVE MakesNone(list_func(a))
  <2> DEFINE cell(i) == IF i = Len(a) + 1 THEN Pair(NIL, NIL) ELSE Pair(a[i], IF i = Len(a) THEN NIL ELSE -(i + 1))
  <2>1. \A i : cell(i).type = "pair"
    BY <1>4
  <2>2. list_func(a).cells = [i \in 1 .. Len(a) + 1 |-> cell(i)]
    BY DEF list_func
  <2> HIDE DEF cell
  <2>3. QED BY <2>1, <2>2 DEF MakesNone
<1>6. QED BY <1>1, <1>2, <1>3, <1>4, <1>5

\* A primitive makes the cells of its value, or an error and nothing else.
LEMMA PrimitiveErrors ==
    ASSUME NEW name, NEW argl
    PROVE  Makes(proc_prim(name, argl))
<1> DEFINE a == Elements(argl)
           true == {i \in DOMAIN a : a[i] # NIL}
<1>1. \A text : Makes(Creates(Error(text)))
  BY DEF Makes, MakesError
<1>2. \A p : Makes(Returns(p))
  BY NoneMade DEF Makes
<1>3. Makes(list_func(a)) /\ Makes(Creates(Pair(a[1], a[2])))
  BY NoneMade DEF Makes
<1>4. \A b : Makes(Truth(b))
  BY <1>2 DEF Truth
<1>5. Makes(equals_func(a[1], a[2]))
  BY <1>1, <1>4 DEF equals_func
<1>6. Makes(Arithmetic(name, a))
  BY <1>2, <1>4, NoneMade DEF Arithmetic, Makes
<1> HIDE DEF a, true
<1>7. CASE ArityOK(name, Len(a)) /\ name \in {"list", "first", "rest", "push"}
  BY <1>1, <1>2, <1>3, <1>7 DEF proc_prim, a, true
<1>8. CASE ArityOK(name, Len(a)) /\ name \in {"or", "and"}
  BY <1>2, <1>8 DEF proc_prim, a, true
<1>9. CASE ArityOK(name, Len(a)) /\ name \notin {"list", "first", "rest", "push", "or", "and"}
  BY <1>1, <1>4, <1>5, <1>6, <1>9 DEF proc_prim, a, true
<1>10. CASE ~ ArityOK(name, Len(a))
  BY <1>1, <1>10 DEF proc_prim, a, true
<1>11. QED BY <1>7, <1>8, <1>9, <1>10

LEMMA CreatedSilent ==
    ASSUME MemoryOK, NEW cells, Created(cells), \A i \in DOMAIN cells : cells[i].type # "error"
    PROVE  have_error' = have_error
<1>1. ~ (\E c \in Range(cells) : c.type = "error")
  BY DEF Range
<1>2. have_error' = (have_error \/ \E c \in Range(cells) : c.type = "error")
  BY DEF Created
<1>3. QED BY <1>1, <1>2 DEF MemoryOK

LEMMA DeliverSilent ==
    ASSUME MemoryOK, NEW o, MakesNone(o), NEW label, NEW r, NEW s, Deliver(o, label, r, s)
    PROVE  have_error' = have_error
<1>1. Created(o.cells)
  BY DEF Deliver, Create
<1>2. QED BY <1>1, CreatedSilent DEF MakesNone

\* An error ends the evaluation that called something else.
LEMMA UnknownAborts ==
    ASSUME Ready, NoAbort', UnknownProcedure
    PROVE  FALSE
<1> DEFINE r2 == [reg EXCEPT !.cont = Popped(stack, 1)]
           s2 == Pop(stack, 1)
           c == Error("unknown procedure")
<1>1. MemoryOK /\ r2 \in Registers
  BY ReadyTypes, Assign
<1>2. IsCell(c) /\ c.type = "error"
  BY CellTypes DEF Error, Text
<1>3. Deliver(Creates(c), "exit", r2, s2)
  BY Zenon DEF UnknownProcedure
<1> HIDE DEF c, r2, s2
<1>4. Cell(reg.val)'.type = "error" /\ pc' = "exit"
  BY <1>1, <1>2, <1>3, DeliversError, DeliverMoves
<1>5. QED BY <1>4 DEF NoAbort

\* A value that is an error ends the evaluation.
LEMMA ContinueAborts ==
    ASSUME Ready, NoAbort', Continue
    PROVE  Cell(Answer).type # "error"
<1>1. /\ pc' = (IF Cell(Answer).type = "error" THEN "exit" ELSE LabelOf(reg.cont))
      /\ reg' = [reg EXCEPT !.val = Answer] /\ heap' = heap
  BY DEF Continue, To
<1>2. reg'.val = Answer
  BY <1>1, ReadyTypes, RegisterNames DEF Registers
<1> DEFINE p == Answer
<1>3. Cell(reg.val)' = CellIn(heap, p)
  BY <1>1, <1>2 DEF Cell
<1> HIDE DEF p
<1>4. SUFFICES ASSUME CellIn(heap, p).type = "error" PROVE FALSE
  BY DEF Cell, p
<1>5. pc' = "exit"
  BY <1>1, <1>4 DEF Cell, p
<1>6. QED BY <1>3, <1>4, <1>5 DEF NoAbort

\* Where an error is waiting to be looked at.
Pending == Starting \cup {"host", "operand_loop", "apply", "undefined"}
IsUnknown(p) == Cell(p).type = "error" /\ Cell(p).text = "unknown variable"
Waiting == pc \in Pending /\ (pc = "apply" => IsUnknown(reg.proc))

\* The last error is the answer, while it is there.
LEMMA WaitsForAnswer ==
    ASSUME KillIfError, Ready, Tidy, have_error, Defined, Continue, NoAbort'
    PROVE  FALSE
<1>1. Answer = error_value /\ pc = "continue"
  BY DEF Answer, Continue
<1>2. Cell(error_value).type # "bad" /\ Cell(error_value).type # "error"
  BY <1>1, ContinueAborts DEF Defined, IsData
<1>3. error_value \in FirstAddress .. fresh - 1 /\ (error_value \in DOMAIN heap => heap[error_value].type = "error")
  BY DEF Tidy, ErrorKept
<1>4. error_value # NIL /\ error_value # T
  BY <1>3, ReadyTypes DEF FirstAddress, NIL, T, MemoryOK
<1>5. BadCell.type = "bad"
  BY DEF BadCell, Text
<1>6. QED BY <1>2, <1>3, <1>4, <1>5 DEF Cell, CellIn

LEMMA LastMade ==
    ASSUME MemoryOK, NEW c, IsCell(c), NEW j \in 0 .. Len(<<c>>), NEW r, NEW s
    PROVE  /\ CellIn(HeapAfter(<<c>>, j, r, s), fresh).type = c.type
           /\ CellIn(HeapAfter(<<c>>, j, r, s), fresh).text = c.text
<1> DEFINE cells == <<c>>
           after == HeapAfter(cells, j, r, s)
<1>1. IsBatch(cells) /\ Len(cells) = 1 /\ cells[1] = c /\ j \in 0 .. Len(cells)
  BY OneCell
<1>2. fresh \in DOMAIN after
  BY LastCreated
<1> HIDE DEF cells
<1>3. fresh \in Nat /\ fresh >= 103 /\ fresh >= fresh /\ fresh - fresh + 1 = 1
  BY DEF MemoryOK, FirstAddress
<1>4. after[fresh].type = cells[1].type /\ after[fresh].text = cells[1].text
  BY <1>1, <1>2, <1>3, MadeParts
<1> HIDE DEF after
<1>5. CellIn(after, fresh) = after[fresh]
  BY <1>2, <1>3 DEF CellIn, NIL, T
<1>6. QED BY <1>1, <1>4, <1>5 DEF after, cells

LEMMA LookupErrors ==
    ASSUME NEW p, NEW env
    PROVE  LET o == lookup_variable_value(p, env)
           IN  MakesNone(o) \/ o = Creates(Error("unknown variable"))
BY NoneMade DEF lookup_variable_value

LEMMA OperatorErrs ==
    ASSUME KillIfError, Ready, Tidy, ~ have_error, have_error', DidOperator
    PROVE  Tidy' /\ Waiting'
<1> DEFINE r == [Unwound EXCEPT !.argl = NIL, !.last = NULL, !.proc = reg.val]
           found == IF IsStringType(reg.val) THEN lookup_variable_value(reg.val, r.env) ELSE Returns(reg.val)
           called == [r EXCEPT !.proc = Address(found.val)]
           entered == [called EXCEPT !.cont = JUMP_MACRO_FINISH, !.argl = r.unev, !.unev = CAR(called.proc)]
           c == Error("unknown variable")
<1>1. PICK j \in Collections(found.cells, r, Rest) :
         IF Cell(called.proc).type = "macro"
         THEN ExtendEnvironment(CDR(called.proc), entered, Push(Rest, <<Cont(JUMP_MACRO_FINISH)>>))
         ELSE /\ Create(found.cells, j, r, Rest)
              /\ IF r.unev = NIL THEN To("apply", called, Rest)
                 ELSE To("operand_loop", called, Push(Rest, <<Data(called.proc)>>))
  BY Zenon DEF DidOperator
<1>2. MemoryOK /\ reg \in Registers /\ Unwound \in Registers
  BY ReadyTypes, UnwoundType
<1>3. called.proc = Address(found.val)
  BY <1>2, RegisterNames DEF Registers
<1>4. MakesNone(found) \/ found = Creates(c)
  BY LookupErrors, NoneMade
<1>5. IsCell(c) /\ c.type = "error" /\ c.text = "unknown variable" /\ CleanBatch(Creates(c).cells)
  BY <1>2, CellTypes, CleanError DEF Error, Text
<1> HIDE DEF r, called, entered, found, c
<1>6. ~ ExtendEnvironment(CDR(called.proc), entered, Push(Rest, <<Cont(JUMP_MACRO_FINISH)>>))
  BY DEF ExtendEnvironment
<1>7. Create(found.cells, j, r, Rest) /\ (pc' = "operand_loop" \/ (pc' = "apply" /\ reg' = called))
  BY <1>1, <1>6 DEF To
<1>8. found = Creates(c)
  <2>1. MakesNone(found) => have_error' = have_error
    BY <1>2, <1>7, CreatedSilent DEF Create, MakesNone
  <2>2. QED BY <1>4, <2>1
<1>9. found.cells = <<c>> /\ found.val = -1
  BY <1>8 DEF Creates
<1>10. Tidy'
  BY <1>1, <1>2, <1>5, <1>7, <1>8, CreateTidy
<1>11. CASE pc' = "apply" /\ reg' = called
  <2>1. Address(-1) = fresh
    BY <1>2 DEF Address, MemoryOK
  <2>2. reg'.proc = fresh
    BY <1>3, <1>9, <1>11, <2>1
  <2>3. heap' = HeapAfter(<<c>>, j, r, Rest)
    BY <1>7, <1>9 DEF Create
  <2>4. j \in 0 .. Len(<<c>>)
    BY <1>1, <1>5, <1>9, CollectionsType, OneCell
  <2>5. CellIn(heap', fresh).type = "error" /\ CellIn(heap', fresh).text = "unknown variable"
    <3>1. PICK r2, s2 : r2 = r /\ s2 = Rest
      OBVIOUS
    <3>2. PICK d : d = c
      OBVIOUS
    <3>3. IsCell(d) /\ j \in 0 .. Len(<<d>>)
      BY <1>5, <2>4, <3>2
    <3>4. /\ CellIn(HeapAfter(<<d>>, j, r2, s2), fresh).type = d.type
          /\ CellIn(HeapAfter(<<d>>, j, r2, s2), fresh).text = d.text
      BY <1>2, <3>3, LastMade
    <3>5. QED BY <1>5, <2>3, <3>1, <3>2, <3>4
  <2>6. IsUnknown(reg.proc)'
    BY <2>2, <2>5 DEF IsUnknown, Cell
  <2>7. QED BY <1>10, <1>11, <2>6 DEF Waiting, Pending
<1>12. CASE pc' = "operand_loop"
  BY <1>10, <1>12 DEF Waiting, Pending
<1>13. QED BY <1>7, <1>11, <1>12

LEMMA ContinuationErrs ==
    ASSUME KillIfError, Ready, Tidy, ~ have_error, have_error', Continuation
    PROVE  Tidy' /\ Waiting'
<1>1. MemoryOK /\ reg \in Registers /\ Unwound \in Registers
  BY ReadyTypes, UnwoundType
<1>2. CASE DidOperator
  BY <1>2, OperatorErrs
<1>3. CASE ImportAux
  <2>1. \/ \E name, r, s : run_eval_on_file(name, "import_aux", r, s)
        \/ \E text, r, s : Deliver(Creates(Error(text)), "continue", r, s)
    BY <1>3, Zenon DEF ImportAux
  <2>2. CASE \E name, r, s : run_eval_on_file(name, "import_aux", r, s)
    BY <1>1, <2>2, NestedTidy, NestedStarts DEF Waiting, Pending, Starting
  <2>3. CASE \E text, r, s : Deliver(Creates(Error(text)), "continue", r, s)
    <3>1. Tidy'
      BY <1>1, <2>3, CleanError, DeliverTidy
    <3>2. pc' = "continue"
      BY <2>3 DEF Deliver, To
    <3>3. QED BY <3>1, <3>2 DEF Waiting, Pending, Starting
  <2>4. QED BY <2>1, <2>2, <2>3
<1>4. CASE IfDecide \/ Assignment1 \/ Definition1 \/ OperandLoop \/ SequenceContinue \/ MacroFinish
  BY <1>4 DEF IfDecide, Assignment1, Definition1, Store, OperandLoop, SequenceContinue, MacroFinish, At, memory
<1>5. CASE AccumulateArg \/ AccumLastArg
  <2>1. PICK v : Created(<<Pair(v, NIL)>>)
    BY <1>5 DEF AccumulateArg, AccumLastArg, AppendToLast
  <2>2. Pair(v, NIL).type = "pair"
    BY DEF Pair, Text
  <2>3. have_error' = have_error
    <3> DEFINE cells == <<Pair(v, NIL)>>
    <3>1. \A i \in DOMAIN cells : cells[i].type # "error"
      BY <2>2
    <3>2. Created(cells)
      BY <2>1
    <3> HIDE DEF cells
    <3>3. QED BY <1>1, <3>1, <3>2, CreatedSilent
  <2>4. QED BY <2>3
<1>6. QED BY <1>2, <1>3, <1>4, <1>5 DEF Continuation

LEMMA ApplyErrs ==
    ASSUME KillIfError, Ready, Tidy, ~ have_error, have_error', NoAbort', Apply
    PROVE  Tidy' /\ Waiting'
<1>1. MemoryOK
  BY ReadyTypes
<1>2. CASE PrimitiveApply
  <2> DEFINE o == proc_prim(TextOf(reg.proc), reg.argl)
  <2>1. PICK r, s : Deliver(o, "continue", r, s)
    BY <1>2 DEF PrimitiveApply
  <2>2. MakesNone(o) \/ MakesError(o)
    BY PrimitiveErrors DEF Makes
  <2> HIDE DEF o
  <2>3. ~ MakesNone(o)
    BY <1>1, <2>1, DeliverSilent
  <2>4. CleanBatch(o.cells)
    BY <1>1, <2>2, <2>3, CleanError DEF MakesError
  <2>5. Tidy'
    BY <1>1, <2>1, <2>4, DeliverTidy
  <2>6. pc' = "continue"
    BY <2>1 DEF Deliver, To
  <2>7. QED BY <2>5, <2>6 DEF Waiting, Pending, Starting
<1>3. CASE CompoundApply
  BY <1>3 DEF CompoundApply, ExtendEnvironment
<1>4. QED BY <1>2, <1>3, UnknownAborts DEF Apply

\* A restore makes an error only of the copy of one.
LEMMA PluginSilent ==
    ASSUME Ready, PluginOK, NoErrorIn(stored.cells), EnvRestore
    PROVE  have_error' = have_error
<1>1. MemoryOK
  BY ReadyTypes
<1>2. CASE data_restore_cell
  <2> DEFINE shared == Copied.type \in {"nil", "true"}
             cells == IF shared THEN <<>> ELSE <<RestoredCell>>
  <2>1. Created(cells)
    BY <1>2 DEF data_restore_cell, Create
  <2>2. RestoredCell.type # "error"
    <3>1. Copied.type # "error"
      BY ErrorIsCell DEF Copied, Copy
    <3>2. Leaf.type = Copied.type /\ DOMAIN Leaf = DOMAIN BadCell
      BY DEF Leaf, Text, BadCell
    <3> DEFINE leaf == Leaf
    <3>3. DOMAIN leaf = {"type", "text", "num", "car", "cdr", "env"}
      BY <3>2, CellDomain
    <3>4. RestoredCell.type = Leaf.type
      <4> HIDE DEF leaf
      <4>1. [leaf EXCEPT !.car = Held(1), !.cdr = Held(0), !.env = Made(Task.env)].type = leaf.type
        BY <3>3
      <4>2. QED BY <4>1 DEF RestoredCell, leaf
    <3>5. QED BY <3>1, <3>2, <3>4
  <2>3. \A i \in DOMAIN cells : cells[i].type # "error"
    BY <2>2
  <2> HIDE DEF cells
  <2>4. QED BY <1>1, <2>1, <2>3, CreatedSilent
<1>3. CASE env_restore
  <2>1. UNCHANGED memory \/ have_error' = have_error
    BY <1>3, Zenon DEF env_restore
  <2>2. QED BY <2>1 DEF memory
<1>4. CASE \/ env_restore_plugin_save \/ env_restore_plugin_restore \/ data_restore \/ env_restore_bind
           \/ eval_set_new_pointers \/ rec_set_new_pointers \/ env_restore_plugin_return
  BY <1>4 DEF env_restore_plugin_save, env_restore_plugin_restore, data_restore, env_restore_bind,
              eval_set_new_pointers, rec_set_new_pointers, env_restore_plugin_return, memory
<1>5. QED BY <1>2, <1>3, <1>4 DEF EnvRestore

LEMMA FirstError ==
    ASSUME KillIfError, Inv, Tidy, NoErrorIn(stored.cells), ~ have_error, have_error', NoAbort', [Next]_vars
    PROVE  Tidy' /\ Waiting'
<1>1. Ready /\ PluginOK
  BY TypeParts DEF Inv, Ready, PluginOK
<1>2. CASE Run
  <2>1. CASE Dispatch
    <3>1. pc' \in Pending /\ pc' # "apply"
      BY <2>1, DispatchStarts DEF Pending, Starting
    <3>2. QED BY <1>1, <2>1, <3>1, DispatchTidy DEF Waiting
  <2>2. CASE EvalBegin \/ Sequence \/ Continue \/ Exit
    BY <2>2 DEF EvalBegin, Sequence, Continue, Exit, At, memory
  <2>3. CASE EnvRestore
    BY <1>1, <2>3, PluginSilent
  <2>4. QED BY <1>1, <1>2, <2>1, <2>2, <2>3, ContinuationErrs, ApplyErrs DEF Run
<1>3. CASE Eval
  <2>1. have_error' = have_error
    BY <1>3 DEF Eval, Enter, memory
  <2>2. QED BY <2>1
<1>4. CASE Undefined \/ UNCHANGED vars
  BY <1>4 DEF Undefined, vars, memory
<1>5. QED BY <1>2, <1>3, <1>4 DEF Next

-----------------------------------------------------------------------------
(* While an error waits.                                                   *)

LEMMA FewerTidy ==
    ASSUME Tidy, NEW S, heap' = Keep(heap, S), UNCHANGED <<envs, fresh, have_error, error_value>>
    PROVE  Tidy'
<1> DEFINE kept == Keep(heap, S)
<1>1. \A a \in DOMAIN kept : a \in DOMAIN heap /\ kept[a] = heap[a]
  BY KeepType
<1> HIDE DEF kept
<1>2. heap' = kept
  BY DEF kept
<1>3. Sound \subseteq Sound'
  BY <1>1, <1>2 DEF Sound, ErrorsIn
<1>4. BindingsIn(envs, Sound')
  BY <1>3, BindingsWider DEF Tidy, Unreferenced
<1>5. PartsIn(heap', Sound')
  BY <1>1, <1>2, <1>3 DEF Tidy, Unreferenced, PartsIn
<1>6. Unreferenced'
  BY <1>4, <1>5 DEF Unreferenced, PartsIn, BindingsIn
<1>7. ErrorKept => ErrorKept'
  BY <1>1, <1>2 DEF ErrorKept
<1>8. QED BY <1>6, <1>7 DEF Tidy

LEMMA NotCalled ==
    ASSUME IsUnknown(reg.proc)
    PROVE  ~ (TextOf(reg.proc) \in Registered) /\ ~ (Cell(reg.proc).type \in {"procedure"})
<1>1. TextOf(reg.proc) = "unknown variable"
  BY DEF IsUnknown, TextOf, IsStringType, StringTypes
<1>2. QED BY <1>1 DEF IsUnknown, Registered, Primitives, Foreign

LEMMA WaitingStep ==
    ASSUME KillIfError, Inv, Tidy, Waiting, have_error, have_error', NoAbort', [Next]_vars
    PROVE  Tidy' /\ Waiting'
<1>1. Ready /\ PluginOK /\ MemoryOK
  BY TypeParts, ReadyTypes DEF Inv, Ready, PluginOK
<1>2. ASSUME UNCHANGED memory, pc' \in Pending, pc' # "apply"
      PROVE  Tidy' /\ Waiting'
  BY <1>2, StillTidy DEF memory, Waiting
<1>3. ASSUME pc' \in Starting PROVE Waiting'
  BY <1>3 DEF Waiting, Pending, Starting
<1>4. CASE Run
  <2>1. CASE Dispatch
    BY <1>1, <1>3, <2>1, DispatchTidy, DispatchStarts
  <2>2. CASE EvalBegin \/ Sequence
    <3>1. UNCHANGED memory /\ pc' \in {"sequence", "dispatch"}
      BY <2>2 DEF EvalBegin, Sequence, At, To
    <3>2. QED BY <1>2, <3>1 DEF Pending, Starting
  <2>3. CASE Continuation
    <3>1. CASE OperandLoop
      <4>1. UNCHANGED memory /\ pc' = "dispatch"
        BY <3>1 DEF OperandLoop, At, To
      <4>2. QED BY <1>2, <4>1 DEF Pending, Starting
    <3>2. CASE pc \in {"if_decide", "assignment_1", "definition_1", "did_operator", "accumulate_arg",
                       "accum_last_arg", "sequence_continue", "macro_finish", "import_aux"}
      BY <3>2 DEF Waiting, Pending, Starting
    <3>3. \/ OperandLoop
          \/ pc \in {"if_decide", "assignment_1", "definition_1", "did_operator", "accumulate_arg",
                     "accum_last_arg", "sequence_continue", "macro_finish", "import_aux"}
      BY <2>3 DEF Continuation, IfDecide, Assignment1, Definition1, DidOperator, AccumulateArg, AccumLastArg,
                  SequenceContinue, MacroFinish, ImportAux, At
    <3>4. QED BY <3>1, <3>2, <3>3
  <2>4. CASE Apply
    <3>1. IsUnknown(reg.proc)
      BY <2>4 DEF Apply, PrimitiveApply, CompoundApply, UnknownProcedure, Waiting
    <3>2. UnknownProcedure
      BY <2>4, <3>1, NotCalled DEF Apply, PrimitiveApply, CompoundApply, Registered
    <3>3. QED BY <1>1, <3>2, UnknownAborts
  <2>5. CASE Continue
    BY <1>1, <1>4, <2>5, WaitsForAnswer DEF Run
  <2>6. CASE Exit
    <3>1. heap' = Keep(heap, DOMAIN heap \ {reg.top}) /\ UNCHANGED <<envs, fresh, have_error, error_value>>
      BY <2>6 DEF Exit
    <3>2. pc' \in {"host", "continue"}
      <4>1. \A r, s : Return(r, s).label \in {"host", "continue"}
        BY DEF Return
      <4>2. PICK r, s : pc' = Return(r, s).label
        BY <2>6 DEF Exit, To
      <4>3. QED BY <4>1, <4>2
    <3>3. Tidy'
      BY <3>1, FewerTidy
    <3>4. QED BY <3>2, <3>3 DEF Waiting, Pending, Starting
  <2>7. CASE EnvRestore
    <3>1. \/ pc \in {"restoring", "redirecting"}
          \/ Applies("env:save") \/ Applies("env:restore")
      BY <2>7 DEF EnvRestore, env_restore_plugin_save, env_restore_plugin_restore, env_restore, data_restore,
                  data_restore_cell, env_restore_bind, eval_set_new_pointers, rec_set_new_pointers,
                  env_restore_plugin_return, Restoring
    <3>2. ~ (pc \in {"restoring", "redirecting"})
      BY DEF Waiting, Pending, Starting
    <3>3. pc = "apply" /\ TextOf(reg.proc) \in Registered
      BY <3>1, <3>2 DEF Applies, Registered, Foreign
    <3>4. IsUnknown(reg.proc)
      BY <3>3 DEF Waiting
    <3>5. QED BY <3>3, <3>4, NotCalled
  <2>8. QED BY <1>4, <2>1, <2>2, <2>3, <2>4, <2>5, <2>6, <2>7 DEF Run
<1>5. CASE Eval
  <2>1. pc' \in Starting
    BY <1>5 DEF Eval, Enter, Starting
  <2>2. Tidy'
    BY <1>1, <1>5, NextProgram, EnterTidy
  <2>3. QED BY <1>3, <2>1, <2>2
<1>6. CASE Undefined
  <2>1. UNCHANGED memory /\ pc' = "undefined"
    BY <1>6 DEF Undefined
  <2>2. QED BY <1>2, <2>1 DEF Pending
<1>7. CASE UNCHANGED vars
  <2>1. UNCHANGED <<pc, reg, heap>> /\ UNCHANGED memory
    BY <1>7 DEF vars, memory
  <2>2. Waiting'
    BY <2>1 DEF Waiting, IsUnknown, Cell
  <2>3. QED BY <2>1, <2>2, StillTidy DEF memory
<1>8. QED BY <1>4, <1>5, <1>6, <1>7 DEF Next

-----------------------------------------------------------------------------
(* Every step.                                                             *)

LEMMA KilledNoticed ==
    ASSUME KillIfError, Inv, Tidy, NoAbort', [Next]_vars
    PROVE  ErrorsNoticed
<1>1. Ready /\ PluginOK /\ MemoryOK
  BY TypeParts, ReadyTypes DEF Inv, Ready, PluginOK
<1>2. CASE Run
  <2>1. CASE EvalBegin \/ Sequence
    BY <2>1, HeapSame DEF EvalBegin, Sequence, At, memory
  <2>2. CASE Continue
    <3>1. ~ have_error
      BY <1>1, <1>2, <2>2, WaitsForAnswer DEF Run
    <3>2. heap' = heap
      BY <2>2 DEF Continue
    <3>3. QED BY <3>1, <3>2 DEF ErrorsNoticed
  <2>3. CASE Dispatch \/ Continuation \/ Apply \/ Exit \/ EnvRestore
    BY <1>1, <2>3, DispatchNoticed, ContinuationNoticed, ApplyNoticed, ExitNoticed, PluginNoticed
  <2>4. QED BY <1>2, <2>1, <2>2, <2>3 DEF Run
<1>3. CASE Eval
  BY <1>1, <1>3, NextProgram, EnterNoticed
<1>4. CASE Undefined \/ UNCHANGED vars
  BY <1>4, HeapSame DEF Undefined, vars, memory
<1>5. QED BY <1>2, <1>3, <1>4 DEF Next

\* Nothing refers to an error when there is none.
LEMMA NoneTidy ==
    ASSUME MemoryOK, Issued, ErrorsFlagged, ~ have_error
    PROVE  Tidy
<1>1. Sound = 0 .. fresh - 1
  BY DEF ErrorsFlagged, NoErrorIn, Sound, ErrorsIn
<1>2. MemoryHolds(Sound)
  BY <1>1 DEF Issued, Holds, CoreHolds
<1>3. PartsIn(heap, Sound)
  BY <1>2 DEF MemoryHolds, CellsIn, PartsIn
<1>4. QED BY <1>2, <1>3 DEF MemoryHolds, Tidy, Unreferenced

ErrorInv == ErrorsFlagged /\ NoErrorIn(stored.cells) /\ (have_error => Tidy /\ Waiting)

LEMMA ErrorTidy ==
    ASSUME MemoryOK, Issued, ErrorInv
    PROVE  Tidy
BY NoneTidy DEF ErrorInv

LEMMA ErrorInit ==
    ASSUME Init
    PROVE  ErrorInv
<1>1. DOMAIN heap = {} /\ ~ have_error
  BY DEF Init
<1>2. ErrorsFlagged
  BY <1>1 DEF ErrorsFlagged, NoErrorIn
<1>3. NoErrorIn(stored.cells)
  BY DEF Init, PluginInit, NothingSaved, NoErrorIn
<1>4. QED BY <1>1, <1>2, <1>3 DEF ErrorInv

LEMMA ErrorNext ==
    ASSUME KillIfError, Inv, Issued, ErrorInv, NoAbort', [Next]_vars
    PROVE  ErrorInv'
<1>1. Tidy
  BY TypeParts, ErrorTidy DEF Inv, CoreOK
<1>2. ErrorsFlagged'
  BY <1>1, KilledNoticed DEF ErrorInv, ErrorsFlagged, ErrorsNoticed
<1>3. ASSUME have_error' PROVE Tidy' /\ Waiting'
  BY <1>1, <1>3, FirstError, WaitingStep DEF ErrorInv
<1>4. NoErrorIn(stored.cells)'
  <2>1. CASE UNCHANGED stored
    BY <2>1 DEF ErrorInv, NoErrorIn
  <2>2. CASE env_restore_plugin_save
    <3>1. pc = "apply" /\ TextOf(reg.proc) \in Registered /\ stored'.cells = heap
      BY <2>2 DEF env_restore_plugin_save, Applies, Registered, Foreign
    <3>2. ~ have_error
      <4>1. have_error => IsUnknown(reg.proc)
        BY <3>1 DEF ErrorInv, Waiting
      <4>2. QED BY <3>1, <4>1, NotCalled
    <3>3. QED BY <3>1, <3>2 DEF ErrorInv, ErrorsFlagged, NoErrorIn
  <2>3. UNCHANGED stored \/ env_restore_plugin_save
    BY DEF Next, Run, plugin, vars, EnvRestore, env_restore_plugin_restore, env_restore, data_restore,
           data_restore_cell, env_restore_bind, eval_set_new_pointers, rec_set_new_pointers,
           env_restore_plugin_return
  <2>4. QED BY <2>1, <2>2, <2>3
<1>5. QED BY <1>2, <1>3, <1>4 DEF ErrorInv

LEMMA TidyNeverBound ==
    ASSUME MemoryOK, Tidy
    PROVE  ErrorsNeverBound
<1>1. ASSUME NEW p \in Sound PROVE Cell(p).type # "error"
  <2>1. NilCell.type = "nil" /\ TrueCell.type = "true" /\ BadCell.type = "bad"
    BY DEF NilCell, TrueCell, BadCell, Pair, Text
  <2>2. p \in DOMAIN heap => heap[p].type # "error"
    BY DEF Sound, ErrorsIn
  <2>3. QED BY <2>1, <2>2 DEF Cell, CellIn
<1>2. \A e \in DOMAIN envs : \A x \in DOMAIN envs[e].bind : envs[e].bind[x] \in Sound
  BY DEF Tidy, Unreferenced, BindingsIn
<1>3. \A a \in DOMAIN heap : heap[a].car \in Sound
  BY DEF Tidy, Unreferenced, PartsIn
<1>4. QED BY <1>1, <1>2, <1>3 DEF ErrorsNeverBound

\* With kill_if_error on, no variable is ever bound to an error and no procedure
\* gets one as an argument: not even while evaluation goes on after an error that
\* nothing has looked at yet.  The behaviours are those in which no evaluation
\* has yet been left because of an error, which leaves its frames on the stack.
THEOREM ErrorsCorrect ==
    ASSUME KillIfError
    PROVE  Spec /\ []NoAbort => []ErrorsNeverBound
<1>1. Init => Inv /\ Issued /\ ErrorInv
  BY InvInit, IssuedInit, ErrorInit
<1>2. Inv /\ Issued /\ ErrorInv /\ [Next]_vars /\ NoAbort' => (Inv /\ Issued /\ ErrorInv)'
  BY InvNext, IssuedNext, ErrorNext
<1>3. Inv /\ Issued /\ ErrorInv => ErrorsNeverBound
  BY TypeParts, ErrorTidy, TidyNeverBound DEF Inv, CoreOK
<1>4. QED BY <1>1, <1>2, <1>3, PTL DEF Spec
==============================================================================
