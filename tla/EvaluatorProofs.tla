--------------------------- MODULE EvaluatorProofs ---------------------------
(***************************************************************************)
(* Proofs about Evaluator, for any programs that reader_to_data can return *)
(* and any size of the stack: registers, stack, memory and the restored    *)
(* environments keep their types at every label.                           *)
(***************************************************************************)
EXTENDS Evaluator, NaturalProofs

Inv == TypeOK /\ script \in Scripts

-----------------------------------------------------------------------------
(* The stack.                                                              *)

LEMMA PushType ==
    ASSUME NEW s \in Seq(StackEntries), NEW entries \in Seq(StackEntries)
    PROVE  Push(s, entries) \in Seq(StackEntries)
<1>1. s \o entries \in Seq(StackEntries)
  OBVIOUS
<1>2. CASE Len(s \o entries) <= MaxStackDepth
  BY <1>1, <1>2 DEF Push
<1>3. CASE ~ (Len(s \o entries) <= MaxStackDepth)
  BY <1>1, <1>3, MachineAssumption DEF Push
<1>4. QED BY <1>2, <1>3

LEMMA PopType ==
    ASSUME NEW S, NEW s \in Seq(S), NEW n \in Nat
    PROVE  Pop(s, n) \in Seq(S)
BY DEF Pop

LEMMA PoppedType ==
    ASSUME NEW s \in Seq(StackEntries), NEW i \in Nat \ {0}
    PROVE  Popped(s, i) \in Nat
<1>1. CASE i > Len(s)
  BY <1>1 DEF Popped, NULL
<1>2. CASE i <= Len(s)
  <2>1. Len(s) - i + 1 \in DOMAIN s
    BY <1>2
  <2>2. s[Len(s) - i + 1] \in StackEntries
    BY <2>1
  <2>3. QED BY <1>2, <2>2 DEF Popped, StackEntries
<1>3. QED BY <1>1, <1>2

LEMMA EntryTypes ==
    ASSUME NEW p \in Nat
    PROVE  /\ Data(p) \in StackEntries /\ Env(p) \in StackEntries
           /\ Cont(p) \in StackEntries /\ ArgPointer(p) \in StackEntries
BY DEF Data, Env, Cont, ArgPointer, StackEntries

LEMMA PushEntries ==
    ASSUME NEW s \in Seq(StackEntries)
    PROVE  \A a, b, c, d \in StackEntries :
              /\ Push(s, <<a>>) \in Seq(StackEntries) /\ Push(s, <<a, b>>) \in Seq(StackEntries)
              /\ Push(s, <<a, b, c>>) \in Seq(StackEntries) /\ Push(s, <<a, b, c, d>>) \in Seq(StackEntries)
<1>1. TAKE a, b, c, d \in StackEntries
<1>2. /\ <<a>> \in Seq(StackEntries) /\ <<a, b>> \in Seq(StackEntries)
      /\ <<a, b, c>> \in Seq(StackEntries) /\ <<a, b, c, d>> \in Seq(StackEntries)
  OBVIOUS
<1>3. QED BY <1>2, PushType

LEMMA RegisterNames ==
    DOMAIN InitialRegisters = {"val", "exp", "argl", "unev", "proc", "env", "cont", "last", "code", "top"}
BY DEF InitialRegisters

LEMMA SaveType ==
    ASSUME NEW r \in Registers, NEW s \in Seq(StackEntries)
    PROVE  save_regs(r, s) \in Seq(StackEntries)
<1>1. /\ r.exp \in Nat /\ r.argl \in Nat /\ r.unev \in Nat /\ r.proc \in Nat /\ r.code \in Nat
      /\ r.top \in Nat /\ r.env \in Nat /\ r.cont \in Nat /\ r.last \in Nat
  BY RegisterNames DEF Registers
<1>2. <<Data(r.exp), Data(r.argl), Data(r.unev), Data(r.proc), Data(r.code), Data(r.top),
        Env(r.env), Cont(r.cont), ArgPointer(r.last)>> \in Seq(StackEntries)
  BY <1>1, EntryTypes
<1>3. QED BY <1>2, PushType DEF save_regs

LEMMA PopIntoType ==
    ASSUME NEW names, DOMAIN names \subseteq Nat \ {0}, NEW r \in Registers, NEW s \in Seq(StackEntries)
    PROVE  PopInto(names, r, s) \in Registers
<1>1. ASSUME NEW n \in DOMAIN InitialRegisters, \E i \in DOMAIN names : names[i] = n
      PROVE  Popped(s, CHOOSE i \in DOMAIN names : names[i] = n) \in Nat
  BY <1>1, PoppedType
<1>2. QED BY <1>1 DEF PopInto, Registers

LEMMA RestoreType ==
    ASSUME NEW r \in Registers, NEW s \in Seq(StackEntries)
    PROVE  restore_regs(r, s) \in Registers
<1>1. DOMAIN Saved \subseteq Nat \ {0}
  BY DEF Saved
<1>2. QED BY <1>1, PopIntoType DEF restore_regs

-----------------------------------------------------------------------------
(* Cells and lists.                                                        *)

LEMMA CellDomain == DOMAIN BadCell = {"type", "text", "num", "car", "cdr", "env"}
BY DEF BadCell, Text

LEMMA TextIsCell ==
    ASSUME NEW type \in Types, NEW text
    PROVE  IsCell(Text(type, text)) /\ Text(type, text).type = type /\ Text(type, text).env = NULL
<1>1. DOMAIN Text(type, text) = DOMAIN BadCell
  BY DEF BadCell, Text
<1>2. QED BY <1>1 DEF Text, IsCell, WILD, NULL

LEMMA PairIsCell ==
    ASSUME NEW a \in Int, NEW d \in Int
    PROVE  /\ IsCell(Pair(a, d)) /\ Pair(a, d).type = "pair" /\ Pair(a, d).env = NULL
           /\ Pair(a, d).car = a /\ Pair(a, d).cdr = d
<1>1. DOMAIN Pair(a, d) = DOMAIN BadCell
  BY DEF BadCell, Text, Pair
<1>2. Pair(a, d) = [Text("pair", "") EXCEPT !.car = a, !.cdr = d]
  BY DEF Pair
<1>3. /\ Pair(a, d).type = "pair" /\ Pair(a, d).text = "" /\ Pair(a, d).env = NULL
      /\ Pair(a, d).car = a /\ Pair(a, d).cdr = d
  BY <1>2 DEF Text
<1>4. "pair" \in Types
  BY DEF Types
<1>5. {Pair(a, d).car, Pair(a, d).cdr} \subseteq Int /\ Pair(a, d).env \in Nat
  BY <1>3 DEF NULL, Pair, Text
<1>6. QED BY <1>1, <1>3, <1>4, <1>5 DEF IsCell

LEMMA CellInType ==
    ASSUME NEW cells, CellsOK(cells), NEW p
    PROVE  IsCell(CellIn(cells, p)) /\ CellIn(cells, p).car \in Nat /\ CellIn(cells, p).cdr \in Nat
<1>1. IsCell(NilCell) /\ NilCell.car \in Nat /\ NilCell.cdr \in Nat
  <2>1. IsCell(Pair(NIL, NIL)) /\ Pair(NIL, NIL).car = NIL /\ Pair(NIL, NIL).cdr = NIL
    BY PairIsCell DEF NIL
  <2>2. NilCell = [Pair(NIL, NIL) EXCEPT !.type = "nil"]
    BY DEF NilCell
  <2>3. DOMAIN NilCell = DOMAIN Pair(NIL, NIL)
    BY <2>2
  <2>4. /\ NilCell.type = "nil" /\ NilCell.text = Pair(NIL, NIL).text
        /\ NilCell.car = NIL /\ NilCell.cdr = NIL /\ NilCell.env = Pair(NIL, NIL).env
    BY <2>1, <2>2, CellDomain DEF IsCell
  <2>5. "nil" \in Types
    BY DEF Types
  <2>6. QED BY <2>1, <2>3, <2>4, <2>5 DEF IsCell, NIL
<1>2. IsCell(TrueCell) /\ TrueCell.car \in Nat /\ TrueCell.cdr \in Nat
  <2>1. "true" \in Types
    BY DEF Types
  <2>2. IsCell(Text("true", ""))
    BY <2>1, TextIsCell
  <2>3. QED BY <2>2 DEF TrueCell, Text, WILD
<1>3. IsCell(BadCell) /\ BadCell.car \in Nat /\ BadCell.cdr \in Nat
  <2>1. "bad" \in Types
    BY DEF Types
  <2>2. IsCell(Text("bad", ""))
    BY <2>1, TextIsCell
  <2>3. QED BY <2>2 DEF BadCell, Text, WILD
<1>4. ASSUME p \in DOMAIN cells
      PROVE  IsCell(cells[p]) /\ cells[p].car \in Nat /\ cells[p].cdr \in Nat
  BY <1>4 DEF CellsOK
<1>5. QED BY <1>1, <1>2, <1>3, <1>4 DEF CellIn

LEMMA CellType ==
    ASSUME MemoryOK, NEW p
    PROVE  IsCell(Cell(p)) /\ Cell(p).car \in Nat /\ Cell(p).cdr \in Nat
BY CellInType DEF Cell, MemoryOK

LEMMA PartsType ==
    ASSUME MemoryOK, NEW p
    PROVE  /\ CAR(p) \in Nat /\ CDR(p) \in Nat /\ Cell(p).env \in Nat
           /\ Cell(p).type \in Types
<1>1. IsCell(Cell(p)) /\ Cell(p).car \in Nat /\ Cell(p).cdr \in Nat
  BY CellType
<1>2. QED BY <1>1 DEF CAR, CDR, IsCell

LEMMA HeapFinite ==
    ASSUME MemoryOK
    PROVE  /\ IsFiniteSet(DOMAIN heap) /\ IsFiniteSet(DOMAIN envs)
           /\ Cardinality(DOMAIN heap) \in Nat
<1>1. DOMAIN heap \subseteq Global .. fresh - 1 /\ DOMAIN envs \subseteq Global .. fresh - 1
  BY DEF MemoryOK, Global, FirstAddress
<1>2. IsFiniteSet(Global .. fresh - 1)
  BY FS_Interval DEF MemoryOK, Global
<1>3. QED BY <1>1, <1>2, FS_Subset, FS_CardinalityType

LEMMA NthCdrType ==
    ASSUME MemoryOK, NEW list \in Nat, NEW n \in Nat
    PROVE  NthCdr(list, n) \in Nat
<1> DEFINE g == [p \in Nat |-> CDR(p)]
           Steps(f) == f = [k \in Nat |-> IF k = 0 THEN list ELSE CDR(f[k - 1])]
<1>1. g \in [Nat -> Nat] /\ \A p \in Nat : g[p] = CDR(p)
  BY PartsType
<1> HIDE DEF g
<1>2. PICK f \in [Nat -> Nat] : Iterates(f, list, g)
  BY <1>1, Iteration
<1>3. Steps(f)
  <2>1. ASSUME NEW k \in Nat, k # 0 PROVE f[k] = CDR(f[k - 1])
    <3>1. k - 1 \in Nat /\ (k - 1) + 1 = k
      BY <2>1
    <3>2. QED BY <3>1, <1>1, <1>2 DEF Iterates
  <2>2. QED BY <2>1, <1>2 DEF Iterates
<1> DEFINE rest == CHOOSE h : Steps(h)
<1>4. Steps(rest)
  BY <1>3
<1> DEFINE N == {k \in Nat : rest[k] \in Nat}
<1> HIDE DEF rest
<1>5. 0 \in N
  BY <1>4
<1>6. ASSUME NEW k \in N PROVE k + 1 \in N
  <2>1. rest[k + 1] = CDR(rest[(k + 1) - 1])
    BY <1>4
  <2>2. QED BY <2>1, PartsType
<1> HIDE DEF N
<1>7. N = Nat
  BY <1>5, <1>6, Induction DEF N
<1>8. rest[n] \in Nat
  BY <1>7 DEF N
<1>9. QED BY <1>8 DEF NthCdr, rest

\* The first of the places with a property.
LEMMA FirstPlace ==
    ASSUME MemoryOK, NEW H \in SUBSET Places, H # {}
    PROVE  \E n \in H : n \in Nat /\ \A k \in 0 .. n - 1 : k \notin H
<1>1. H \in SUBSET Nat
  BY HeapFinite DEF Places
<1>2. PICK n \in H : \A k \in H : n <= k
  BY <1>1, Least
<1>3. QED BY <1>1, <1>2

LEMMA LengthType ==
    ASSUME MemoryOK, NEW list
    PROVE  Length(list) \in Nat
<1>1. Cardinality(DOMAIN heap) \in Nat
  BY HeapFinite
<1>2. CASE \A n \in Places : IsPlace(list, n)
  BY <1>1, <1>2 DEF Length
<1>3. CASE ~ \A n \in Places : IsPlace(list, n)
  <2> DEFINE H == {n \in Places : ~ IsPlace(list, n)}
  <2>1. PICK n \in H : \A k \in 0 .. n - 1 : k \notin H
    BY <1>3, FirstPlace
  <2>2. \A k \in 0 .. n - 1 : k \in Places
    BY <1>1 DEF Places
  <2>3. \A k \in 0 .. n - 1 : IsPlace(list, k)
    BY <2>1, <2>2
  <2>4. Length(list) \in Places
    BY <1>3, <2>1, <2>3 DEF Length
  <2>5. QED BY <2>4, <1>1 DEF Places
<1>4. QED BY <1>2, <1>3

LEMMA ElementsType ==
    ASSUME MemoryOK, NEW list
    PROVE  Elements(list) \in Seq(Nat)
BY LengthType, PartsType DEF Elements

-----------------------------------------------------------------------------
(* Environments.                                                           *)

LEMMA LookupType ==
    ASSUME MemoryOK, NEW name, NEW env
    PROVE  Lookup(name, env) \in Nat
<1>1. ASSUME NEW e, Binds(e, name) PROVE envs[e].bind[name] \in Nat
  BY <1>1 DEF Binds, MemoryOK, EnvironmentsOK, IsEnv
<1>2. QED BY <1>1 DEF Lookup, NULL

LEMMA BindingsType ==
    ASSUME MemoryOK, NEW formals \in Nat, NEW actuals \in Nat, Walkable(formals)
    PROVE  /\ Bindings(formals, actuals) \in [DOMAIN Bindings(formals, actuals) -> Nat]
           /\ IsFiniteSet(DOMAIN Bindings(formals, actuals))
<1> DEFINE First(x) == EndsAt(formals, x) /\ \A k \in 0 .. x - 1 : ~ EndsAt(formals, k)
           n == CHOOSE x \in Places : First(x)
<1>1. n \in Nat
  <2> DEFINE H == {x \in Places : EndsAt(formals, x)}
  <2>1. H # {}
    BY DEF Walkable
  <2>2. PICK x \in H : x \in Nat /\ \A k \in 0 .. x - 1 : k \notin H
    BY <2>1, FirstPlace
  <2>3. \A k \in 0 .. x - 1 : k \in Places
    BY HeapFinite DEF Places
  <2>4. \E y \in Places : First(y)
    BY <2>2, <2>3
  <2>5. n \in Places
    BY <2>4
  <2>6. QED BY <2>5, HeapFinite DEF Places
<1> DEFINE Name(k) == TextOf(Parameter(formals, k))
           Latest(name) == CHOOSE k \in 0 .. n - 1 : Name(k) = name /\ \A i \in k + 1 .. n - 1 : Name(i) # name
           names == {Name(k) : k \in 0 .. n - 1}
           named == [name \in names |-> CAR(NthCdr(actuals, Latest(name)))]
<1> HIDE DEF n
<1>2. IsFiniteSet(names)
  <2> DEFINE naming == [k \in 0 .. n - 1 |-> Name(k)]
  <2>1. IsFiniteSet(0 .. n - 1)
    BY <1>1, FS_Interval
  <2>2. naming \in Surjection(0 .. n - 1, names)
    BY DEF Surjection
  <2>3. QED BY <2>1, <2>2, FS_Surjection
<1>3. named \in [names -> Nat]
  BY PartsType
<1>4. CASE Parameter(formals, n) = NIL
  BY <1>2, <1>3, <1>4 DEF Bindings, n
<1>5. CASE Parameter(formals, n) # NIL
  <2>1. NthCdr(actuals, n) \in Nat
    BY <1>1, NthCdrType
  <2> DEFINE all == With(named, "&rest", NthCdr(actuals, n))
  <2>2. all \in [{"&rest"} \cup names -> Nat]
    BY <2>1, <1>3 DEF With
  <2>3. IsFiniteSet({"&rest"} \cup names)
    BY <1>2, FS_Singleton, FS_Union
  <2>4. Bindings(formals, actuals) = all
    BY <1>5 DEF Bindings, n
  <2> HIDE DEF all
  <2>5. QED BY <2>2, <2>3, <2>4
<1>6. QED BY <1>4, <1>5

-----------------------------------------------------------------------------
(* Allocation.                                                             *)

IsBatch(cells) ==
    /\ Len(cells) \in Nat /\ DOMAIN cells = 1 .. Len(cells)
    /\ \A i \in DOMAIN cells : IsCell(cells[i])

IsResult(o) == IsBatch(o.cells) /\ o.val \in Int

LEMMA AddressType ==
    ASSUME MemoryOK, NEW p \in Int
    PROVE  Address(p) \in Nat
BY DEF MemoryOK, Address, FirstAddress

LEMMA RelocatedType ==
    ASSUME MemoryOK, NEW cells, IsBatch(cells)
    PROVE  /\ DOMAIN Relocated(cells) = fresh .. fresh + Len(cells) - 1
           /\ CellsOK(Relocated(cells))
           /\ \A a \in DOMAIN Relocated(cells) : Relocated(cells)[a].type = cells[a - fresh + 1].type
<1>1. DOMAIN Relocated(cells) = fresh .. fresh + Len(cells) - 1
  BY DEF Relocated
<1>2. ASSUME NEW a \in DOMAIN Relocated(cells)
      PROVE  /\ IsCell(Relocated(cells)[a])
             /\ Relocated(cells)[a].car \in Nat /\ Relocated(cells)[a].cdr \in Nat
             /\ Relocated(cells)[a].type = cells[a - fresh + 1].type
  <2> DEFINE c == cells[a - fresh + 1]
             d == [c EXCEPT !.car = Address(@), !.cdr = Address(@)]
  <2>1. a \in Nat /\ fresh \in Nat /\ a - fresh + 1 \in 1 .. Len(cells)
    BY <1>1 DEF MemoryOK, IsBatch
  <2>2. IsCell(c)
    BY <2>1 DEF IsBatch
  <2>3. Relocated(cells)[a] = d
    BY <1>1 DEF Relocated
  <2> HIDE DEF c
  <2>4. Address(c.car) \in Nat /\ Address(c.cdr) \in Nat
    BY <2>2, AddressType DEF IsCell
  <2>5. DOMAIN d = DOMAIN c /\ d.type = c.type /\ d.env = c.env
    BY <2>2, CellDomain DEF IsCell
  <2>6. d.car = Address(c.car) /\ d.cdr = Address(c.cdr)
    BY <2>2, CellDomain DEF IsCell
  <2> HIDE DEF d
  <2>7. IsCell(d)
    BY <2>2, <2>4, <2>5, <2>6 DEF IsCell
  <2>8. QED BY <2>3, <2>4, <2>5, <2>6, <2>7 DEF c
<1>3. QED BY <1>1, <1>2 DEF CellsOK

LEMMA KeepType ==
    ASSUME NEW f, NEW S
    PROVE  DOMAIN Keep(f, S) = DOMAIN f \cap S /\ \A x \in DOMAIN f \cap S : Keep(f, S)[x] = f[x]
BY DEF Keep, Restrict

LEMMA OverCells ==
    ASSUME NEW f, NEW g, CellsOK(f), CellsOK(g)
    PROVE  CellsOK(Over(f, g)) /\ DOMAIN Over(f, g) = DOMAIN f \cup DOMAIN g
BY DEF CellsOK, Over

LEMMA KeptCells ==
    ASSUME NEW f, NEW S, CellsOK(f)
    PROVE  CellsOK(Keep(f, S))
<1>1. ASSUME NEW a \in DOMAIN Keep(f, S) PROVE a \in DOMAIN f /\ Keep(f, S)[a] = f[a]
  BY KeepType
<1>2. QED BY <1>1 DEF CellsOK

\* What an allocation of one environment leaves of the heap when it collects (j # 0) and when it
\* does not: cells that were there, the code among them.
LEMMA KeptHeap ==
    ASSUME MemoryOK, NEW S, NEW j
    PROVE  LET h == IF j = 0 THEN heap ELSE Keep(heap, S \cup code)
           IN  CellsOK(h) /\ DOMAIN h \subseteq DOMAIN heap /\ code \subseteq DOMAIN h
<1>1. CellsOK(heap) /\ code \subseteq DOMAIN heap
  BY DEF MemoryOK
<1>2. CellsOK(Keep(heap, S \cup code))
  BY <1>1, KeptCells
<1>3. DOMAIN Keep(heap, S \cup code) = DOMAIN heap \cap (S \cup code)
  BY KeepType
<1>4. DOMAIN Keep(heap, S \cup code) \subseteq DOMAIN heap /\ code \subseteq DOMAIN Keep(heap, S \cup code)
  BY <1>1, <1>3
<1>5. QED BY <1>1, <1>2, <1>4

\* The address of the next object is no cell's: a new environment keeps cells and environments apart.
LEMMA FreshApart ==
    ASSUME MemoryOK, NEW S \in SUBSET DOMAIN heap, NEW U \in SUBSET ({fresh} \cup DOMAIN envs)
    PROVE  S \cap U = {}
<1>1. DOMAIN heap \cap DOMAIN envs = {}
  BY DEF MemoryOK
<1>2. fresh \in Nat /\ fresh >= FirstAddress /\ DOMAIN heap \subseteq {Global} \cup FirstAddress .. fresh - 1
  BY DEF MemoryOK
<1>3. fresh \notin DOMAIN heap
  BY <1>2 DEF Global, FirstAddress
<1>4. QED BY <1>1, <1>3

LEMMA HeapAfterType ==
    ASSUME MemoryOK, NEW cells, IsBatch(cells), NEW j \in 0 .. Len(cells), NEW r, NEW s
    PROVE  /\ CellsOK(HeapAfter(cells, j, r, s))
           /\ DOMAIN HeapAfter(cells, j, r, s) \subseteq DOMAIN heap \cup fresh .. fresh + Len(cells) - 1
           /\ code \subseteq DOMAIN HeapAfter(cells, j, r, s)
           /\ IF j = 0 THEN TRUE ELSE fresh + Len(cells) - 1 \in DOMAIN HeapAfter(cells, j, r, s)
<1>1. CellsOK(heap) /\ code \subseteq DOMAIN heap
  BY DEF MemoryOK
<1>2. CASE j = 0
  BY <1>1, <1>2, RelocatedType, OverCells DEF HeapAfter
<1>3. CASE j # 0
  <2> DEFINE made == Keep(Relocated(cells), fresh + j - 1 .. fresh + Len(cells) - 1)
             kept == Keep(heap, Marked(r, s) \cup code)
  <2>1. CellsOK(made) /\ CellsOK(kept)
    BY <1>1, RelocatedType, KeptCells
  <2>2. HeapAfter(cells, j, r, s) = Over(made, kept)
    BY <1>3 DEF HeapAfter
  <2>3. DOMAIN made \subseteq fresh .. fresh + Len(cells) - 1 /\ fresh + Len(cells) - 1 \in DOMAIN made
    <3>1. DOMAIN made = (fresh .. fresh + Len(cells) - 1) \cap (fresh + j - 1 .. fresh + Len(cells) - 1)
      BY RelocatedType, KeepType
    <3>2. QED BY <1>3, <3>1 DEF MemoryOK, IsBatch
  <2>4. DOMAIN kept \subseteq DOMAIN heap /\ code \subseteq DOMAIN kept
    BY <1>1, KeepType
  <2> HIDE DEF made, kept
  <2>5. CellsOK(Over(made, kept)) /\ DOMAIN Over(made, kept) = DOMAIN made \cup DOMAIN kept
    BY <2>1, OverCells
  <2>6. QED BY <2>2, <2>3, <2>4, <2>5
<1>4. QED BY <1>2, <1>3

LEMMA EnvsAfterType ==
    ASSUME MemoryOK, NEW j, NEW r, NEW s
    PROVE  EnvironmentsOK(EnvsAfter(j, r, s)) /\ DOMAIN EnvsAfter(j, r, s) \subseteq DOMAIN envs
<1>1. EnvironmentsOK(envs)
  BY DEF MemoryOK
<1>2. ASSUME NEW e \in DOMAIN Keep(envs, Marked(r, s))
      PROVE  e \in DOMAIN envs /\ Keep(envs, Marked(r, s))[e] = envs[e]
  BY KeepType
<1>3. QED BY <1>1, <1>2 DEF EnvsAfter, EnvironmentsOK

LEMMA MemoryNext ==
    ASSUME MemoryOK,
           CellsOK(heap'), EnvironmentsOK(envs'), DOMAIN heap' \cap DOMAIN envs' = {},
           fresh' \in Nat, fresh <= fresh',
           DOMAIN heap' \cup DOMAIN envs' \subseteq DOMAIN heap \cup DOMAIN envs \cup fresh .. fresh' - 1,
           code' \subseteq DOMAIN heap', have_error' \in BOOLEAN, error_value' \in Nat
    PROVE  MemoryOK'
<1>1. fresh' >= FirstAddress
  BY DEF MemoryOK, FirstAddress
<1>2. ASSUME NEW a \in DOMAIN heap' \cup DOMAIN envs'
      PROVE  a = Global \/ a \in FirstAddress .. fresh' - 1
  BY DEF MemoryOK, FirstAddress
<1>3. QED BY <1>1, <1>2 DEF MemoryOK, CellsOK, EnvironmentsOK

LEMMA MemorySame ==
    ASSUME MemoryOK, UNCHANGED memory
    PROVE  MemoryOK'
BY DEF MemoryOK, CellsOK, EnvironmentsOK, memory

LEMMA CreateType ==
    ASSUME MemoryOK, NEW cells, IsBatch(cells), NEW j \in 0 .. Len(cells), NEW r, NEW s, Create(cells, j, r, s)
    PROVE  MemoryOK'
<1>1. CellsOK(heap') /\ EnvironmentsOK(envs')
  BY HeapAfterType, EnvsAfterType DEF Create, CellsOK, EnvironmentsOK
<1>2. fresh' = fresh + Len(cells) /\ fresh \in Nat /\ Len(cells) \in Nat
  BY DEF Create, Created, MemoryOK, IsBatch
<1>3. /\ DOMAIN heap' \subseteq DOMAIN heap \cup fresh .. fresh + Len(cells) - 1
      /\ DOMAIN envs' \subseteq DOMAIN envs
  BY HeapAfterType, EnvsAfterType DEF Create
<1>4. DOMAIN heap' \cap DOMAIN envs' = {}
  BY <1>2, <1>3 DEF MemoryOK, Global, FirstAddress
<1>5. code' \subseteq DOMAIN heap'
  BY HeapAfterType DEF Create, Created
<1>6. have_error' \in BOOLEAN
  BY DEF Create, Created, MemoryOK
<1>7. error_value' \in Nat
  BY <1>2 DEF Create, Created, MemoryOK
<1>8. QED BY <1>1, <1>2, <1>3, <1>4, <1>5, <1>6, <1>7, MemoryNext

-----------------------------------------------------------------------------
(* What functions return.                                                  *)

LEMMA CellTypes ==
    /\ \A text : IsCell(Error(text))
    /\ \A n : IsCell(Number(n))
    /\ \A a, d \in Int, e \in Nat : IsCell(Procedure(a, d, e))
    /\ \A a, d \in Int : IsCell(Macro(a, d))
<1>1. ASSUME NEW text PROVE IsCell(Error(text))
  <2>1. "error" \in Types
    BY DEF Types
  <2>2. QED BY <2>1, TextIsCell DEF Error
<1>2. ASSUME NEW n PROVE IsCell(Number(n))
  <2> DEFINE t == Text("number", "")
             c == [t EXCEPT !.num = n]
  <2>1. "number" \in Types
    BY DEF Types
  <2>2. IsCell(t)
    BY <2>1, TextIsCell
  <2> HIDE DEF t
  <2>3. DOMAIN c = DOMAIN t /\ c.type = t.type /\ c.car = t.car /\ c.cdr = t.cdr /\ c.env = t.env
    BY <2>2, CellDomain DEF IsCell
  <2> HIDE DEF c
  <2>4. IsCell(c)
    BY <2>2, <2>3 DEF IsCell
  <2>5. QED BY <2>4 DEF Number, c, t
<1>3. ASSUME NEW a \in Int, NEW d \in Int, NEW e \in Nat PROVE IsCell(Procedure(a, d, e))
  <2> DEFINE c == [Pair(a, d) EXCEPT !.type = "procedure", !.env = e]
  <2>1. IsCell(Pair(a, d)) /\ "procedure" \in Types
    BY PairIsCell DEF Types
  <2>2. DOMAIN c = DOMAIN BadCell
    BY <2>1 DEF IsCell
  <2>3. c.type = "procedure" /\ c.car = Pair(a, d).car /\ c.cdr = Pair(a, d).cdr /\ c.env = e
    BY <2>1, CellDomain DEF IsCell
  <2> HIDE DEF c
  <2>4. IsCell(c)
    BY <2>1, <2>2, <2>3 DEF IsCell
  <2>5. QED BY <2>4 DEF Procedure, c
<1>4. ASSUME NEW a \in Int, NEW d \in Int PROVE IsCell(Macro(a, d))
  <2> DEFINE c == [Pair(a, d) EXCEPT !.type = "macro"]
  <2>1. IsCell(Pair(a, d)) /\ "macro" \in Types
    BY PairIsCell DEF Types
  <2>2. DOMAIN c = DOMAIN BadCell
    BY <2>1 DEF IsCell
  <2>3. /\ c.type = "macro" /\ c.car = Pair(a, d).car /\ c.cdr = Pair(a, d).cdr
        /\ c.env = Pair(a, d).env
    BY <2>1, CellDomain DEF IsCell
  <2> HIDE DEF c
  <2>4. IsCell(c)
    BY <2>1, <2>2, <2>3 DEF IsCell
  <2>5. QED BY <2>4 DEF Macro, c
<1>5. QED BY <1>1, <1>2, <1>3, <1>4

LEMMA OneCell ==
    ASSUME NEW c, IsCell(c)
    PROVE  IsBatch(<<c>>)
BY DEF IsBatch

LEMMA ReturnsType ==
    ASSUME NEW p \in Int
    PROVE  IsResult(Returns(p))
BY DEF IsResult, IsBatch, Returns

LEMMA CreatesType ==
    ASSUME NEW c, IsCell(c)
    PROVE  IsResult(Creates(c))
BY OneCell DEF IsResult, Creates

LEMMA ErrorResult ==
    \A text : IsResult(Creates(Error(text)))
BY CellTypes, CreatesType

LEMMA TruthType ==
    ASSUME NEW b
    PROVE  IsResult(Truth(b))
<1>1. (IF b THEN T ELSE NIL) \in Int
  BY DEF T, NIL
<1>2. QED BY <1>1, ReturnsType DEF Truth

LEMMA LookupResult ==
    ASSUME MemoryOK, NEW p \in Nat, NEW env
    PROVE  IsResult(lookup_variable_value(p, env))
<1>1. Lookup(TextOf(p), env) \in Int /\ p \in Int
  BY LookupType
<1>2. QED BY <1>1, ReturnsType, ErrorResult DEF lookup_variable_value

LEMMA ListResult ==
    ASSUME NEW a \in Seq(Nat)
    PROVE  IsResult(list_func(a))
<1> DEFINE cells == [i \in 1 .. Len(a) + 1 |->
                        IF i = Len(a) + 1 THEN Pair(NIL, NIL)
                        ELSE Pair(a[i], IF i = Len(a) THEN NIL ELSE -(i + 1))]
<1>1. Len(cells) = Len(a) + 1 /\ DOMAIN cells = 1 .. Len(a) + 1
  OBVIOUS
<1>2. ASSUME NEW i \in 1 .. Len(a) + 1 PROVE IsCell(cells[i])
  <2>1. CASE i = Len(a) + 1
    BY <2>1, PairIsCell DEF NIL
  <2>2. CASE i # Len(a) + 1
    <3>1. a[i] \in Int /\ (IF i = Len(a) THEN NIL ELSE -(i + 1)) \in Int
      BY <2>2 DEF NIL
    <3>2. QED BY <2>2, <3>1, PairIsCell
  <2>3. QED BY <2>1, <2>2
<1>3. list_func(a).cells = cells /\ list_func(a).val = -1
  BY DEF list_func
<1> HIDE DEF cells
<1>4. QED BY <1>1, <1>2, <1>3 DEF IsResult, IsBatch

LEMMA ArithmeticResult ==
    ASSUME NEW name, NEW a
    PROVE  IsResult(Arithmetic(name, a))
<1>1. IsResult(Returns(WILD))
  BY ReturnsType DEF WILD
<1>2. ASSUME NEW n PROVE IsResult(Creates(Number(n)))
  BY CellTypes, CreatesType
<1>3. QED BY <1>1, <1>2, TruthType DEF Arithmetic

LEMMA EqualsResult ==
    ASSUME NEW x, NEW y
    PROVE  IsResult(equals_func(x, y))
BY TruthType, ErrorResult DEF equals_func

LEMMA PrimitiveResult ==
    ASSUME MemoryOK, NEW name, NEW argl
    PROVE  IsResult(proc_prim(name, argl))
<1> DEFINE a == Elements(argl)
           true == {i \in DOMAIN a : a[i] # NIL}
<1>1. a \in Seq(Nat)
  BY ElementsType
<1>2. \A text : IsResult(Creates(Error(text)))
  BY ErrorResult
<1>3. IsResult(list_func(a))
  BY <1>1, ListResult
<1>4. IsResult(Returns(CAR(a[1]))) /\ IsResult(Returns(CDR(a[1])))
  BY PartsType, ReturnsType
<1>5. ASSUME Len(a) >= 2
      PROVE  IsResult(Creates(Pair(a[1], a[2])))
  <2>1. a[1] \in Int /\ a[2] \in Int
    BY <1>1, <1>5
  <2>2. QED BY <2>1, PairIsCell, CreatesType
<1>6. ASSUME Len(a) >= 1
      PROVE  IsResult(Returns(IF true = {} THEN NIL ELSE a[CHOOSE i \in true : \A k \in true : i <= k]))
  <2>1. CASE true = {}
    BY <2>1, ReturnsType DEF NIL
  <2>2. CASE true # {}
    <3>1. \E i \in true : \A k \in true : i <= k
      <4>1. true \in SUBSET Nat
        BY <1>1
      <4>2. QED BY <2>2, <4>1, Least
    <3>2. (CHOOSE i \in true : \A k \in true : i <= k) \in DOMAIN a
      BY <3>1
    <3>3. a[CHOOSE i \in true : \A k \in true : i <= k] \in Int
      BY <1>1, <3>2
    <3>4. QED BY <2>2, <3>3, ReturnsType
  <2>3. QED BY <2>1, <2>2
<1>7. ASSUME Len(a) >= 1
      PROVE  IsResult(Returns(IF true = DOMAIN a THEN a[Len(a)] ELSE NIL))
  <2>1. a[Len(a)] \in Int /\ NIL \in Int
    BY <1>1, <1>7 DEF NIL
  <2>2. QED BY <2>1, ReturnsType
<1>8. IsResult(Truth(a[1] = NIL)) /\ IsResult(equals_func(a[1], a[2])) /\ IsResult(Arithmetic(name, a))
  BY TruthType, EqualsResult, ArithmeticResult
<1>9. ASSUME ArityOK(name, Len(a)) PROVE /\ name \in {"or", "and"} => Len(a) >= 1
                                         /\ name = "push" => Len(a) >= 2
  BY <1>9 DEF ArityOK
<1>10. Len(a) \in Nat
  BY <1>1
<1> HIDE DEF a, true
<1>11. CASE ArityOK(name, Len(a)) /\ name \in {"list", "first", "rest", "push"}
  BY <1>2, <1>3, <1>4, <1>5, <1>9, <1>10, <1>11 DEF proc_prim, a, true
<1>12. CASE ArityOK(name, Len(a)) /\ name \in {"or", "and"}
  BY <1>6, <1>7, <1>9, <1>10, <1>12 DEF proc_prim, a, true
<1>13. CASE ArityOK(name, Len(a)) /\ name \notin {"list", "first", "rest", "push", "or", "and"}
  BY <1>2, <1>8, <1>10, <1>13 DEF proc_prim, a, true
<1>14. CASE ~ ArityOK(name, Len(a))
  BY <1>2, <1>14 DEF proc_prim, a, true
<1>15. QED BY <1>11, <1>12, <1>13, <1>14

-----------------------------------------------------------------------------
(* The steps of the evaluator.                                             *)

CoreOK ==
    /\ pc \in Labels /\ reg \in Registers /\ stack \in Seq(StackEntries)
    /\ MemoryOK /\ CallsOK

LEMMA RegisterTypes ==
    ASSUME NEW r \in Registers
    PROVE  /\ r.val \in Nat /\ r.exp \in Nat /\ r.argl \in Nat /\ r.unev \in Nat /\ r.proc \in Nat
           /\ r.env \in Nat /\ r.cont \in Nat /\ r.last \in Nat /\ r.code \in Nat /\ r.top \in Nat
BY RegisterNames DEF Registers

\* A register of r is given a value.
LEMMA Assign ==
    ASSUME NEW r \in Registers, NEW n, NEW v \in Nat
    PROVE  [r EXCEPT ![n] = v] \in Registers
BY DEF Registers

LEMMA CallsSame ==
    ASSUME CallsOK, pc # "host", pc' # "host", UNCHANGED host
    PROVE  CallsOK'
BY DEF CallsOK, host

LEMMA MoveType ==
    ASSUME CoreOK, pc # "host", NEW label \in Labels \ {"host"},
           NEW r \in Registers, NEW s \in Seq(StackEntries),
           To(label, r, s), UNCHANGED <<memory, host>>
    PROVE  CoreOK'
<1>1. MemoryOK'
  BY MemorySame DEF CoreOK
<1>2. CallsOK'
  BY CallsSame DEF CoreOK, To
<1>3. QED BY <1>1, <1>2 DEF CoreOK, To

LEMMA CollectionsType ==
    ASSUME NEW cells, NEW r, NEW s, NEW j \in Collections(cells, r, s), IsBatch(cells)
    PROVE  j \in 0 .. Len(cells)
BY DEF Collections, IsBatch

LEMMA DeliverType ==
    ASSUME CoreOK, pc # "host", NEW outcome, IsResult(outcome), NEW label \in Labels \ {"host"},
           NEW r \in Registers, NEW s \in Seq(StackEntries), Deliver(outcome, label, r, s)
    PROVE  CoreOK'
<1>1. PICK j \in Collections(outcome.cells, r, s) :
         /\ Create(outcome.cells, j, r, s)
         /\ To(label, [r EXCEPT !.val = Address(outcome.val)], s)
  BY DEF Deliver
<1>2. j \in 0 .. Len(outcome.cells) /\ IsBatch(outcome.cells)
  BY CollectionsType DEF IsResult
<1>3. MemoryOK /\ MemoryOK'
  BY <1>1, <1>2, CreateType DEF CoreOK
<1>4. [r EXCEPT !.val = Address(outcome.val)] \in Registers
  BY <1>3, AddressType, Assign DEF IsResult
<1>5. UNCHANGED host
  BY <1>1 DEF Create, Created
<1>6. CallsOK'
  BY <1>1, <1>5, CallsSame DEF CoreOK, To
<1>7. QED BY <1>1, <1>3, <1>4, <1>6 DEF CoreOK, To

LEMMA BindType ==
    ASSUME NEW environments, EnvironmentsOK(environments), NEW e, NEW name, NEW p \in Nat
    PROVE  EnvironmentsOK(Bind(environments, e, name, p)) /\ DOMAIN Bind(environments, e, name, p) = DOMAIN environments
<1> DEFINE bound == Bind(environments, e, name, p)
<1>1. DOMAIN bound = DOMAIN environments
  BY DEF Bind
<1>2. ASSUME NEW x \in DOMAIN environments PROVE IsEnv(bound[x])
  <2>1. IsEnv(environments[x])
    BY DEF EnvironmentsOK
  <2>2. CASE x # e
    BY <2>1, <2>2 DEF Bind
  <2>3. CASE x = e
    <3> DEFINE old == environments[x]
               new == [old EXCEPT !.bind = With(@, name, p)]
    <3>1. bound[x] = new
      BY <2>3 DEF Bind
    <3> HIDE DEF old
    <3>2. DOMAIN new = {"parent", "bind"} /\ new.parent = old.parent /\ new.bind = With(old.bind, name, p)
      BY <2>1 DEF IsEnv, old
    <3>3. DOMAIN With(old.bind, name, p) = {name} \cup DOMAIN old.bind
      BY DEF With
    <3>4. IsFiniteSet({name} \cup DOMAIN old.bind)
      BY <2>1, FS_Singleton, FS_Union DEF IsEnv, old
    <3>5. With(old.bind, name, p) \in [{name} \cup DOMAIN old.bind -> Nat]
      BY <2>1 DEF With, IsEnv, old
    <3> HIDE DEF new
    <3>6. IsEnv(new)
      BY <2>1, <3>2, <3>3, <3>4, <3>5 DEF IsEnv, old
    <3>7. QED BY <3>1, <3>6
  <2>4. QED BY <2>2, <2>3
<1>3. QED BY <1>1, <1>2 DEF EnvironmentsOK

LEMMA ExtendType ==
    ASSUME CoreOK, pc # "host", NEW body \in Nat, NEW r \in Registers, NEW s \in Seq(StackEntries),
           ExtendEnvironment(body, r, s)
    PROVE  CoreOK'
<1>1. PICK j \in Collections(<<BadCell>>, r, s) :
         /\ envs' = With(EnvsAfter(j, r, s), fresh, [parent |-> r.env, bind |-> Bindings(r.unev, r.argl)])
         /\ heap' = IF j = 0 THEN heap ELSE Keep(heap, Marked(r, s) \cup code)
  BY DEF ExtendEnvironment
<1>2. MemoryOK
  BY DEF CoreOK
<1>3. IsEnv([parent |-> r.env, bind |-> Bindings(r.unev, r.argl)])
  BY <1>2, BindingsType, RegisterTypes DEF IsEnv, ExtendEnvironment
<1>4. EnvironmentsOK(envs') /\ DOMAIN envs' \subseteq {fresh} \cup DOMAIN envs
  <2>1. EnvironmentsOK(EnvsAfter(j, r, s)) /\ DOMAIN EnvsAfter(j, r, s) \subseteq DOMAIN envs
    BY <1>2, EnvsAfterType
  <2>2. ASSUME NEW x \in DOMAIN envs' PROVE IsEnv(envs'[x]) /\ x \in {fresh} \cup DOMAIN envs
    BY <1>1, <1>3, <2>1, <2>2 DEF EnvironmentsOK, With
  <2>3. QED BY <2>2 DEF EnvironmentsOK
<1>5. CellsOK(heap') /\ DOMAIN heap' \subseteq DOMAIN heap /\ code \subseteq DOMAIN heap'
  BY <1>1, <1>2, KeptHeap
<1>6. fresh' = fresh + 1 /\ UNCHANGED <<code, have_error, error_value, host>>
  BY DEF ExtendEnvironment
<1>7. DOMAIN heap' \cap DOMAIN envs' = {}
  BY <1>2, <1>4, <1>5, FreshApart
<1>8. DOMAIN heap' \cup DOMAIN envs' \subseteq DOMAIN heap \cup DOMAIN envs \cup fresh .. fresh' - 1
  BY <1>2, <1>4, <1>5, <1>6 DEF MemoryOK
<1>9. MemoryOK'
  BY <1>2, <1>4, <1>5, <1>6, <1>7, <1>8, MemoryNext DEF MemoryOK
<1>10. [r EXCEPT !.env = fresh, !.unev = body] \in Registers
  BY <1>2 DEF MemoryOK, Registers
<1>11. pc' = "sequence" /\ reg' = [r EXCEPT !.env = fresh, !.unev = body] /\ stack' = s
  BY DEF ExtendEnvironment, To
<1>12. CallsOK'
  BY <1>6, <1>11, CallsSame DEF CoreOK
<1>13. "sequence" \in Labels
  BY DEF Labels
<1>14. QED BY <1>9, <1>10, <1>11, <1>12, <1>13 DEF CoreOK

LEMMA EnterType ==
    ASSUME CoreOK, GlobalEnv \in Nat, NEW program, IsResult(program),
           NEW caller \in Callers, caller = "host" <=> pc = "host",
           NEW r \in Registers, NEW s \in Seq(StackEntries), Enter(program, caller, r, s),
           asked' \in 0 .. Len(script'.programs)
    PROVE  CoreOK'
<1>1. stack' \in Seq(StackEntries)
  BY SaveType DEF Enter
<1>2. pc' \in Labels \ {"host"}
  BY DEF Enter, Labels
<1>3. CallsOK'
  <2>1. calls' = <<caller>> \o calls /\ calls \in Seq(Callers)
    BY DEF Enter, CoreOK, CallsOK
  <2>2. calls' \in Seq(Callers) /\ Len(calls') = Len(calls) + 1 /\ calls'[1] = caller
    BY <2>1
  <2>3. \A i \in 1 .. Len(calls) : calls'[i + 1] = calls[i]
    BY <2>1
  <2>4. ASSUME NEW i \in DOMAIN calls' PROVE calls'[i] = "host" <=> i = Len(calls')
    <3>1. CASE i = 1
      <4>1. caller = "host" <=> Len(calls) = 0
        BY <2>1 DEF CoreOK, CallsOK
      <4>2. QED BY <3>1, <4>1, <2>1, <2>2
    <3>2. CASE i > 1
      <4>1. i - 1 \in 1 .. Len(calls) /\ i = (i - 1) + 1
        BY <2>1, <2>2, <3>2
      <4>2. calls'[i] = calls[i - 1]
        BY <4>1, <2>3
      <4>3. calls[i - 1] = "host" <=> i - 1 = Len(calls)
        BY <4>1, <2>1 DEF CoreOK, CallsOK
      <4>4. QED BY <2>1, <2>2, <4>1, <4>2, <4>3
    <3>3. QED BY <2>2, <3>1, <3>2
  <2>5. QED BY <1>2, <2>2, <2>4, <2>1 DEF CallsOK
<1>4. MemoryOK
  BY DEF CoreOK
<1>5. CASE program.val = NULL
  <2>1. reg' \in Registers
    BY <1>5 DEF Enter, JUMP_CODE, Registers
  <2>2. MemoryOK'
    BY <1>4, <1>5, MemorySame DEF Enter
  <2>3. QED BY <1>1, <1>2, <1>3, <2>1, <2>2 DEF CoreOK
<1>6. CASE program.val # NULL
  <2> DEFINE top == Address(program.val)
             cells == program.cells
  <2>1. top \in Nat /\ IsBatch(cells)
    BY <1>4, AddressType DEF IsResult
  <2>2. /\ heap' = Over(Relocated(cells), heap) /\ code' = code \cup DOMAIN Relocated(cells)
        /\ fresh' = fresh + Len(cells) /\ UNCHANGED <<envs, have_error, error_value>>
    BY <1>6 DEF Enter
  <2>3. reg' = [r EXCEPT !.cont = JUMP_CODE, !.code = top, !.top = top, !.exp = top, !.env = GlobalEnv]
    BY <1>6 DEF Enter
  <2> HIDE DEF top, cells
  <2>4. reg' \in Registers
    BY <2>1, <2>3 DEF Registers, JUMP_CODE
  <2>5. CellsOK(heap') /\ DOMAIN heap' = DOMAIN Relocated(cells) \cup DOMAIN heap
    BY <1>4, <2>1, <2>2, RelocatedType, OverCells DEF MemoryOK
  <2>6. DOMAIN Relocated(cells) = fresh .. fresh + Len(cells) - 1
    BY <1>4, <2>1, RelocatedType
  <2>7. fresh \in Nat /\ Len(cells) \in Nat
    BY <1>4, <2>1 DEF MemoryOK, IsBatch
  <2>8. DOMAIN heap' \cap DOMAIN envs' = {}
    BY <1>4, <2>2, <2>5, <2>6, <2>7 DEF MemoryOK, Global, FirstAddress
  <2>9. DOMAIN heap' \cup DOMAIN envs' \subseteq DOMAIN heap \cup DOMAIN envs \cup fresh .. fresh' - 1
    BY <2>2, <2>5, <2>6, <2>7
  <2>10. code' \subseteq DOMAIN heap'
    BY <1>4, <2>2, <2>5 DEF MemoryOK
  <2>11. EnvironmentsOK(envs') /\ have_error' \in BOOLEAN /\ error_value' \in Nat
    BY <1>4, <2>2 DEF MemoryOK, EnvironmentsOK
  <2>12. fresh' \in Nat /\ fresh <= fresh'
    BY <2>2, <2>7
  <2>13. MemoryOK'
    BY <1>4, <2>5, <2>8, <2>9, <2>10, <2>11, <2>12, MemoryNext
  <2>14. QED BY <1>1, <1>2, <1>3, <2>4, <2>13 DEF CoreOK
<1>7. QED BY <1>5, <1>6

LEMMA ResultPlace ==
    ASSUME NEW o, IsOutcome(o), o.val < 0
    PROVE  -o.val \in DOMAIN o.cells
<1>1. o.val \in Int /\ -o.val <= Len(o.cells) /\ Len(o.cells) \in Nat /\ DOMAIN o.cells = 1 .. Len(o.cells)
  BY DEF IsOutcome
<1>2. QED BY <1>1

LEMMA OutcomeResult ==
    ASSUME NEW o, IsOutcome(o)
    PROVE  IsResult(o)
BY DEF IsOutcome, IsResult, IsBatch

LEMMA NestedType ==
    ASSUME CoreOK, GlobalEnv \in Nat, pc # "host", NEW text \in DOMAIN Image, NEW caller \in Callers \ {"host"},
           NEW r \in Registers, NEW s \in Seq(StackEntries), Nested(text, caller, r, s)
    PROVE  CoreOK'
<1>1. IsResult(Image[text])
  BY EvaluatorAssumption, OutcomeResult
<1>2. [r EXCEPT !.cont = JUMP_CODE] \in Registers /\ save_regs(r, s) \in Seq(StackEntries)
  BY SaveType, Assign DEF JUMP_CODE
<1>3. asked' \in 0 .. Len(script'.programs)
  BY DEF Nested, CoreOK, CallsOK
<1>4. Enter(Image[text], caller, [r EXCEPT !.cont = JUMP_CODE], save_regs(r, s))
  BY DEF Nested
<1>5. QED BY <1>1, <1>2, <1>3, <1>4, EnterType

LEMMA EvalOnStringType ==
    ASSUME CoreOK, GlobalEnv \in Nat, pc # "host", NEW p,
           NEW r \in Registers, NEW s \in Seq(StackEntries), run_eval_on_string(p, r, s)
    PROVE  CoreOK'
<1>1. CASE TextOf(p) \in DOMAIN Image
  BY <1>1, NestedType DEF run_eval_on_string, Callers
<1>2. CASE TextOf(p) \notin DOMAIN Image
  BY <1>2, DeliverType, ErrorResult DEF run_eval_on_string, Labels
<1>3. QED BY <1>1, <1>2

LEMMA EvalOnFileType ==
    ASSUME CoreOK, GlobalEnv \in Nat, pc # "host", NEW name, NEW caller \in {"import", "import_aux"},
           NEW r \in Registers, NEW s \in Seq(StackEntries), run_eval_on_file(name, caller, r, s)
    PROVE  CoreOK'
<1>1. CASE name \in Files \cap DOMAIN Image
  BY <1>1, NestedType DEF run_eval_on_file, Callers
<1>2. CASE name \notin Files \cap DOMAIN Image
  <2> DEFINE r2 == IF caller = "import_aux" THEN [r EXCEPT !.cont = Popped(s, 1)] ELSE r
             s2 == IF caller = "import_aux" THEN Pop(s, 1) ELSE s
  <2>1. Deliver(Creates(Error("problem with file")), "continue", r2, s2)
    BY <1>2 DEF run_eval_on_file
  <2>2. r2 \in Registers /\ s2 \in Seq(StackEntries)
    <3>1. Popped(s, 1) \in Nat /\ Pop(s, 1) \in Seq(StackEntries)
      BY PoppedType, PopType
    <3>2. QED BY <3>1, Assign
  <2> HIDE DEF r2, s2
  <2>3. QED BY <2>1, <2>2, DeliverType, ErrorResult DEF Labels
<1>3. QED BY <1>1, <1>2

LEMMA NamedCodeType ==
    ASSUME CoreOK, pc # "host", NEW cell, IsCell(cell), NamedCode(cell)
    PROVE  CoreOK'
<1> DEFINE name == CAR(CADR(reg.exp))
           r == [reg EXCEPT !.unev = CDR(CADR(reg.exp))]
           cells == <<cell>>
<1>1. PICK j \in Collections(cells, r, stack) :
         /\ heap' = HeapAfter(cells, j, r, stack)
         /\ envs' = Bind(EnvsAfter(j, r, stack), reg.env, TextOf(name), fresh)
         /\ Created(cells)
  BY DEF NamedCode
<1>2. MemoryOK /\ fresh \in Nat
  BY DEF CoreOK, MemoryOK
<1>3. IsBatch(cells) /\ j \in 0 .. Len(cells) /\ Len(cells) = 1
  BY OneCell, CollectionsType
<1>4. name \in Nat /\ T \in Nat
  BY <1>2, PartsType DEF T
<1>5. reg' = [reg EXCEPT !.unev = name, !.val = T] /\ pc' = "continue" /\ stack' = stack
  BY DEF NamedCode, To
<1> HIDE DEF r, cells, name
<1>6. /\ CellsOK(heap') /\ code \subseteq DOMAIN heap'
      /\ DOMAIN heap' \subseteq DOMAIN heap \cup fresh .. fresh + Len(cells) - 1
  BY <1>1, <1>2, <1>3, HeapAfterType
<1>7. EnvironmentsOK(envs') /\ DOMAIN envs' \subseteq DOMAIN envs
  BY <1>1, <1>2, EnvsAfterType, BindType
<1>8. fresh' = fresh + 1 /\ UNCHANGED <<code, host>>
  BY <1>1, <1>3 DEF Created
<1>9. have_error' \in BOOLEAN /\ error_value' \in Nat
  BY <1>1, <1>2 DEF Created, MemoryOK
<1>10. DOMAIN heap' \cap DOMAIN envs' = {}
  BY <1>2, <1>3, <1>6, <1>7 DEF MemoryOK, Global, FirstAddress
<1>11. MemoryOK'
  BY <1>2, <1>3, <1>6, <1>7, <1>8, <1>9, <1>10, MemoryNext
<1>12. reg' \in Registers
  BY <1>4, <1>5 DEF CoreOK, Registers
<1>13. CallsOK'
  BY <1>5, <1>8, CallsSame DEF CoreOK
<1>14. "continue" \in Labels
  BY DEF Labels
<1>15. QED BY <1>5, <1>11, <1>12, <1>13, <1>14 DEF CoreOK

LEMMA UnwoundType ==
    ASSUME reg \in Registers, stack \in Seq(StackEntries)
    PROVE  Unwound \in Registers /\ Rest \in Seq(StackEntries)
<1>1. DOMAIN Pops(pc) \subseteq Nat \ {0} /\ Len(Pops(pc)) \in Nat
  <2>1. DOMAIN PopTable = {"if_decide", "assignment_1", "definition_1", "did_operator",
                           "accumulate_arg", "accum_last_arg", "sequence_continue", "macro_finish"}
    BY DEF PopTable
  <2>2. QED BY <2>1 DEF Pops, PopTable
<1>2. QED BY <1>1, PopIntoType, PopType DEF Unwound, Rest

LEMMA LinkedCells ==
    ASSUME NEW cells, CellsOK(cells), NEW a, NEW d \in Nat
    PROVE  /\ CellsOK([cells EXCEPT ![a].cdr = d])
           /\ DOMAIN [cells EXCEPT ![a].cdr = d] = DOMAIN cells
<1> DEFINE linked == [cells EXCEPT ![a].cdr = d]
<1>1. ASSUME NEW x \in DOMAIN cells
      PROVE  IsCell(linked[x]) /\ linked[x].car \in Nat /\ linked[x].cdr \in Nat
  <2>1. CASE x # a
    BY <2>1 DEF CellsOK
  <2>2. CASE x = a
    <3> DEFINE c == cells[x]
               e == [c EXCEPT !.cdr = d]
    <3>1. linked[x] = e /\ IsCell(c) /\ c.car \in Nat
      BY <2>2 DEF CellsOK
    <3> HIDE DEF c
    <3>2. DOMAIN e = DOMAIN c /\ e.type = c.type /\ e.env = c.env /\ e.car = c.car /\ e.cdr = d
      BY <3>1, CellDomain DEF IsCell
    <3> HIDE DEF e
    <3>3. IsCell(e)
      BY <3>1, <3>2 DEF IsCell
    <3>4. QED BY <3>1, <3>2, <3>3
  <2>3. QED BY <2>1, <2>2
<1>2. QED BY <1>1 DEF CellsOK

LEMMA StoreType ==
    ASSUME CoreOK, pc # "host", NEW e, Store(e)
    PROVE  CoreOK'
<1>1. Unwound \in Registers /\ Rest \in Seq(StackEntries)
  BY UnwoundType DEF CoreOK
<1>2. MemoryOK /\ reg.val \in Nat
  BY RegisterTypes DEF CoreOK
<1>3. EnvironmentsOK(envs') /\ DOMAIN envs' = DOMAIN envs
  BY <1>2, BindType DEF Store, MemoryOK
<1>4. UNCHANGED <<heap, code, fresh, have_error, error_value, host>>
  BY DEF Store
<1>5. MemoryOK'
  BY <1>2, <1>3, <1>4, MemoryNext DEF MemoryOK
<1>6. reg' \in Registers /\ stack' \in Seq(StackEntries) /\ pc' = "continue"
  BY <1>1 DEF Store, To, Registers, T
<1>7. CallsOK'
  BY <1>4, <1>6, CallsSame DEF CoreOK
<1>8. QED BY <1>5, <1>6, <1>7 DEF CoreOK, Labels

LEMMA AppendType ==
    ASSUME CoreOK, pc # "host", NEW label \in Labels \ {"host"},
           NEW r \in Registers, NEW s \in Seq(StackEntries), NEW r2 \in Registers, NEW s2 \in Seq(StackEntries),
           AppendToLast(label, r, s, r2, s2)
    PROVE  CoreOK'
<1> DEFINE cells == <<Pair(r.val, NIL)>>
<1>1. PICK j \in Collections(cells, r, s) :
         /\ heap' = IF r.last = NULL THEN HeapAfter(cells, j, r, s)
                    ELSE [HeapAfter(cells, j, r, s) EXCEPT ![r.last].cdr = fresh]
         /\ envs' = EnvsAfter(j, r, s)
         /\ Created(cells)
         /\ To(label, [r2 EXCEPT !.last = fresh, !.argl = IF r.last = NULL THEN fresh ELSE @], s2)
  BY DEF AppendToLast
<1>2. MemoryOK /\ fresh \in Nat
  BY DEF CoreOK, MemoryOK
<1>3. IsBatch(cells) /\ j \in 0 .. Len(cells) /\ Len(cells) = 1
  <2>1. r.val \in Int /\ NIL \in Int
    BY RegisterTypes DEF NIL
  <2>2. IsBatch(cells)
    BY <2>1, PairIsCell, OneCell
  <2>3. QED BY <2>2, CollectionsType
<1> DEFINE after == HeapAfter(cells, j, r, s)
<1>4. /\ CellsOK(after) /\ code \subseteq DOMAIN after
      /\ DOMAIN after \subseteq DOMAIN heap \cup fresh .. fresh + Len(cells) - 1
  BY <1>2, <1>3, HeapAfterType
<1>5. EnvironmentsOK(envs') /\ DOMAIN envs' \subseteq DOMAIN envs
  BY <1>1, <1>2, EnvsAfterType
<1>6. fresh' = fresh + 1 /\ UNCHANGED <<code, host>> /\ have_error' \in BOOLEAN /\ error_value' \in Nat
  BY <1>1, <1>2, <1>3 DEF Created, MemoryOK
<1> HIDE DEF after, cells
<1>7. CellsOK(heap') /\ DOMAIN heap' = DOMAIN after
  <2>1. CASE r.last = NULL
    BY <1>1, <1>4, <2>1 DEF after
  <2>2. CASE r.last # NULL
    <3>1. heap' = [after EXCEPT ![r.last].cdr = fresh]
      BY <1>1, <2>2 DEF after
    <3>2. QED BY <1>2, <1>4, <3>1, LinkedCells
  <2>3. QED BY <2>1, <2>2
<1>8. DOMAIN heap' \cap DOMAIN envs' = {}
  BY <1>2, <1>3, <1>4, <1>5, <1>7 DEF MemoryOK, Global, FirstAddress
<1>9. MemoryOK'
  BY <1>2, <1>3, <1>4, <1>5, <1>6, <1>7, <1>8, MemoryNext
<1>10. reg' \in Registers
  BY <1>1, <1>2 DEF To, Registers
<1>11. CallsOK'
  BY <1>1, <1>6, CallsSame DEF CoreOK, To
<1>12. QED BY <1>1, <1>9, <1>10, <1>11 DEF CoreOK, To

\* What every action below finds.
Ready == CoreOK /\ GlobalEnv \in Nat

LEMMA ReadyTypes ==
    ASSUME Ready
    PROVE  /\ reg \in Registers /\ stack \in Seq(StackEntries) /\ MemoryOK
           /\ reg.val \in Nat /\ reg.exp \in Nat /\ reg.argl \in Nat /\ reg.unev \in Nat /\ reg.proc \in Nat
           /\ reg.env \in Nat /\ reg.cont \in Nat /\ reg.last \in Nat
           /\ \A p : CAR(p) \in Nat /\ CDR(p) \in Nat /\ CADR(p) \in Nat /\ CDDR(p) \in Nat
           /\ Popped(stack, 1) \in Nat /\ Pop(stack, 1) \in Seq(StackEntries)
<1>1. reg \in Registers /\ stack \in Seq(StackEntries) /\ MemoryOK
  BY DEF Ready, CoreOK
<1>2. \A p : CAR(p) \in Nat /\ CDR(p) \in Nat /\ CADR(p) \in Nat /\ CDDR(p) \in Nat
  BY <1>1, PartsType DEF CADR, CDDR
<1>3. Popped(stack, 1) \in Nat /\ Pop(stack, 1) \in Seq(StackEntries)
  BY <1>1, PoppedType, PopType
<1>4. QED BY <1>1, <1>2, <1>3, RegisterTypes

LEMMA EvaluatorLabels == {"continue", "dispatch", "sequence", "apply", "exit", "operand_loop"} \subseteq Labels \ {"host"}
BY DEF Labels

LEMMA DispatchType ==
    ASSUME Ready, Dispatch
    PROVE  CoreOK'
<1> USE ReadyTypes, EvaluatorLabels
<1>1. CoreOK /\ GlobalEnv \in Nat
  BY DEF Ready
<1>2. CASE EvalSelf
  <2>1. [reg EXCEPT !.val = reg.exp] \in Registers
    BY Assign
  <2>2. QED BY <1>1, <1>2, <2>1, MoveType DEF EvalSelf, At
<1>3. CASE EvalVariable
  BY <1>1, <1>3, LookupResult, DeliverType DEF EvalVariable
<1>4. CASE EvalQuoted
  <2> DEFINE text == TextOf(reg.exp)
             root == Image[text].cells[-Image[text].val]
             o == IF text \in Quoted THEN [Image[text] EXCEPT !.val = root.car] ELSE Returns(reg.exp)
  <2>1. IsResult(o)
    <3>1. CASE text \in Quoted
      <4>1. IsOutcome(Image[text]) /\ Image[text].val < 0
        BY <3>1, EvaluatorAssumption
      <4>2. -Image[text].val \in DOMAIN Image[text].cells
        BY <4>1, ResultPlace
      <4>3. IsCell(root)
        BY <4>1, <4>2 DEF IsOutcome
      <4>4. root.car \in Int
        BY <4>3 DEF IsCell
      <4>5. QED BY <3>1, <4>1, <4>4, OutcomeResult DEF IsResult
    <3>2. CASE text \notin Quoted
      BY <3>2, ReturnsType
    <3>3. QED BY <3>1, <3>2
  <2>2. Deliver(o, "continue", reg, stack) /\ pc = "dispatch"
    BY <1>4 DEF EvalQuoted
  <2> HIDE DEF o
  <2>3. QED BY <1>1, <2>1, <2>2, DeliverType
<1>5. CASE EvalLambda
  <2> DEFINE r == [reg EXCEPT !.unev = CADR(reg.exp), !.exp = CDDR(reg.exp)]
  <2>1. r \in Registers
    BY DEF Registers
  <2>2. Deliver(Creates(Procedure(r.unev, r.exp, r.env)), "continue", r, stack) /\ pc = "dispatch"
    BY <1>5 DEF EvalLambda, AtForm
  <2> HIDE DEF r
  <2>3. IsResult(Creates(Procedure(r.unev, r.exp, r.env)))
    BY <2>1, RegisterTypes, CellTypes, CreatesType
  <2>4. QED BY <1>1, <2>1, <2>2, <2>3, DeliverType
<1>6. CASE EvalDefineLambda
  <2>1. IsCell(Procedure(CDR(CADR(reg.exp)), CDDR(reg.exp), reg.env))
    BY CellTypes
  <2>2. QED BY <1>1, <1>6, <2>1, NamedCodeType DEF EvalDefineLambda, AtForm
<1>7. CASE EvalMacroLambda
  <2>1. IsCell(Macro(CDR(CADR(reg.exp)), CDDR(reg.exp)))
    BY CellTypes
  <2>2. QED BY <1>1, <1>7, <2>1, NamedCodeType DEF EvalMacroLambda, AtForm
<1>8. CASE EvalEval
  <2> DEFINE r == [reg EXCEPT !.exp = CADR(reg.exp)]
  <2>1. r \in Registers
    BY Assign
  <2>2. /\ pc = "dispatch"
        /\ \/ run_eval_on_string(r.exp, r, stack)
           \/ Deliver(Creates(Error("argument to eval")), "continue", r, stack)
    BY <1>8 DEF EvalEval, AtForm
  <2> HIDE DEF r
  <2>3. QED BY <1>1, <2>1, <2>2, EvalOnStringType, DeliverType, ErrorResult
<1>9. CASE EvalImport
  <2> DEFINE r == [reg EXCEPT !.exp = CADR(reg.exp)]
  <2>1. r \in Registers
    BY Assign
  <2>2. /\ pc = "dispatch"
        /\ \/ run_eval_on_file(TextOf(r.exp), "import", r, stack)
           \/ /\ To("dispatch", [r EXCEPT !.cont = JUMP_EV_IMPORT_AUX], Push(stack, <<Cont(r.cont)>>))
              /\ UNCHANGED <<memory, host>>
           \/ Deliver(Creates(Error("argument to import")), "continue", r, stack)
    BY <1>9 DEF EvalImport, AtForm
  <2>3. CASE run_eval_on_file(TextOf(r.exp), "import", r, stack)
    BY <1>1, <2>1, <2>2, <2>3, EvalOnFileType
  <2>4. CASE /\ To("dispatch", [r EXCEPT !.cont = JUMP_EV_IMPORT_AUX], Push(stack, <<Cont(r.cont)>>))
             /\ UNCHANGED <<memory, host>>
    <3>1. [r EXCEPT !.cont = JUMP_EV_IMPORT_AUX] \in Registers
      BY <2>1, Assign DEF JUMP_EV_IMPORT_AUX
    <3>2. Push(stack, <<Cont(r.cont)>>) \in Seq(StackEntries)
      BY <2>1, RegisterTypes, EntryTypes, PushEntries
    <3>3. QED BY <1>1, <2>2, <2>4, <3>1, <3>2, MoveType
  <2>5. CASE Deliver(Creates(Error("argument to import")), "continue", r, stack)
    BY <1>1, <2>1, <2>2, <2>5, DeliverType, ErrorResult
  <2>6. QED BY <2>2, <2>3, <2>4, <2>5
<1>10. CASE EvalIf
  <2>1. [reg EXCEPT !.cont = JUMP_EV_IF_DECIDE, !.exp = CADR(reg.exp)] \in Registers
    BY DEF Registers, JUMP_EV_IF_DECIDE
  <2>2. Push(stack, <<Data(reg.exp), Env(reg.env), Cont(reg.cont)>>) \in Seq(StackEntries)
    BY EntryTypes, PushEntries
  <2>3. QED BY <1>1, <1>10, <2>1, <2>2, MoveType DEF EvalIf, AtForm
<1>11. ASSUME NEW form, NEW jump \in Nat, EvalStore(form, jump) PROVE CoreOK'
  <2>1. [reg EXCEPT !.unev = CADR(reg.exp), !.exp = CAR(CDDR(reg.exp)), !.cont = jump] \in Registers
    BY DEF Registers
  <2>2. Push(stack, <<Data(CADR(reg.exp)), Env(reg.env), Cont(reg.cont)>>) \in Seq(StackEntries)
    BY EntryTypes, PushEntries
  <2>3. QED BY <1>1, <1>11, <2>1, <2>2, MoveType DEF EvalStore, AtForm
<1>12. CASE EvalAssignment \/ EvalDefinition
  BY <1>11, <1>12 DEF EvalAssignment, EvalDefinition, JUMP_EV_ASSIGNMENT_1, JUMP_EV_DEFINITION_1
<1>13. CASE EvalApplication
  <2>1. [reg EXCEPT !.unev = CDR(reg.exp), !.exp = CAR(reg.exp), !.cont = JUMP_EV_APPL_DID_OPERATOR] \in Registers
    BY DEF Registers, JUMP_EV_APPL_DID_OPERATOR
  <2>2. Push(stack, <<Cont(reg.cont), Env(reg.env), Data(CDR(reg.exp))>>) \in Seq(StackEntries)
    BY EntryTypes, PushEntries
  <2>3. QED BY <1>1, <1>13, <2>1, <2>2, MoveType DEF EvalApplication
<1>14. QED BY <1>2, <1>3, <1>4, <1>5, <1>6, <1>7, <1>8, <1>9, <1>10, <1>12, <1>13, Zenon DEF Dispatch

LEMMA SequenceType ==
    ASSUME Ready, EvalBegin \/ Sequence
    PROVE  CoreOK'
<1> USE ReadyTypes, EvaluatorLabels
<1>1. CoreOK
  BY DEF Ready
<1>2. ASSUME NEW r \in Registers, NEW label \in {"dispatch", "sequence"}, NEW s \in Seq(StackEntries),
             pc # "host", UNCHANGED <<memory, host>>, To(label, r, s)
      PROVE  CoreOK'
  BY <1>1, <1>2, MoveType
<1>3. CASE EvalBegin
  <2>1. Push(stack, <<Cont(reg.cont)>>) \in Seq(StackEntries)
    BY EntryTypes, PushEntries
  <2>2. /\ [reg EXCEPT !.unev = reg.exp] \in Registers
        /\ [reg EXCEPT !.exp = CDR(reg.exp), !.unev = CDR(reg.exp)] \in Registers
    BY DEF Registers
  <2>3. QED BY <1>2, <1>3, <2>1, <2>2 DEF EvalBegin, At, AtForm
<1>4. CASE Sequence
  <2>1. Push(stack, <<Data(reg.unev), Env(reg.env)>>) \in Seq(StackEntries)
    BY EntryTypes, PushEntries
  <2> DEFINE r == [reg EXCEPT !.exp = CAR(reg.unev)]
  <2>2. /\ [r EXCEPT !.cont = Popped(stack, 1)] \in Registers
        /\ [r EXCEPT !.cont = JUMP_EV_SEQUENCE_CONTINUE] \in Registers
    BY DEF Registers, JUMP_EV_SEQUENCE_CONTINUE
  <2>3. QED BY <1>2, <1>4, <2>1, <2>2 DEF Sequence, At
<1>5. QED BY <1>3, <1>4

LEMMA ContinuationType ==
    ASSUME Ready, Continuation
    PROVE  CoreOK'
<1> USE ReadyTypes, EvaluatorLabels
<1>1. CoreOK /\ GlobalEnv \in Nat
  BY DEF Ready
<1>2. Unwound \in Registers /\ Rest \in Seq(StackEntries)
  BY UnwoundType
<1>3. ASSUME NEW r \in Registers, NEW label \in {"dispatch", "sequence"}, NEW s \in Seq(StackEntries),
             pc # "host", UNCHANGED <<memory, host>>, To(label, r, s)
      PROVE  CoreOK'
  BY <1>1, <1>3, MoveType
<1>4. CASE IfDecide
  <2> DEFINE branches == CDDR(Unwound.exp)
             next == IF reg.val # NIL THEN CAR(branches) ELSE CADR(branches)
  <2>1. [Unwound EXCEPT !.exp = next] \in Registers
    BY <1>2, Assign
  <2>2. pc # "host" /\ UNCHANGED <<memory, host>> /\ To("dispatch", [Unwound EXCEPT !.exp = next], Rest)
    BY <1>4 DEF IfDecide, At
  <2>3. QED BY <1>2, <1>3, <2>1, <2>2
<1>5. CASE Assignment1 \/ Definition1
  BY <1>1, <1>5, StoreType DEF Assignment1, Definition1
<1>6. CASE DidOperator
  <2> DEFINE r == [Unwound EXCEPT !.argl = NIL, !.last = NULL, !.proc = reg.val]
             found == IF IsStringType(reg.val) THEN lookup_variable_value(reg.val, r.env) ELSE Returns(reg.val)
             called == [r EXCEPT !.proc = Address(found.val)]
             entered == [called EXCEPT !.cont = JUMP_MACRO_FINISH, !.argl = r.unev, !.unev = CAR(called.proc)]
  <2>1. r \in Registers
    BY <1>2 DEF Registers, NIL, NULL
  <2>2. IsResult(found)
    BY LookupResult, ReturnsType
  <2>3. called \in Registers
    BY <2>1, <2>2, AddressType, Assign DEF IsResult
  <2>4. entered \in Registers
    <3>1. r.unev \in Nat /\ CAR(called.proc) \in Nat /\ JUMP_MACRO_FINISH \in Nat
      BY <2>1, RegisterTypes DEF JUMP_MACRO_FINISH
    <3> HIDE DEF r, called
    <3>2. QED BY <2>3, <3>1 DEF Registers
  <2>5. PICK j \in Collections(found.cells, r, Rest) :
           IF Cell(called.proc).type = "macro"
           THEN ExtendEnvironment(CDR(called.proc), entered, Push(Rest, <<Cont(JUMP_MACRO_FINISH)>>))
           ELSE /\ Create(found.cells, j, r, Rest)
                /\ IF r.unev = NIL THEN To("apply", called, Rest)
                   ELSE To("operand_loop", called, Push(Rest, <<Data(called.proc)>>))
    BY <1>6, Zenon DEF DidOperator
  <2>6. pc # "host"
    BY <1>6 DEF DidOperator
  <2>7. /\ Push(Rest, <<Cont(JUMP_MACRO_FINISH)>>) \in Seq(StackEntries)
        /\ Push(Rest, <<Data(called.proc)>>) \in Seq(StackEntries)
    <3>1. called.proc \in Nat /\ JUMP_MACRO_FINISH \in Nat
      BY <2>3, RegisterTypes DEF JUMP_MACRO_FINISH
    <3>2. Cont(JUMP_MACRO_FINISH) \in StackEntries /\ Data(called.proc) \in StackEntries
      BY <3>1, EntryTypes
    <3>3. QED BY <1>2, <3>2, PushEntries
  <2> HIDE DEF called, entered, found
  <2>8. CASE Cell(called.proc).type = "macro"
    BY <1>1, <2>4, <2>5, <2>6, <2>7, <2>8, ExtendType
  <2>9. CASE Cell(called.proc).type # "macro"
    <3>1. Create(found.cells, j, r, Rest) /\ IsBatch(found.cells) /\ j \in 0 .. Len(found.cells)
      BY <2>2, <2>5, <2>9, CollectionsType DEF IsResult
    <3>2. MemoryOK'
      BY <3>1, CreateType
    <3>3. UNCHANGED host
      BY <3>1 DEF Create, Created
    <3>4. /\ pc' \in {"apply", "operand_loop"} /\ reg' = called
          /\ stack' \in {Rest, Push(Rest, <<Data(called.proc)>>)}
      BY <2>5, <2>9 DEF To
    <3>5. CallsOK'
      BY <1>1, <2>6, <3>3, <3>4, CallsSame DEF CoreOK
    <3>6. QED BY <1>2, <2>3, <2>7, <3>2, <3>4, <3>5 DEF CoreOK
  <2>10. QED BY <2>8, <2>9
<1>7. CASE OperandLoop
  <2> DEFINE r == [reg EXCEPT !.exp = CAR(reg.unev)]
             saved == <<Data(reg.argl), ArgPointer(reg.last)>>
             more == <<Data(reg.argl), ArgPointer(reg.last), Env(reg.env), Data(reg.unev)>>
  <2>1. /\ [r EXCEPT !.cont = JUMP_EV_APPL_ACCUM_LAST_ARG] \in Registers
        /\ [r EXCEPT !.cont = JUMP_EV_APPL_ACCUMULATE_ARG] \in Registers
    BY DEF Registers, JUMP_EV_APPL_ACCUM_LAST_ARG, JUMP_EV_APPL_ACCUMULATE_ARG
  <2>2. Push(stack, saved) \in Seq(StackEntries) /\ Push(stack, more) \in Seq(StackEntries)
    BY EntryTypes, PushEntries
  <2>3. /\ pc # "host" /\ UNCHANGED <<memory, host>>
        /\ \/ To("dispatch", [r EXCEPT !.cont = JUMP_EV_APPL_ACCUM_LAST_ARG], Push(stack, saved))
           \/ To("dispatch", [r EXCEPT !.cont = JUMP_EV_APPL_ACCUMULATE_ARG], Push(stack, more))
    BY <1>7 DEF OperandLoop, At
  <2> HIDE DEF r, saved, more
  <2>4. QED BY <1>3, <2>1, <2>2, <2>3
<1>8. CASE AccumulateArg
  <2>1. CDR(Unwound.unev) \in Nat
    BY ReadyTypes
  <2>2. [Unwound EXCEPT !.unev = CDR(@)] \in Registers
    BY <1>2, <2>1, Assign
  <2>3. QED BY <1>1, <1>2, <1>8, <2>2, AppendType DEF AccumulateArg
<1>9. CASE AccumLastArg
  <2>1. [Unwound EXCEPT !.proc = reg.proc] \in Registers
    BY <1>2, Assign
  <2>2. Pop(stack, 2) \in Seq(StackEntries)
    BY PopType
  <2>3. QED BY <1>1, <1>2, <1>9, <2>1, <2>2, AppendType DEF AccumLastArg
<1>10. CASE SequenceContinue
  <2>1. [Unwound EXCEPT !.unev = CDR(@)] \in Registers
    BY <1>2, Assign
  <2>2. QED BY <1>2, <1>3, <1>10, <2>1 DEF SequenceContinue, At
<1>11. CASE MacroFinish
  <2>1. [Unwound EXCEPT !.exp = reg.val] \in Registers
    BY <1>2, Assign
  <2>2. QED BY <1>2, <1>3, <1>11, <2>1 DEF MacroFinish, At
<1>12. CASE ImportAux
  <2>1. [reg EXCEPT !.cont = Popped(stack, 1)] \in Registers
    BY Assign
  <2>2. QED BY <1>1, <1>12, <2>1, EvalOnFileType, DeliverType, ErrorResult DEF ImportAux
<1>13. QED BY <1>4, <1>5, <1>6, <1>7, <1>8, <1>9, <1>10, <1>11, <1>12, Zenon DEF Continuation

LEMMA ApplyType ==
    ASSUME Ready, Apply
    PROVE  CoreOK'
<1> USE ReadyTypes, EvaluatorLabels
<1>1. CoreOK
  BY DEF Ready
<1>2. [reg EXCEPT !.cont = Popped(stack, 1)] \in Registers
  BY Assign
<1>3. CASE PrimitiveApply
  BY <1>1, <1>2, <1>3, PrimitiveResult, DeliverType DEF PrimitiveApply
<1>4. CASE CompoundApply
  <2>1. CAR(reg.proc) \in Nat /\ Cell(reg.proc).env \in Nat
    BY PartsType
  <2>2. [reg EXCEPT !.unev = CAR(reg.proc), !.env = Cell(reg.proc).env] \in Registers
    BY <2>1 DEF Registers
  <2>3. QED BY <1>1, <1>4, <2>2, ExtendType DEF CompoundApply
<1>5. CASE UnknownProcedure
  BY <1>1, <1>2, <1>5, ErrorResult, DeliverType DEF UnknownProcedure
<1>6. QED BY <1>3, <1>4, <1>5 DEF Apply

LEMMA ContinueType ==
    ASSUME Ready, Continue
    PROVE  CoreOK'
<1>1. Answer \in Nat
  BY ReadyTypes DEF Answer, MemoryOK
<1>2. reg' \in Registers /\ stack' \in Seq(StackEntries)
  BY <1>1, ReadyTypes, Assign DEF Continue, To
<1>3. pc' \in Labels \ {"host"}
  BY DEF Continue, To, LabelOf, Labels
<1>4. MemoryOK'
  BY ReadyTypes DEF Continue, MemoryOK, CellsOK, EnvironmentsOK
<1>5. CallsOK'
  BY <1>3, CallsSame DEF Ready, CoreOK, Continue
<1>6. QED BY <1>2, <1>3, <1>4, <1>5 DEF CoreOK

LEMMA ExitType ==
    ASSUME Ready, Exit
    PROVE  CoreOK'
<1> DEFINE r == restore_regs(reg, stack)
           s == Pop(stack, Len(Saved))
           r2 == restore_regs(r, s)
           s2 == Pop(s, Len(Saved))
           back == Return(r, s)
<1>1. Len(Saved) \in Nat
  BY DEF Saved
<1>2. r \in Registers /\ s \in Seq(StackEntries)
  BY <1>1, ReadyTypes, RestoreType, PopType
<1>3. r2 \in Registers /\ s2 \in Seq(StackEntries) /\ Popped(s2, 1) \in Nat /\ Pop(s2, 1) \in Seq(StackEntries)
  <2> HIDE DEF r, s
  <2>1. r2 \in Registers /\ s2 \in Seq(StackEntries)
    BY <1>1, <1>2, RestoreType, PopType
  <2> HIDE DEF r2, s2
  <2>2. QED BY <2>1, PoppedType, PopType
<1>4. calls \in Seq(Callers) /\ calls # <<>>
  BY DEF Ready, CoreOK, CallsOK, Exit
<1>5. /\ back.r \in Registers /\ back.s \in Seq(StackEntries)
      /\ back.label = IF Head(calls) = "host" THEN "host" ELSE "continue"
  <2>1. [r2 EXCEPT !.cont = Popped(s2, 1)] \in Registers
    BY <1>3, Assign
  <2>2. back = CASE Head(calls) = "host" -> [label |-> "host", r |-> r, s |-> s]
                 [] Head(calls) = "import_aux" ->
                      [label |-> "continue", r |-> [r2 EXCEPT !.cont = Popped(s2, 1)], s |-> Pop(s2, 1)]
                 [] OTHER -> [label |-> "continue", r |-> r2, s |-> s2]
    BY DEF Return
  <2> HIDE DEF r, s, r2, s2, back
  <2>3. QED BY <1>2, <1>3, <2>1, <2>2
<1>6. /\ pc' = back.label /\ reg' = back.r /\ stack' = back.s
      /\ heap' = Keep(heap, DOMAIN heap \ {reg.top}) /\ code' = code \ {reg.top}
      /\ calls' = Tail(calls) /\ UNCHANGED <<envs, fresh, have_error, error_value, script, asked>>
  BY DEF Exit, To
<1> HIDE DEF back
<1>7. MemoryOK'
  <2>1. MemoryOK
    BY ReadyTypes
  <2>2. CellsOK(heap') /\ DOMAIN heap' = DOMAIN heap \ {reg.top}
    <3>1. DOMAIN Keep(heap, DOMAIN heap \ {reg.top}) = DOMAIN heap \cap (DOMAIN heap \ {reg.top})
      BY KeepType
    <3>2. CellsOK(Keep(heap, DOMAIN heap \ {reg.top}))
      BY <2>1, KeptCells DEF MemoryOK
    <3>3. QED BY <1>6, <3>1, <3>2
  <2>3. code' \subseteq DOMAIN heap'
    BY <1>6, <2>1, <2>2 DEF MemoryOK
  <2>4. QED BY <1>6, <2>1, <2>2, <2>3 DEF MemoryOK, EnvironmentsOK
<1>8. CallsOK'
  <2>1. \A i \in DOMAIN calls : calls[i] = "host" <=> i = Len(calls)
    BY DEF Ready, CoreOK, CallsOK
  <2>2. calls' \in Seq(Callers) /\ Len(calls') = Len(calls) - 1 /\ \A i \in 1 .. Len(calls) - 1 : calls'[i] = calls[i + 1]
    BY <1>4, <1>6
  <2>3. \A i \in DOMAIN calls' : calls'[i] = "host" <=> i = Len(calls')
    BY <1>4, <2>1, <2>2
  <2>4. calls' = <<>> <=> pc' = "host"
    <3>1. Head(calls) = calls[1] /\ 1 \in DOMAIN calls /\ Len(calls) \in Nat
      BY <1>4
    <3>2. Head(calls) = "host" <=> Len(calls) = 1
      BY <2>1, <3>1
    <3>3. calls' = <<>> <=> Len(calls) = 1
      BY <2>2, <3>1
    <3>4. QED BY <1>5, <1>6, <3>2, <3>3
  <2>5. asked' \in 0 .. Len(script'.programs)
    BY <1>6 DEF Ready, CoreOK, CallsOK
  <2>6. QED BY <2>2, <2>3, <2>4, <2>5 DEF CallsOK
<1>9. QED BY <1>5, <1>6, <1>7, <1>8 DEF CoreOK, Labels

-----------------------------------------------------------------------------
(* The steps of the plugin.                                                *)

IsTodo(q) == q \in Seq(Range(q)) /\ \A t \in Range(q) : IsTask(t)

LEMMA FunctionIsSequence ==
    ASSUME NEW S, NEW n \in Nat, NEW f \in [1 .. n -> S]
    PROVE  f \in Seq(S)
OBVIOUS

LEMMA SequenceOfRange ==
    ASSUME NEW S, NEW q \in Seq(S)
    PROVE  q \in Seq(Range(q)) /\ Range(q) \subseteq S
BY DEF Range

LEMMA TodoSet ==
    ASSUME NEW S, \A t \in S : IsTask(t), NEW q \in Seq(S)
    PROVE  IsTodo(q)
BY SequenceOfRange DEF IsTodo

LEMMA TodoOf ==
    ASSUME NEW t, IsTask(t)
    PROVE  IsTodo(<<t>>)
<1>1. <<t>> \in Seq({t})
  OBVIOUS
<1>2. QED BY <1>1, TodoSet

LEMMA FrontType ==
    ASSUME NEW q \in Seq(Nat)
    PROVE  Front(q) \in Seq(Nat)
<1>1. Len(q) \in Nat
  OBVIOUS
<1>2. \A n \in Int : n <= Len(q) => SubSeq(q, 1, n) \in Seq(Nat)
  BY <1>1
<1>3. Len(q) - 1 \in Int /\ Len(q) - 1 <= Len(q)
  BY <1>1
<1>4. QED BY <1>2, <1>3 DEF Front

LEMMA TodoTail ==
    ASSUME NEW q, IsTodo(q), q # <<>>
    PROVE  IsTodo(Tail(q)) /\ IsTask(Head(q))
<1>1. q \in Seq(Range(q)) /\ \A t \in Range(q) : IsTask(t)
  BY DEF IsTodo
<1>2. Tail(q) \in Seq(Range(q)) /\ Head(q) \in Range(q)
  BY <1>1
<1>3. QED BY <1>1, <1>2, TodoSet

LEMMA TodoConcat ==
    ASSUME NEW q1, NEW q2, IsTodo(q1), IsTodo(q2)
    PROVE  IsTodo(q1 \o q2)
<1> DEFINE S == Range(q1) \cup Range(q2)
<1>1. q1 \in Seq(S) /\ q2 \in Seq(S) /\ \A t \in S : IsTask(t)
  BY DEF IsTodo
<1> HIDE DEF S
<1>2. q1 \o q2 \in Seq(S)
  BY <1>1
<1>3. QED BY <1>1, <1>2, TodoSet

LEMMA TaskTypes ==
    ASSUME PluginOK
    PROVE  /\ \A e \in Nat : IsTask(EnvTask(e)) /\ \A name : IsTask(BindTask(e, name))
           /\ \A p \in Nat : IsTask(DataTask(p)) /\ IsTask(CellTask(p))
           /\ \A p : IsCell(Copy(p)) /\ Copy(p).car \in Nat /\ Copy(p).cdr \in Nat /\ Copy(p).env \in Nat
<1>1. ASSUME NEW p PROVE IsCell(Copy(p)) /\ Copy(p).car \in Nat /\ Copy(p).cdr \in Nat /\ Copy(p).env \in Nat
  BY CellInType DEF Copy, PluginOK, IsCell
<1>2. DOMAIN EnvTask(NULL) = {"do", "env", "copy", "name"}
  BY DEF EnvTask
<1>3. ASSUME NEW e \in Nat PROVE IsTask(EnvTask(e)) /\ \A name : IsTask(BindTask(e, name))
  BY <1>2 DEF IsTask, EnvTask, BindTask, NULL
<1>4. ASSUME NEW p \in Nat PROVE IsTask(DataTask(p)) /\ IsTask(CellTask(p))
  <2>1. CopiedEnv(p) \in Nat
    BY <1>1 DEF CopiedEnv, NULL
  <2>2. /\ DOMAIN CellTask(p) = {"do", "env", "copy", "name"}
        /\ CellTask(p).do = "cell" /\ CellTask(p).env = CopiedEnv(p) /\ CellTask(p).copy = p
    BY DEF CellTask, DataTask
  <2>3. IsTask(CellTask(p))
    BY <1>2, <2>1, <2>2 DEF IsTask
  <2>4. IsTask(DataTask(p))
    BY <1>2, <2>1 DEF IsTask, DataTask
  <2>5. QED BY <2>3, <2>4
<1>5. QED BY <1>1, <1>3, <1>4

LEMMA SetToSeqType ==
    ASSUME NEW S, IsFiniteSet(S)
    PROVE  SetToSeq(S) \in Seq(S)
<1>1. Cardinality(S) \in Nat /\ ExistsBijection(1 .. Cardinality(S), S)
  BY FS_CardinalityType
<1>2. PICK f \in [1 .. Cardinality(S) -> S] : IsInjective(f)
  BY <1>1 DEF ExistsBijection, Bijection, Injection, IsInjective
<1>3. SetToSeq(S) \in [1 .. Cardinality(S) -> S]
  BY <1>2 DEF SetToSeq
<1>4. QED BY <1>1, <1>3

LEMMA BindingTasksType ==
    ASSUME PluginOK, NEW e \in DOMAIN stored.envs
    PROVE  IsTodo(BindingTasks(e))
<1> DEFINE bind == stored.envs[e].bind
           names == SetToSeq(DOMAIN bind)
           Name(k) == names[(k + 1) \div 2]
           tasks == [k \in 1 .. 2 * Len(names) |->
                        IF k % 2 = 1 THEN DataTask(bind[Name(k)]) ELSE BindTask(e, Name(k))]
           S == {tasks[k] : k \in 1 .. 2 * Len(names)}
<1>1. bind \in [DOMAIN bind -> Nat] /\ IsFiniteSet(DOMAIN bind) /\ e \in Nat
  BY DEF PluginOK, EnvironmentsOK, IsEnv
<1>2. names \in Seq(DOMAIN bind)
  BY <1>1, SetToSeqType
<1>3. ASSUME NEW k \in 1 .. 2 * Len(names) PROVE IsTask(tasks[k])
  <2>1. CASE k % 2 = 1
    <3>1. (k + 1) \div 2 \in 1 .. Len(names)
      BY <1>2
    <3>2. bind[Name(k)] \in Nat
      BY <1>1, <1>2, <3>1
    <3>3. tasks[k] = DataTask(bind[Name(k)])
      BY <2>1
    <3> HIDE DEF tasks
    <3>4. QED BY <3>2, <3>3, TaskTypes
  <2>2. CASE k % 2 # 1
    <3>1. tasks[k] = BindTask(e, Name(k))
      BY <2>2
    <3> HIDE DEF tasks
    <3>2. QED BY <1>1, <3>1, TaskTypes
  <2>3. QED BY <2>1, <2>2
<1>4. tasks \in Seq(S)
  BY <1>2
<1>5. \A t \in S : IsTask(t)
  BY <1>3
<1>6. BindingTasks(e) = tasks
  BY DEF BindingTasks
<1> HIDE DEF tasks, S
<1>7. QED BY <1>4, <1>5, <1>6, TodoSet

LEMMA RedirectedType ==
    ASSUME PluginOK, NEW e \in Nat
    PROVE  Redirected(e) \in Nat /\ Made(e) \in Nat
BY DEF PluginOK, Redirected, Made, NULL

LEMMA SlotsType ==
    ASSUME MemoryOK, NEW e
    PROVE  Slots(e) \in Seq(StackEntries)
<1>1. CASE e \notin DOMAIN envs \ DOMAIN stored.envs
  BY <1>1 DEF Slots
<1>2. CASE e \in DOMAIN envs \ DOMAIN stored.envs
  <2> DEFINE bind == envs[e].bind
             names == SetToSeq(DOMAIN bind)
             slots == [i \in DOMAIN names |-> Data(bind[names[i]])]
  <2>1. bind \in [DOMAIN bind -> Nat] /\ IsFiniteSet(DOMAIN bind)
    BY <1>2 DEF MemoryOK, EnvironmentsOK, IsEnv
  <2>2. names \in Seq(DOMAIN bind)
    BY <2>1, SetToSeqType
  <2>3. \A i \in DOMAIN names : slots[i] \in StackEntries
    BY <2>1, <2>2, EntryTypes
  <2>4. DOMAIN names = 1 .. Len(names) /\ Len(names) \in Nat /\ DOMAIN slots = DOMAIN names
    BY <2>2
  <2>5. Slots(e) = slots
    BY <1>2 DEF Slots
  <2> HIDE DEF names, slots
  <2>6. slots \in [1 .. Len(names) -> StackEntries]
    BY <2>3, <2>4 DEF slots
  <2>7. QED BY <2>4, <2>5, <2>6
<1>3. QED BY <1>1, <1>2

LEMMA PluginSame ==
    ASSUME PluginOK, UNCHANGED plugin
    PROVE  PluginOK'
BY DEF PluginOK, plugin

LEMMA RestoringNames == DOMAIN NotRestoring = {"todo", "held", "made", "walk"}
BY DEF NotRestoring

\* What is to be shown of a restoring that changes.
LEMMA RestoringNext ==
    ASSUME PluginOK, GlobalEnv' \in Nat, UNCHANGED stored, DOMAIN restoring' = DOMAIN restoring,
           IsTodo(restoring'.todo), restoring'.held \in Seq(Nat),
           \A e \in DOMAIN restoring'.made : restoring'.made[e] \in Nat,
           restoring'.walk \in Seq(StackEntries)
    PROVE  PluginOK'
BY DEF PluginOK, IsTodo

LEMMA TodoEmpty == IsTodo(<<>>)
BY DEF IsTodo, Range

LEMMA RestoringTypes ==
    ASSUME PluginOK
    PROVE  /\ DOMAIN restoring = {"todo", "held", "made", "walk"} /\ IsTodo(restoring.todo)
           /\ restoring.held \in Seq(Nat) /\ \A e \in DOMAIN restoring.made : restoring.made[e] \in Nat
           /\ restoring.walk \in Seq(StackEntries)
BY RestoringNames DEF PluginOK, IsTodo

LEMMA SaveStep ==
    ASSUME Ready, PluginOK, Defined, env_restore_plugin_save
    PROVE  CoreOK' /\ PluginOK'
<1> USE ReadyTypes, EvaluatorLabels
<1>1. CoreOK /\ pc = "apply"
  BY DEF Ready, env_restore_plugin_save, Applies
<1>2. CoreOK'
  <2>1. [reg EXCEPT !.val = T, !.cont = Popped(stack, 1)] \in Registers
    BY DEF Registers, T
  <2>2. QED BY <1>1, <2>1, MoveType DEF env_restore_plugin_save
<1>3. stored' = [main |-> GlobalEnv, envs |-> env_store(GlobalEnv), cells |-> heap] /\ UNCHANGED <<GlobalEnv, restoring>>
  BY DEF env_restore_plugin_save
<1>4. EnvironmentsOK(stored'.envs) /\ DOMAIN stored'.envs \subseteq Nat \ {NULL}
  <2>1. PICK S : env_store(GlobalEnv) = Restrict(envs, S \cap DOMAIN envs)
    BY DEF env_store
  <2>2. DOMAIN envs \subseteq Nat \ {NULL}
    BY DEF MemoryOK, Global, FirstAddress, NULL
  <2>3. QED BY <1>3, <2>1, <2>2 DEF Restrict, EnvironmentsOK, MemoryOK
<1>5. CellsOK(stored'.cells) /\ stored'.main \in Nat /\ DOMAIN stored' = DOMAIN NothingSaved
  BY <1>3 DEF Ready, MemoryOK, NothingSaved, CellsOK
<1>6. QED BY <1>2, <1>3, <1>4, <1>5 DEF PluginOK

LEMMA RestoreStep ==
    ASSUME Ready, PluginOK, env_restore_plugin_restore
    PROVE  CoreOK' /\ PluginOK'
<1> USE ReadyTypes
<1>1. CoreOK /\ pc = "apply" /\ {"continue", "restoring"} \subseteq Labels \ {"host"}
  BY DEF Ready, env_restore_plugin_restore, Applies, Labels
<1>2. UNCHANGED <<GlobalEnv, stored, memory, host>>
  BY DEF env_restore_plugin_restore
<1>3. CASE stored = NothingSaved
  <2>1. [reg EXCEPT !.val = NIL, !.cont = Popped(stack, 1)] \in Registers
    BY DEF Registers, NIL
  <2>2. QED BY <1>1, <1>2, <1>3, <2>1, MoveType, PluginSame DEF env_restore_plugin_restore, plugin
<1>4. CASE stored # NothingSaved
  <2>1. restoring' = [NotRestoring EXCEPT !.todo = <<EnvTask(stored.main)>>]
    BY <1>4 DEF env_restore_plugin_restore
  <2>2. IsTodo(<<EnvTask(stored.main)>>)
    <3>1. IsTask(EnvTask(stored.main))
      BY TaskTypes DEF PluginOK
    <3>2. QED BY <3>1, TodoOf
  <2>3. /\ DOMAIN restoring' = DOMAIN NotRestoring /\ restoring'.todo = <<EnvTask(stored.main)>>
        /\ restoring'.held = <<>> /\ restoring'.made = <<>> /\ restoring'.walk = <<>>
    BY <2>1 DEF NotRestoring
  <2>4. PluginOK'
    BY <1>2, <2>2, <2>3, RestoringNext, RestoringTypes, RestoringNames DEF Ready
  <2>5. CoreOK'
    BY <1>1, <1>2, <1>4, MoveType DEF env_restore_plugin_restore
  <2>6. QED BY <2>4, <2>5
<1>5. QED BY <1>3, <1>4

LEMMA EnvironmentStep ==
    ASSUME Ready, PluginOK, Defined, env_restore
    PROVE  CoreOK' /\ PluginOK'
<1> USE ReadyTypes, RestoringTypes
<1>1. /\ CoreOK /\ pc = "restoring" /\ restoring.todo # <<>> /\ Task.do = "env"
      /\ UNCHANGED <<pc, reg, stack, stored, host>>
  BY DEF Ready, env_restore, Restoring, Task
<1>2. IsTodo(Tail(restoring.todo)) /\ IsTask(Task)
  BY <1>1, TodoTail DEF Task
<1>3. CallsOK'
  BY <1>1, CallsSame DEF CoreOK
<1>4. CASE Task.env \in DOMAIN restoring.made
  <2>1. restoring' = [restoring EXCEPT !.todo = Tail(@)] /\ UNCHANGED <<GlobalEnv, memory>>
    BY <1>4 DEF env_restore
  <2>2. PluginOK'
    BY <1>1, <1>2, <2>1, RestoringNext DEF Ready
  <2>3. MemoryOK'
    BY <2>1, MemorySame
  <2>4. QED BY <1>1, <1>3, <2>2, <2>3 DEF CoreOK
<1>5. CASE Task.env \notin DOMAIN restoring.made
  <2>1. Task.env \in DOMAIN stored.envs
    BY <1>1 DEF Defined, RestoreDefined
  <2> DEFINE new == [parent |-> stored.envs[Task.env].parent, bind |-> <<>>]
  <2>2. PICK j \in Room(<<BadCell>>) :
           /\ envs' = With(EnvsAfter(j, reg, stack), fresh, new)
           /\ heap' = IF j = 0 THEN heap ELSE Keep(heap, Marked(reg, stack) \cup code)
    BY <1>5 DEF env_restore
  <2>3. /\ fresh' = fresh + 1 /\ UNCHANGED <<code, have_error, error_value>>
        /\ GlobalEnv' \in {fresh, GlobalEnv}
        /\ restoring' = [restoring EXCEPT !.made = With(@, Task.env, fresh), !.todo = Instead(BindingTasks(Task.env))]
    BY <1>5 DEF env_restore
  <2>4. IsEnv(new)
    <3>1. stored.envs[Task.env].parent \in Nat
      BY <2>1 DEF PluginOK, EnvironmentsOK, IsEnv
    <3>2. DOMAIN <<>> = {}
      OBVIOUS
    <3>3. QED BY <3>1, <3>2, FS_EmptySet DEF IsEnv
  <2> HIDE DEF new
  <2>5. EnvironmentsOK(envs') /\ DOMAIN envs' \subseteq {fresh} \cup DOMAIN envs
    <3>1. EnvironmentsOK(EnvsAfter(j, reg, stack)) /\ DOMAIN EnvsAfter(j, reg, stack) \subseteq DOMAIN envs
      BY EnvsAfterType
    <3> DEFINE kept == EnvsAfter(j, reg, stack)
    <3> HIDE DEF kept
    <3>2. envs' = [y \in {fresh} \cup DOMAIN kept |-> IF y = fresh THEN new ELSE kept[y]]
      BY <2>2 DEF With, kept
    <3>3. ASSUME NEW x \in DOMAIN envs' PROVE IsEnv(envs'[x]) /\ x \in {fresh} \cup DOMAIN envs
      <4>1. x = fresh \/ (x \in DOMAIN kept /\ x # fresh)
        BY <3>2
      <4>2. CASE x = fresh
        BY <2>4, <3>2, <4>2
      <4>3. CASE x \in DOMAIN kept /\ x # fresh
        <5>1. envs'[x] = kept[x]
          BY <3>2, <4>3
        <5>2. IsEnv(kept[x]) /\ x \in DOMAIN envs
          BY <3>1, <4>3 DEF EnvironmentsOK, kept
        <5>3. QED BY <5>1, <5>2
      <4>4. QED BY <4>1, <4>2, <4>3
    <3>4. QED BY <3>3 DEF EnvironmentsOK
  <2>6. CellsOK(heap') /\ DOMAIN heap' \subseteq DOMAIN heap /\ code \subseteq DOMAIN heap'
    BY <2>2, KeptHeap
  <2>7. DOMAIN heap' \cap DOMAIN envs' = {}
    BY <2>5, <2>6, FreshApart
  <2>8. DOMAIN heap' \cup DOMAIN envs' \subseteq DOMAIN heap \cup DOMAIN envs \cup fresh .. fresh' - 1
    BY <2>3, <2>5, <2>6 DEF MemoryOK
  <2>9. MemoryOK'
    <3>1. have_error \in BOOLEAN /\ error_value \in Nat /\ fresh \in Nat
      BY DEF MemoryOK
    <3>2. /\ code' \subseteq DOMAIN heap' /\ have_error' \in BOOLEAN /\ error_value' \in Nat
          /\ fresh' \in Nat /\ fresh <= fresh'
      BY <2>3, <2>6, <3>1
    <3>3. QED BY <3>1, <3>2, <2>5, <2>6, <2>7, <2>8, MemoryNext
  <2>10. IsTodo(Instead(BindingTasks(Task.env)))
    BY <1>2, <2>1, BindingTasksType, TodoConcat DEF Instead
  <2>11. /\ DOMAIN restoring' = DOMAIN restoring /\ restoring'.todo = Instead(BindingTasks(Task.env))
         /\ restoring'.held = restoring.held /\ restoring'.walk = restoring.walk
         /\ restoring'.made = With(restoring.made, Task.env, fresh)
    BY <2>3
  <2>12. \A e \in DOMAIN restoring'.made : restoring'.made[e] \in Nat
    BY <2>11 DEF With, MemoryOK
  <2>13. PluginOK'
    BY <1>1, <2>3, <2>10, <2>11, <2>12, RestoringNext DEF Ready, MemoryOK
  <2>14. QED BY <1>1, <1>3, <2>9, <2>13 DEF CoreOK
<1>6. QED BY <1>4, <1>5

LEMMA DataStep ==
    ASSUME Ready, PluginOK, data_restore
    PROVE  CoreOK' /\ PluginOK'
<1> USE ReadyTypes, RestoringTypes
<1>1. /\ CoreOK /\ pc = "restoring" /\ restoring.todo # <<>>
      /\ UNCHANGED <<pc, reg, stack, GlobalEnv, stored, memory, host>>
  BY DEF Ready, data_restore, Restoring
<1>2. IsTodo(Tail(restoring.todo)) /\ IsTask(Task)
  BY <1>1, TodoTail DEF Task
<1>3. CoreOK'
  BY <1>1, CallsSame, MemorySame DEF CoreOK
<1> DEFINE parts == <<DataTask(Copied.car), DataTask(Copied.cdr), CellTask(Task.copy)>>
           more == <<EnvTask(Task.env)>> \o parts
<1>4. IsTodo(parts) /\ IsTodo(more)
  <2>1. IsTask(DataTask(Copied.car)) /\ IsTask(DataTask(Copied.cdr)) /\ IsTask(CellTask(Task.copy)) /\ IsTask(EnvTask(Task.env))
    BY <1>2, TaskTypes DEF IsTask, Copied
  <2>2. parts \in Seq({DataTask(Copied.car), DataTask(Copied.cdr), CellTask(Task.copy)})
    OBVIOUS
  <2>3. IsTodo(parts)
    BY <2>1, <2>2, TodoSet
  <2> HIDE DEF parts
  <2>4. QED BY <2>1, <2>3, TodoOf, TodoConcat
<1>5. \/ restoring' = [restoring EXCEPT !.todo = Instead(parts)]
      \/ restoring' = [restoring EXCEPT !.todo = Instead(more)]
  BY DEF data_restore
<1>6. IsTodo(Instead(parts)) /\ IsTodo(Instead(more))
  BY <1>2, <1>4, TodoConcat DEF Instead
<1> HIDE DEF parts, more
<1>7. PluginOK'
  BY <1>1, <1>5, <1>6, RestoringNext DEF Ready
<1>8. QED BY <1>3, <1>7

LEMMA HeldType ==
    ASSUME PluginOK, NEW n \in Nat
    PROVE  Held(n) \in Nat
<1> DEFINE k == Len(restoring.held) - n
<1>1. restoring.held \in Seq(Nat)
  BY RestoringTypes
<1>2. CASE n < Len(restoring.held)
  <2>1. k \in 1 .. Len(restoring.held)
    BY <1>1, <1>2
  <2>2. restoring.held[k] \in Nat
    BY <1>1, <2>1
  <2>3. QED BY <1>2, <2>2 DEF Held
<1>3. CASE ~ (n < Len(restoring.held))
  BY <1>3 DEF Held, NULL
<1>4. QED BY <1>2, <1>3

LEMMA RestoredCellType ==
    ASSUME Ready, PluginOK, IsTask(Task)
    PROVE  IsCell(RestoredCell)
<1>1. Copied.type \in Types
  BY TaskTypes DEF Copied, IsCell
<1>2. IsCell(Leaf)
  <2> DEFINE t == Text(Copied.type, Copied.text)
             c == [t EXCEPT !.num = Copied.num]
  <2>1. IsCell(t)
    BY <1>1, TextIsCell
  <2> HIDE DEF t
  <2>2. DOMAIN c = DOMAIN t /\ c.type = t.type /\ c.car = t.car /\ c.cdr = t.cdr /\ c.env = t.env
    BY <2>1, CellDomain DEF IsCell
  <2> HIDE DEF c
  <2>3. IsCell(c)
    BY <2>1, <2>2 DEF IsCell
  <2>4. QED BY <2>3 DEF Leaf, c, t
<1>3. Held(0) \in Nat /\ Held(1) \in Nat /\ Made(Task.env) \in Nat
  BY HeldType, RedirectedType DEF IsTask
<1> DEFINE d == [Leaf EXCEPT !.car = Held(1), !.cdr = Held(0), !.env = Made(Task.env)]
<1>4. IsCell(d)
  <2>1. DOMAIN d = DOMAIN Leaf /\ d.type = Leaf.type
    BY <1>2, CellDomain DEF IsCell
  <2>2. d.car = Held(1) /\ d.cdr = Held(0) /\ d.env = Made(Task.env)
    BY <1>2, CellDomain DEF IsCell
  <2> HIDE DEF d
  <2>3. QED BY <1>2, <1>3, <2>1, <2>2 DEF IsCell
<1>5. QED BY <1>2, <1>4 DEF RestoredCell

LEMMA CellStep ==
    ASSUME Ready, PluginOK, data_restore_cell
    PROVE  CoreOK' /\ PluginOK'
<1> USE ReadyTypes, RestoringTypes
<1>1. /\ CoreOK /\ pc = "restoring" /\ restoring.todo # <<>>
      /\ UNCHANGED <<pc, reg, stack, GlobalEnv, stored>>
  BY DEF Ready, data_restore_cell, Restoring
<1>2. IsTodo(Tail(restoring.todo)) /\ IsTask(Task)
  BY <1>1, TodoTail DEF Task
<1> DEFINE shared == Copied.type \in {"nil", "true"}
           address == IF Copied.type = "nil" THEN NIL ELSE IF shared THEN T ELSE fresh
           cells == IF shared THEN <<>> ELSE <<RestoredCell>>
           n == IF Task.do = "cell" THEN 2 ELSE 0
<1>3. PICK j \in Room(cells) : Create(cells, j, reg, stack)
  BY DEF data_restore_cell
<1>4. restoring' = [restoring EXCEPT !.todo = Tail(@), !.held = Hold(n, address)]
  BY DEF data_restore_cell
<1>5. IsBatch(cells)
  <2>1. IsBatch(<<>>)
    BY DEF IsBatch
  <2>2. IsBatch(<<RestoredCell>>)
    BY <1>2, RestoredCellType, OneCell
  <2>3. QED BY <2>1, <2>2
<1>6. j \in 0 .. Len(cells)
  <2>1. j \in Collections(cells, reg, stack) \cup {0} /\ Len(cells) \in Nat
    BY <1>5 DEF Room, IsBatch
  <2> HIDE DEF cells
  <2>2. QED BY <1>5, <2>1, CollectionsType
<1> HIDE DEF cells
<1>7. MemoryOK' /\ UNCHANGED host
  BY <1>3, <1>5, <1>6, CreateType DEF Create, Created
<1>8. CoreOK'
  BY <1>1, <1>7, CallsSame DEF CoreOK
<1>9. Hold(n, address) \in Seq(Nat)
  <2>1. address \in Nat /\ n \in Nat
    BY DEF NIL, T, MemoryOK
  <2> HIDE DEF address, n
  <2>2. SubSeq(restoring.held, 1, Len(restoring.held) - n) \in Seq(Nat) /\ <<address>> \in Seq(Nat)
    <3>1. Pop(restoring.held, n) \in Seq(Nat)
      BY <2>1, PopType
    <3>2. QED BY <2>1, <3>1 DEF Pop
  <2>3. QED BY <2>2 DEF Hold
<1> HIDE DEF address, n
<1>10. PluginOK'
  BY <1>1, <1>2, <1>4, <1>9, RestoringNext DEF Ready
<1>11. QED BY <1>8, <1>10

LEMMA BindStep ==
    ASSUME Ready, PluginOK, env_restore_bind
    PROVE  CoreOK' /\ PluginOK'
<1> USE ReadyTypes, RestoringTypes
<1>1. /\ CoreOK /\ pc = "restoring" /\ restoring.todo # <<>>
      /\ UNCHANGED <<pc, reg, stack, GlobalEnv, stored, heap, code, fresh, have_error, error_value, host>>
      /\ envs' = Bind(envs, Made(Task.env), Task.name, Held(0))
      /\ restoring' = [restoring EXCEPT !.todo = Tail(@), !.held = Front(@)]
  BY DEF Ready, env_restore_bind, Restoring
<1>2. IsTodo(Tail(restoring.todo))
  BY <1>1, TodoTail
<1>3. Held(0) \in Nat /\ Front(restoring.held) \in Seq(Nat)
  <2>1. Held(0) \in Nat
    BY DEF Held, NULL
  <2>2. Front(restoring.held) \in Seq(Nat)
    BY FrontType
  <2>3. QED BY <2>1, <2>2
<1>4. EnvironmentsOK(envs') /\ DOMAIN envs' = DOMAIN envs
  BY <1>1, <1>3, BindType DEF MemoryOK
<1>5. MemoryOK'
  BY <1>1, <1>4, MemoryNext DEF MemoryOK
<1>6. CoreOK'
  BY <1>1, <1>5, CallsSame DEF CoreOK
<1>7. PluginOK'
  BY <1>1, <1>2, <1>3, RestoringNext DEF Ready
<1>8. QED BY <1>6, <1>7

LEMMA RedirectStep ==
    ASSUME Ready, PluginOK, eval_set_new_pointers
    PROVE  CoreOK' /\ PluginOK'
<1> USE ReadyTypes, RestoringTypes
<1> DEFINE registers == <<Data(reg.val), Data(reg.exp), Data(reg.argl), Data(reg.unev), Data(reg.proc), Env(reg.env)>>
<1>1. /\ CoreOK /\ pc = "restoring" /\ restoring' = [restoring EXCEPT !.walk = registers \o stack]
      /\ UNCHANGED <<GlobalEnv, stored, memory, host>> /\ To("redirecting", reg, stack)
  BY DEF Ready, eval_set_new_pointers
<1>2. registers \in Seq(StackEntries)
  <2>1. /\ Data(reg.val) \in StackEntries /\ Data(reg.exp) \in StackEntries /\ Data(reg.argl) \in StackEntries
        /\ Data(reg.unev) \in StackEntries /\ Data(reg.proc) \in StackEntries /\ Env(reg.env) \in StackEntries
    BY EntryTypes
  <2>2. QED BY <2>1
<1> HIDE DEF registers
<1>3. registers \o stack \in Seq(StackEntries)
  BY <1>2
<1>4. CoreOK'
  BY <1>1, MoveType DEF Labels
<1>5. PluginOK'
  BY <1>1, <1>3, RestoringNext DEF Ready
<1>6. QED BY <1>4, <1>5

LEMMA RewiredCells ==
    ASSUME NEW cells, CellsOK(cells), NEW p, p \in DOMAIN cells => Redirected(cells[p].env) \in Nat
    PROVE  /\ CellsOK([cells EXCEPT ![p].env = Redirected(@)])
           /\ DOMAIN [cells EXCEPT ![p].env = Redirected(@)] = DOMAIN cells
<1> DEFINE rewired == [cells EXCEPT ![p].env = Redirected(@)]
<1>1. ASSUME NEW x \in DOMAIN cells
      PROVE  IsCell(rewired[x]) /\ rewired[x].car \in Nat /\ rewired[x].cdr \in Nat
  <2>1. CASE x # p
    BY <2>1 DEF CellsOK
  <2>2. CASE x = p
    <3> DEFINE c == cells[x]
               e == [c EXCEPT !.env = Redirected(@)]
    <3>1. rewired[x] = e /\ IsCell(c) /\ c.car \in Nat /\ c.cdr \in Nat /\ Redirected(c.env) \in Nat
      BY <2>2 DEF CellsOK
    <3> HIDE DEF c
    <3>2. DOMAIN e = DOMAIN c /\ e.type = c.type /\ e.env = Redirected(c.env) /\ e.car = c.car /\ e.cdr = c.cdr
      BY <3>1, CellDomain DEF IsCell
    <3> HIDE DEF e
    <3>3. IsCell(e)
      BY <3>1, <3>2 DEF IsCell
    <3>4. QED BY <3>1, <3>2, <3>3
  <2>3. QED BY <2>1, <2>2
<1>2. QED BY <1>1 DEF CellsOK

LEMMA WalkStep ==
    ASSUME Ready, PluginOK, rec_set_new_pointers
    PROVE  CoreOK' /\ PluginOK'
<1> USE ReadyTypes, RestoringTypes
<1> DEFINE met == Head(restoring.walk)
           c == Cell(met.v)
           isProcedure == met.kind = "data" /\ c.type = "procedure"
           parts == IF met.kind = "data" /\ HasParts(c.type) THEN <<Data(c.car), Data(c.cdr)>> ELSE <<>>
           next == IF isProcedure THEN <<Env(c.env)>> \o parts
                   ELSE IF met.kind = "env" THEN Slots(met.v) ELSE parts
<1>1. /\ CoreOK /\ pc = "redirecting" /\ restoring.walk # <<>>
      /\ UNCHANGED <<pc, reg, stack, GlobalEnv, stored, envs, code, fresh, have_error, error_value, host>>
  BY DEF Ready, rec_set_new_pointers
<1>2. /\ restoring' = [restoring EXCEPT !.walk = next \o Tail(@)]
      /\ heap' = IF isProcedure THEN [heap EXCEPT ![met.v].env = Redirected(@)] ELSE heap
  BY DEF rec_set_new_pointers
<1>3. c.car \in Nat /\ c.cdr \in Nat /\ c.env \in Nat
  BY CellType DEF IsCell
<1>4. next \in Seq(StackEntries)
  <2>1. parts \in Seq(StackEntries) /\ <<Env(c.env)>> \in Seq(StackEntries)
    <3>1. Data(c.car) \in StackEntries /\ Data(c.cdr) \in StackEntries /\ Env(c.env) \in StackEntries
      BY <1>3, EntryTypes
    <3> HIDE DEF c, met
    <3>2. QED BY <3>1
  <2>2. Slots(met.v) \in Seq(StackEntries)
    BY SlotsType
  <2> HIDE DEF met, c, parts
  <2>3. QED BY <2>1, <2>2
<1>5. next \o Tail(restoring.walk) \in Seq(StackEntries)
  <2> HIDE DEF next
  <2>1. QED BY <1>1, <1>4
<1>6. CellsOK(heap') /\ DOMAIN heap' = DOMAIN heap
  <2>1. CASE ~ isProcedure
    BY <1>2, <2>1 DEF MemoryOK
  <2>2. CASE isProcedure
    <3> DEFINE p == met.v
    <3>1. heap' = [heap EXCEPT ![p].env = Redirected(@)]
      BY <1>2, <2>2
    <3>2. ASSUME p \in DOMAIN heap PROVE Redirected(heap[p].env) \in Nat
      BY <3>2, RedirectedType DEF MemoryOK, CellsOK, IsCell
    <3> HIDE DEF p
    <3>3. QED BY <3>1, <3>2, RewiredCells DEF MemoryOK
  <2>3. QED BY <2>1, <2>2
<1> HIDE DEF next, isProcedure
<1>7. MemoryOK'
  BY <1>1, <1>6, MemoryNext DEF MemoryOK, EnvironmentsOK
<1>8. CoreOK'
  BY <1>1, <1>7, CallsSame DEF CoreOK
<1>9. PluginOK'
  BY <1>1, <1>2, <1>5, RestoringNext DEF Ready
<1>10. QED BY <1>8, <1>9

LEMMA ReturnStep ==
    ASSUME Ready, PluginOK, env_restore_plugin_return
    PROVE  CoreOK' /\ PluginOK'
<1> USE ReadyTypes, RestoringTypes
<1> DEFINE rest == Pop(stack, 1)
           r == [reg EXCEPT !.val = T, !.env = Redirected(@), !.cont = Popped(stack, 1)]
           s == [i \in DOMAIN rest |-> IF stack[i].kind = "env" THEN Env(Redirected(stack[i].v)) ELSE stack[i]]
<1>1. /\ CoreOK /\ pc = "redirecting" /\ restoring' = NotRestoring
      /\ UNCHANGED <<GlobalEnv, stored, memory, host>> /\ To("continue", r, s)
  BY DEF Ready, env_restore_plugin_return
<1>2. r \in Registers
  <2>1. Redirected(reg.env) \in Nat /\ T \in Nat
    BY RedirectedType DEF T
  <2>2. QED BY <2>1 DEF Registers
<1>3. s \in Seq(StackEntries)
  <2>1. rest \in Seq(StackEntries) /\ Len(rest) <= Len(stack)
    BY DEF Pop
  <2>2. ASSUME NEW i \in DOMAIN rest PROVE s[i] \in StackEntries
    <3>1. stack[i] \in StackEntries
      BY <2>1
    <3>2. stack[i].v \in Nat
      BY <3>1 DEF StackEntries
    <3>3. Env(Redirected(stack[i].v)) \in StackEntries
      BY <3>2, RedirectedType, EntryTypes
    <3>4. QED BY <3>1, <3>3
  <2>3. DOMAIN rest = 1 .. Len(rest) /\ Len(rest) \in Nat
    BY <2>1
  <2> HIDE DEF rest
  <2>4. s \in [1 .. Len(rest) -> StackEntries]
    BY <2>2, <2>3
  <2> HIDE DEF s
  <2>5. \E n \in Nat : s \in [1 .. n -> StackEntries]
    BY <2>3, <2>4
  <2>6. QED BY <2>5, FunctionIsSequence
<1> HIDE DEF r, s
<1>4. CoreOK'
  BY <1>1, <1>2, <1>3, MoveType DEF Labels
<1>5. /\ restoring'.todo = <<>> /\ restoring'.held = <<>> /\ restoring'.made = <<>> /\ restoring'.walk = <<>>
      /\ DOMAIN restoring' = DOMAIN restoring
  BY <1>1, RestoringNames DEF NotRestoring
<1>6. PluginOK'
  BY <1>1, <1>5, TodoEmpty, RestoringNext DEF Ready
<1>7. QED BY <1>4, <1>6

LEMMA EnvRestoreType ==
    ASSUME Ready, PluginOK, Defined, EnvRestore
    PROVE  CoreOK' /\ PluginOK'
BY SaveStep, RestoreStep, EnvironmentStep, DataStep, CellStep, BindStep, RedirectStep, WalkStep, ReturnStep DEF EnvRestore

-----------------------------------------------------------------------------
(* Type correctness.                                                       *)

LEMMA TypeParts ==
    TypeOK <=> CoreOK /\ PluginOK
BY DEF TypeOK, CoreOK

LEMMA InvInit ==
    ASSUME Init
    PROVE  Inv
<1>1. reg \in Registers
  BY DEF Init, InitialRegisters, Registers, NULL, JUMP_CODE
<1>2. MemoryOK
  <2>1. IsEnv(envs[Global])
    <3>1. envs[Global] = [parent |-> NULL, bind |-> [nil |-> NIL]]
      BY DEF Init
    <3>2. DOMAIN [nil |-> NIL] = {"nil"} /\ [nil |-> NIL] \in [{"nil"} -> Nat]
      BY DEF NIL
    <3>3. IsFiniteSet({"nil"})
      BY FS_Singleton
    <3>4. QED BY <3>1, <3>2, <3>3 DEF IsEnv, NULL
  <2>2. DOMAIN heap = {} /\ DOMAIN envs = {Global}
    BY DEF Init
  <2>3. CellsOK(heap) /\ EnvironmentsOK(envs)
    BY <2>1, <2>2 DEF CellsOK, EnvironmentsOK
  <2>4. fresh = FirstAddress /\ code = {} /\ have_error \in BOOLEAN /\ error_value = NULL
    BY DEF Init
  <2>5. QED BY <2>2, <2>3, <2>4 DEF MemoryOK, FirstAddress, NULL
<1>3. CallsOK
  <2>1. script.programs \in Seq({script.programs[i] : i \in DOMAIN script.programs})
    BY EvaluatorAssumption DEF Init
  <2>2. Len(script.programs) \in Nat
    BY <2>1
  <2>3. QED BY <2>2 DEF Init, CallsOK
<1>4. PluginOK
  <2>1. /\ GlobalEnv = Global /\ stored = NothingSaved /\ restoring = NotRestoring
    BY DEF Init, PluginInit
  <2>2. IsTodo(restoring.todo) /\ DOMAIN restoring.made = {} /\ restoring.held = <<>> /\ restoring.walk = <<>>
    BY <2>1, TodoEmpty DEF NotRestoring
  <2>3. stored.main = NULL /\ DOMAIN stored.envs = {} /\ DOMAIN stored.cells = {}
    BY <2>1 DEF NothingSaved
  <2>4. QED BY <2>1, <2>2, <2>3 DEF PluginOK, IsTodo, Global, NULL, CellsOK, EnvironmentsOK
<1>5. QED BY <1>1, <1>2, <1>3, <1>4 DEF Init, Inv, TypeOK, Labels

LEMMA EvalType ==
    ASSUME Ready, script \in Scripts, Eval
    PROVE  CoreOK'
<1>1. CoreOK /\ GlobalEnv \in Nat /\ reg \in Registers /\ stack \in Seq(StackEntries)
  BY ReadyTypes DEF Ready
<1>2. asked \in 0 .. Len(script.programs) /\ asked < Len(script.programs) /\ asked' = asked + 1 /\ script' = script
  BY DEF Ready, CoreOK, CallsOK, Eval
<1>3. /\ script.programs \in Seq({script.programs[i] : i \in DOMAIN script.programs})
      /\ \A i \in DOMAIN script.programs : IsOutcome(script.programs[i])
  BY EvaluatorAssumption
<1>4. asked + 1 \in DOMAIN script.programs /\ asked' \in 0 .. Len(script'.programs)
  BY <1>2, <1>3
<1>5. IsResult(script.programs[asked + 1])
  BY <1>3, <1>4, OutcomeResult
<1>6. "host" \in Callers /\ pc = "host" /\ Enter(script.programs[asked + 1], "host", reg, stack)
  BY DEF Callers, Eval
<1>7. QED BY <1>1, <1>4, <1>5, <1>6, EnterType

LEMMA UndefinedType ==
    ASSUME Ready, Undefined
    PROVE  CoreOK'
<1>1. CoreOK
  BY DEF Ready
<1>2. pc # "host" /\ pc' = "undefined" /\ UNCHANGED <<reg, stack, memory, host>>
  BY DEF Undefined
<1>3. QED BY <1>1, <1>2, CallsSame, MemorySame DEF CoreOK, Labels

LEMMA ScriptSame ==
    ASSUME [Next]_vars
    PROVE  script' = script
<1>1. ASSUME UNCHANGED host PROVE script' = script
  BY <1>1 DEF host
<1>2. ASSUME NEW cells, NEW j, NEW r, NEW s, Create(cells, j, r, s) PROVE script' = script
  BY <1>2 DEF Create, Created, host
<1>3. ASSUME NEW o, NEW l, NEW r, NEW s, Deliver(o, l, r, s) PROVE script' = script
  BY <1>2, <1>3 DEF Deliver
<1>4. ASSUME NEW b, NEW r, NEW s, ExtendEnvironment(b, r, s) PROVE script' = script
  BY <1>4 DEF ExtendEnvironment, host
<1>5. ASSUME NEW p, NEW c, NEW r, NEW s, \/ run_eval_on_file(p, c, r, s) \/ run_eval_on_string(p, r, s)
      PROVE  script' = script
  BY <1>3, <1>5 DEF run_eval_on_file, run_eval_on_string, Nested
<1>6. ASSUME NEW cell, NamedCode(cell) PROVE script' = script
  BY <1>6 DEF NamedCode, Created, host
<1>7. ASSUME Dispatch PROVE script' = script
  BY <1>1, <1>3, <1>5, <1>6, <1>7
     DEF Dispatch, EvalSelf, EvalVariable, EvalQuoted, EvalLambda, EvalDefineLambda, EvalMacroLambda, EvalEval,
         EvalImport, EvalIf, EvalAssignment, EvalDefinition, EvalStore, EvalApplication, At
<1>8. ASSUME Continuation PROVE script' = script
  <2>1. ASSUME DidOperator PROVE script' = script
    BY <1>2, <1>4, <2>1 DEF DidOperator
  <2>2. ASSUME NEW l, NEW r, NEW s, NEW r2, NEW s2, AppendToLast(l, r, s, r2, s2) PROVE script' = script
    BY <2>2 DEF AppendToLast, Created, host
  <2>3. QED BY <1>1, <1>3, <1>5, <1>8, <2>1, <2>2
               DEF Continuation, IfDecide, Assignment1, Definition1, Store, OperandLoop, AccumulateArg,
                   AccumLastArg, SequenceContinue, MacroFinish, ImportAux, At
<1>9. ASSUME EvalBegin \/ Sequence \/ Apply \/ Continue \/ Exit PROVE script' = script
  <2>1. ASSUME Apply PROVE script' = script
    BY <1>1, <1>3, <1>4, <2>1 DEF Apply, PrimitiveApply, CompoundApply, UnknownProcedure, At
  <2>2. ASSUME EvalBegin PROVE script' = script
    BY <1>1, <2>2 DEF EvalBegin, At
  <2>3. ASSUME Sequence PROVE script' = script
    BY <1>1, <2>3 DEF Sequence, At
  <2>4. ASSUME Continue PROVE script' = script
    BY <1>1, <2>4 DEF Continue, At
  <2>5. ASSUME Exit PROVE script' = script
    BY <1>1, <1>3, <2>5 DEF Exit, At
  <2>6. QED BY <1>9, <2>1, <2>2, <2>3, <2>4, <2>5
<1>10. ASSUME EnvRestore PROVE script' = script
  BY <1>1, <1>2, <1>10
     DEF EnvRestore, env_restore_plugin_save, env_restore_plugin_restore, env_restore, data_restore,
         data_restore_cell, env_restore_bind, eval_set_new_pointers, rec_set_new_pointers, env_restore_plugin_return
<1>11. QED BY <1>1, <1>7, <1>8, <1>9, <1>10 DEF Next, Run, Eval, Undefined, vars, host

LEMMA InvNext ==
    ASSUME Inv, [Next]_vars
    PROVE  Inv'
<1>1. Ready /\ PluginOK /\ CoreOK /\ script \in Scripts
  BY TypeParts DEF Inv, Ready, PluginOK
<1>2. script' \in Scripts
  BY <1>1, ScriptSame
<1>3. CASE Run
  <2>1. Defined
    BY <1>3 DEF Run
  <2>2. CASE EnvRestore
    BY <1>1, <1>2, <2>1, <2>2, EnvRestoreType, TypeParts DEF Inv, TypeOK, CoreOK
  <2>3. CASE (Dispatch \/ EvalBegin \/ Sequence \/ Continuation \/ Apply \/ Continue \/ Exit) /\ UNCHANGED plugin
    <3>1. CoreOK'
      BY <1>1, <2>3, DispatchType, SequenceType, ContinuationType, ApplyType, ContinueType, ExitType
    <3>2. PluginOK'
      BY <1>1, <2>3, PluginSame
    <3>3. QED BY <1>2, <3>1, <3>2 DEF Inv, TypeOK, CoreOK
  <2>4. QED BY <1>3, <2>2, <2>3 DEF Run
<1>4. CASE (Eval \/ Undefined) /\ UNCHANGED plugin
  <2>1. CoreOK'
    BY <1>1, <1>4, EvalType, UndefinedType
  <2>2. PluginOK'
    BY <1>1, <1>4, PluginSame
  <2>3. QED BY <1>2, <2>1, <2>2 DEF Inv, TypeOK, CoreOK
<1>5. CASE UNCHANGED vars
  <2>1. PluginOK'
    BY <1>1, <1>5, PluginSame DEF vars
  <2>2. MemoryOK'
    BY <1>1, <1>5, MemorySame DEF vars, CoreOK
  <2>3. CallsOK'
    BY <1>1, <1>5 DEF vars, host, CoreOK, CallsOK
  <2>4. QED BY <1>1, <1>2, <1>5, <2>1, <2>2, <2>3 DEF Inv, TypeOK, CoreOK, vars
<1>6. QED BY <1>3, <1>4, <1>5 DEF Next

\* Registers, stack entries, cells and bindings hold addresses and codes at
\* every label, no address is used twice, and eval returns to the callers that
\* wait for it, whatever is evaluated, saved and restored.
THEOREM TypeCorrect == Spec => []TypeOK
<1>1. Init => Inv
  BY InvInit
<1>2. Inv /\ [Next]_vars => Inv'
  BY InvNext
<1>3. Inv => TypeOK
  BY DEF Inv
<1>4. QED BY <1>1, <1>2, <1>3, PTL DEF Spec
=============================================================================
