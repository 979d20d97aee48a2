------------------------------- MODULE Machine -------------------------------
(***************************************************************************)
(* The machine eval.c is written for: the registers, the typed stack, data *)
(* cells and environments, and what an allocation does to them.            *)
(*                                                                         *)
(* Everything a register or a stack entry can hold is an integer, as in C: *)
(* a pointer, or a continuation code.  Addresses are never used twice, so  *)
(* a pointer to a freed object can be told from every other.  Whether the  *)
(* block or environment table is full at an allocation depends on all that *)
(* ran before, so a collection may or may not happen at each; it frees     *)
(* what cannot be reached (module Collector).                              *)
(***************************************************************************)
EXTENDS Integers, SequencesExt

CONSTANTS
    MaxStackDepth,  \* MAX_STACK_DEPTH
    KillIfError     \* the property kill_if_error

ASSUME MachineAssumption == MaxStackDepth \in Nat /\ KillIfError \in BOOLEAN

NULL == 0
WILD == 99          \* what a field that holds no pointer is when read as one
NIL == 100
T == 101
Global == 102       \* the first environment
FirstAddress == 103

\* The continuation codes.
JUMP_CODE == 0
JUMP_MACRO_FINISH == 1
JUMP_EV_DEFINITION_1 == 2
JUMP_EV_ASSIGNMENT_1 == 3
JUMP_EV_APPL_DID_OPERATOR == 4
JUMP_EV_APPL_ACCUMULATE_ARG == 5
JUMP_EV_APPL_ACCUM_LAST_ARG == 6
JUMP_EV_SEQUENCE_CONTINUE == 7
JUMP_EV_IF_DECIDE == 8
JUMP_EV_IMPORT_AUX == 10

VARIABLES
    pc,           \* the label reached; "host" outside eval, "undefined" after
                  \* a failed assertion or what C leaves undefined
    reg,          \* the registers
    stack,
    heap,         \* the data cells, by address
    envs,         \* the environments, by address
    GlobalEnv,
    code,         \* addresses of the cells of loaded programs
    fresh,        \* the next address malloc returns
    have_error, error_value,
    calls,        \* the C callers of eval, innermost first
    script,       \* what the host evaluates in this behaviour
    asked,        \* how many of its texts it has begun to evaluate
    result        \* what eval returned to the host

memory == <<heap, envs, code, fresh, have_error, error_value>>
host == <<calls, script, asked, result>>

\* f with the value v at x, and with those of g where it has none.
With(f, x, v) == [y \in {x} \cup DOMAIN f |-> IF y = x THEN v ELSE f[y]]
Over(f, g) == [x \in DOMAIN f \cup DOMAIN g |-> IF x \in DOMAIN f THEN f[x] ELSE g[x]]

-----------------------------------------------------------------------------
(* Cells.                                                                  *)

StringTypes == {"string", "symbol", "variable", "error"}

Text(type, text) == [type |-> type, text |-> text, num |-> 0, car |-> WILD, cdr |-> WILD, env |-> NULL]
Error(text) == Text("error", text)
Number(n) == [Text("number", "") EXCEPT !.num = n]
Pair(a, d) == [Text("pair", "") EXCEPT !.car = a, !.cdr = d]
\* args and code share the storage of car and cdr.
Procedure(args, body, e) == [Pair(args, body) EXCEPT !.type = "procedure", !.env = e]
Macro(args, body) == [Pair(args, body) EXCEPT !.type = "macro"]

NilCell == [Pair(NIL, NIL) EXCEPT !.type = "nil"]
TrueCell == Text("true", "")
BadCell == Text("bad", "")

\* In a batch of cells, below, car and cdr may be negative.
Types == {"string", "symbol", "variable", "error", "number", "pair", "procedure", "macro", "nil", "true", "bad"}
IsCell(c) ==
    /\ DOMAIN c = DOMAIN BadCell /\ c.type \in Types
    /\ {c.car, c.cdr} \subseteq Int /\ c.env \in Nat

CellIn(cells, p) == CASE p = NIL -> NilCell
                      [] p = T -> TrueCell
                      [] p \in DOMAIN cells -> cells[p]
                      [] OTHER -> BadCell
Cell(p) == CellIn(heap, p)

IsData(p) == Cell(p).type # "bad"
IsStringType(p) == Cell(p).type \in StringTypes
IsPair(p) == Cell(p).type \in {"pair", "nil"}
HasCar(p) == Cell(p).type \in {"pair", "nil", "procedure", "macro"}
IsNumber(p) == Cell(p).type = "number"
CAR(p) == Cell(p).car
CDR(p) == Cell(p).cdr
CADR(p) == CAR(CDR(p))
CDDR(p) == CDR(CDR(p))
TextOf(p) == IF IsStringType(p) THEN Cell(p).text ELSE ""

\* The n-th CDR of a list, and its elements.  No list has more pairs than there
\* are cells.
NthCdr(list, n) ==
    LET rest[k \in Nat] == IF k = 0 THEN list ELSE CDR(rest[k - 1])
    IN  rest[n]
Places == 0 .. Cardinality(DOMAIN heap)
IsPlace(list, n) == IsPair(NthCdr(list, n)) /\ NthCdr(list, n) # NIL
Length(list) ==
    IF \A n \in Places : IsPlace(list, n) THEN Cardinality(DOMAIN heap)
    ELSE CHOOSE n \in Places : ~ IsPlace(list, n) /\ \A k \in 0 .. n - 1 : IsPlace(list, k)
Elements(list) == [n \in 1 .. Length(list) |-> CAR(NthCdr(list, n - 1))]

-----------------------------------------------------------------------------
(* The stack.                                                              *)

Data(p) == [kind |-> "data", v |-> p]
Env(e) == [kind |-> "env", v |-> e]
Cont(c) == [kind |-> "cont", v |-> c]
ArgPointer(p) == [kind |-> "arg", v |-> p]

\* push_stack drops an entry when the stack is full.
Push(s, entries) ==
    LET all == s \o entries
    IN  IF Len(all) <= MaxStackDepth THEN all ELSE SubSeq(all, 1, MaxStackDepth)

\* The i-th value popped from s, NULL when it is empty, and s after n pops.
Popped(s, i) == IF i > Len(s) THEN NULL ELSE s[Len(s) - i + 1].v
Pop(s, n) == SubSeq(s, 1, Len(s) - n)

save_regs(r, s) ==
    Push(s, <<Data(r.exp), Data(r.argl), Data(r.unev), Data(r.proc), Data(r.code), Data(r.top),
              Env(r.env), Cont(r.cont), ArgPointer(r.last)>>)

\* The registers r after pops into the named registers, in that order.
PopInto(names, r, s) ==
    [n \in DOMAIN r |-> IF \E i \in DOMAIN names : names[i] = n
                        THEN Popped(s, CHOOSE i \in DOMAIN names : names[i] = n)
                        ELSE r[n]]

Saved == <<"last", "cont", "env", "top", "code", "proc", "unev", "argl", "exp">>

restore_regs(r, s) == PopInto(Saved, r, s)

-----------------------------------------------------------------------------
(* What a collection keeps.  r and s are the registers and the stack when  *)
(* it starts.                                                              *)

Entries(s, kind) == {s[i].v : i \in {j \in DOMAIN s : s[j].kind = kind}}

\* Fault: the environments on the stack are not reported.
RootsNoStackEnvs(r, s) ==
    {NIL, T, GlobalEnv, r.val, r.exp, r.argl, r.unev, r.proc, r.env} \cup Entries(s, "data")

\* What eval_gather_gc reports.
Roots(r, s) ==
    {NIL, T, GlobalEnv, r.val, r.exp, r.argl, r.unev, r.proc, r.env}
      \cup Entries(s, "data") \cup Entries(s, "env")

Targets(a) ==
    CASE a \in DOMAIN heap -> {heap[a].car, heap[a].cdr, heap[a].env}
      [] a \in DOMAIN envs -> {envs[a].parent} \cup Range(envs[a].bind)
      [] OTHER -> {}

Marked(r, s) ==
    LET close[S \in SUBSET Int] ==
            LET more == S \cup UNION {Targets(a) : a \in S}
            IN  IF more = S THEN S ELSE close[more]
    IN  close[Roots(r, s)]

\* The pointers a collection follows lead to objects of the right kind.
Wholesome(r, s) ==
    /\ {r.val, r.exp, r.argl, r.unev, r.proc} \cup Entries(s, "data")
         \subseteq {NULL, NIL, T} \cup DOMAIN heap
    /\ {r.env} \cup Entries(s, "env") \subseteq {NULL} \cup DOMAIN envs
    /\ Marked(r, s) \subseteq {NULL, WILD, NIL, T} \cup DOMAIN heap \cup DOMAIN envs

-----------------------------------------------------------------------------
(* Allocation.  A batch is what a C function creates with nothing stored   *)
(* into a register before its last cell.  In a batch, -i is its i-th cell. *)

Address(p) == IF p < 0 THEN fresh - p - 1 ELSE p

Relocated(cells) ==
    [a \in fresh .. fresh + Len(cells) - 1 |->
        LET c == cells[a - fresh + 1] IN [c EXCEPT !.car = Address(@), !.cdr = Address(@)]]

Keep(f, S) == Restrict(f, DOMAIN f \cap S)

\* j > 0: the table is full at the j-th data_create of the batch, and the
\* collection also frees the cells made before it, which nothing refers to
\* yet.  Following a pointer that dangles is undefined: no such collection.
Collections(cells, r, s) == IF Wholesome(r, s) THEN 0 .. Len(cells) ELSE {0}

\* Fault: the cells of programs are collected like the others.
HeapAfterCollectsCode(cells, j, r, s) ==
    IF j = 0 THEN Over(Relocated(cells), heap)
    ELSE Over(Keep(Relocated(cells), fresh + j - 1 .. fresh + Len(cells) - 1), Keep(heap, Marked(r, s)))

HeapAfter(cells, j, r, s) ==
    IF j = 0 THEN Over(Relocated(cells), heap)
    ELSE Over(Keep(Relocated(cells), fresh + j - 1 .. fresh + Len(cells) - 1),
              Keep(heap, Marked(r, s) \cup code))

EnvsAfter(j, r, s) == IF j = 0 THEN envs ELSE Keep(envs, Marked(r, s))

\* The rest of data_create: addresses, and eval_set_error.
Created(cells) ==
    LET isError(c) == c.type = "error"
    IN  /\ fresh' = fresh + Len(cells)
        /\ have_error' = (have_error \/ \E c \in Range(cells) : isError(c))
        /\ error_value' = IF KillIfError /\ \E c \in Range(cells) : isError(c)
                          THEN fresh ELSE error_value
        /\ UNCHANGED <<code, host>>

Create(cells, j, r, s) ==
    /\ heap' = HeapAfter(cells, j, r, s)
    /\ envs' = EnvsAfter(j, r, s)
    /\ Created(cells)

To(label, r, s) == pc' = label /\ reg' = r /\ stack' = s

\* An outcome is a batch and the pointer a function returns, which goes into val.
Deliver(outcome, label, r, s) ==
    \E j \in Collections(outcome.cells, r, s) :
        /\ Create(outcome.cells, j, r, s)
        /\ To(label, [r EXCEPT !.val = Address(outcome.val)], s)

Returns(p) == [cells |-> <<>>, val |-> p]
Creates(cell) == [cells |-> <<cell>>, val |-> -1]

-----------------------------------------------------------------------------
(* Environments.                                                           *)

Bind(environments, e, name, p) == [environments EXCEPT ![e].bind = With(@, name, p)]

Binds(e, name) == e \in DOMAIN envs /\ name \in DOMAIN envs[e].bind

\* Where the walk from env to its parents ends: the innermost environment that
\* binds the name, or what is no environment.
Reached(name, env) ==
    LET at[e \in Int] == IF e \in DOMAIN envs /\ ~ Binds(e, name) THEN at[envs[e].parent] ELSE e
    IN  at[env]

\* env_get with recursion: the innermost binding, or NULL.
Lookup(name, env) ==
    IF Binds(Reached(name, env), name) THEN envs[Reached(name, env)].bind[name] ELSE NULL

\* Fault: set stores into the current environment.
HolderCurrent(name, env) == env

\* Where set_variable_value stores: the environment that has the variable, or
\* the current one.
Holder(name, env) == IF Binds(Reached(name, env), name) THEN Reached(name, env) ELSE env

\* The n-th parameter, from 0.  A list of them ends with a NIL element, as NIL
\* has, or with "&rest".
Parameter(formals, n) == CAR(NthCdr(formals, n))
EndsAt(formals, n) == Parameter(formals, n) = NIL \/ TextOf(Parameter(formals, n)) = "&rest"

\* A parameter list extend_environment can walk: there is a first place where
\* it ends.  (In a guard, TLC would try every n for an \E.)
Walkable(formals) ==
    ~ \A n \in Places :
        EndsAt(formals, n) =>
            \E k \in 0 .. n : ~ HasCar(NthCdr(formals, k)) \/ (k < n /\ ~ IsStringType(Parameter(formals, k)))

\* extend_environment: "&rest" is bound to what is left of the arguments, a
\* parameter without an argument to the CAR of NIL; the last of two parameters
\* with the same name counts.
Bindings(formals, actuals) ==
    LET n == CHOOSE x \in Places : EndsAt(formals, x) /\ \A k \in 0 .. x - 1 : ~ EndsAt(formals, k)
        Name(k) == TextOf(Parameter(formals, k))
        Latest(name) == CHOOSE k \in 0 .. n - 1 : Name(k) = name /\ \A i \in k + 1 .. n - 1 : Name(i) # name
        named == [name \in {Name(k) : k \in 0 .. n - 1} |-> CAR(NthCdr(actuals, Latest(name)))]
    IN  IF Parameter(formals, n) = NIL THEN named ELSE With(named, "&rest", NthCdr(actuals, n))

\* The call of a procedure or a macro: r.unev are the parameters, r.argl the
\* arguments, r.env the parent; the body is then run as a sequence.
ExtendEnvironment(body, r, s) ==
    /\ Walkable(r.unev)
    /\ \E j \in Collections(<<BadCell>>, r, s) :
         /\ envs' = With(EnvsAfter(j, r, s), fresh,
                           [parent |-> r.env, bind |-> Bindings(r.unev, r.argl)])
         /\ heap' = IF j = 0 THEN heap ELSE Keep(heap, Marked(r, s) \cup code)
    /\ fresh' = fresh + 1
    /\ UNCHANGED <<code, have_error, error_value, host>>
    /\ To("sequence", [r EXCEPT !.env = fresh, !.unev = body], s)
=============================================================================
