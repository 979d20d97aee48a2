----------------------------- MODULE EnvRestore ------------------------------
(***************************************************************************)
(* EnvRestore.cpp: env:save copies the global environment, with every      *)
(* environment its closures are in, outside the memory that is collected;  *)
(* env:restore makes collected ones from the copies, one allocation at a   *)
(* time, and has eval.c replace its pointers to the old ones.              *)
(***************************************************************************)
EXTENDS CorePrims

CONSTANTS
    RestoreCollects,   \* whether the tables may become full during a restore
    WalkBound          \* the pending calls at which a recursion has overflowed

ASSUME RestoreAssumption == RestoreCollects \in BOOLEAN /\ WalkBound \in Nat

VARIABLES
    stored,       \* what was saved: the environment that was global, the
                  \* environments copied, by the address of their original
                  \* (store_visited), and the cells that are copied with them
    restoring     \* the recursion of a restore: what it has still to do, the
                  \* values it holds, restore_visited; then what the pointers
                  \* are still to be looked for in

plugin == <<GlobalEnv, stored, restoring>>

NothingSaved == [main |-> NULL, envs |-> <<>>, cells |-> <<>>]
NotRestoring == [todo |-> <<>>, held |-> <<>>, made |-> <<>>, walk |-> <<>>]
PluginInit == GlobalEnv = Global /\ stored = NothingSaved /\ restoring = NotRestoring

Applies(name) == pc = "apply" /\ TextOf(reg.proc) = name

-----------------------------------------------------------------------------
(* Saving.                                                                  *)

HasParts(type) == type \in {"pair", "procedure", "macro"}

\* The environments of the procedures found in the data at p.
EnvsIn(p) ==
    LET from[q \in Int] ==
            LET c == Cell(q)
            IN  (IF c.type = "procedure" THEN {c.env} ELSE {})
                  \cup (IF HasParts(c.type) THEN from[c.car] \cup from[c.cdr] ELSE {})
    IN  from[p]

\* A copy keeps the parent of its original, which is not copied for that.
env_store(main) ==
    LET close[S \in SUBSET Int] ==
            LET more == S \cup UNION {EnvsIn(p) : p \in UNION {Range(envs[e].bind) : e \in S}}
            IN  IF more = S THEN S ELSE close[more]
    IN  Restrict(envs, close[{main}] \cap DOMAIN envs)

\* Data is copied as a tree.  Here the copy is the cells as they are now, of
\* which a restore looks at those it finds from the environments copied.
env_restore_plugin_save ==
    /\ Applies("env:save")
    /\ stored' = [main |-> GlobalEnv, envs |-> env_store(GlobalEnv), cells |-> heap]
    /\ To("continue", [reg EXCEPT !.val = T, !.cont = Popped(stack, 1)], Pop(stack, 1))
    /\ UNCHANGED <<GlobalEnv, restoring, memory, host>>

-----------------------------------------------------------------------------
(* Restoring.  The recursion is written out as tasks: an environment, the   *)
(* data bound in it, a cell once its parts are made, a binding.             *)

Copy(p) == CellIn(stored.cells, p)
CopiedEnv(p) == IF Copy(p).type = "procedure" THEN Copy(p).env ELSE NULL

EnvTask(e) == [do |-> "env", env |-> e, copy |-> NULL, name |-> ""]
DataTask(p) == [do |-> "data", env |-> CopiedEnv(p), copy |-> p, name |-> ""]
CellTask(p) == [DataTask(p) EXCEPT !.do = "cell"]
BindTask(e, name) == [do |-> "bind", env |-> e, copy |-> NULL, name |-> name]

Restoring(do) == pc = "restoring" /\ restoring.todo # <<>> /\ Head(restoring.todo).do = do
Task == Head(restoring.todo)
Copied == Copy(Task.copy)
Instead(tasks) == tasks \o Tail(restoring.todo)
Held(n) == IF n < Len(restoring.held) THEN restoring.held[Len(restoring.held) - n] ELSE NULL
Hold(n, p) == SubSeq(restoring.held, 1, Len(restoring.held) - n) \o <<p>>

\* What restore_visited has for e, NULL for nothing.
Made(e) == IF e \in DOMAIN restoring.made THEN restoring.made[e] ELSE NULL

\* The bindings in the order of their slots, of which the model takes one.
BindingTasks(e) ==
    LET bind == stored.envs[e].bind
        names == SetToSeq(DOMAIN bind)
        Name(k) == names[(k + 1) \div 2]
    IN  [k \in 1 .. 2 * Len(names) |->
            IF k % 2 = 1 THEN DataTask(bind[Name(k)]) ELSE BindTask(e, Name(k))]

Room(cells) == IF RestoreCollects THEN Collections(cells, reg, stack) ELSE {0}

env_restore_plugin_restore ==
    /\ Applies("env:restore")
    /\ IF stored = NothingSaved
       THEN /\ To("continue", [reg EXCEPT !.val = NIL, !.cont = Popped(stack, 1)], Pop(stack, 1))
            /\ UNCHANGED restoring
       ELSE /\ To("restoring", reg, stack)
            /\ restoring' = [NotRestoring EXCEPT !.todo = <<EnvTask(stored.main)>>]
    /\ UNCHANGED <<GlobalEnv, stored, memory, host>>

\* An environment met before is not made again.
env_restore ==
    /\ Restoring("env")
    /\ IF Task.env \in DOMAIN restoring.made
       THEN restoring' = [restoring EXCEPT !.todo = Tail(@)] /\ UNCHANGED <<GlobalEnv, memory>>
       ELSE /\ \E j \in Room(<<BadCell>>) :
                 /\ envs' = With(EnvsAfter(j, reg, stack), fresh,
                                 [parent |-> stored.envs[Task.env].parent, bind |-> <<>>])
                 /\ heap' = IF j = 0 THEN heap ELSE Keep(heap, Marked(reg, stack) \cup code)
            /\ GlobalEnv' = IF restoring.made = <<>> THEN fresh ELSE GlobalEnv
            /\ restoring' = [restoring EXCEPT !.made = With(@, Task.env, fresh),
                                              !.todo = Instead(BindingTasks(Task.env))]
            /\ fresh' = fresh + 1
            /\ UNCHANGED <<code, have_error, error_value>>
    /\ UNCHANGED <<pc, reg, stack, stored, host>>

\* The parts of a pair, a procedure or a macro come first, a procedure's
\* environment before them.
data_restore ==
    /\ Restoring("data") /\ HasParts(Copied.type)
    /\ LET parts == <<DataTask(Copied.car), DataTask(Copied.cdr), CellTask(Task.copy)>>
       IN  restoring' = [restoring EXCEPT !.todo =
                             Instead(IF Copied.type = "procedure" THEN <<EnvTask(Task.env)>> \o parts ELSE parts)]
    /\ UNCHANGED <<pc, reg, stack, GlobalEnv, stored, memory, host>>

Leaf == [Text(Copied.type, Copied.text) EXCEPT !.num = Copied.num]

\* Fault: the parts of a cell are taken in the wrong order.
RestoredCellSwapped ==
    IF Task.do = "data" THEN Leaf
    ELSE [Leaf EXCEPT !.car = Held(0), !.cdr = Held(1), !.env = Made(Task.env)]

\* The cell that the task at hand creates.
RestoredCell ==
    IF Task.do = "data" THEN Leaf
    ELSE [Leaf EXCEPT !.car = Held(1), !.cdr = Held(0), !.env = Made(Task.env)]

data_restore_cell ==
    /\ Restoring("cell") \/ (Restoring("data") /\ ~ HasParts(Copied.type))
    /\ LET shared == Copied.type \in {"nil", "true"}
           address == IF Copied.type = "nil" THEN NIL ELSE IF shared THEN T ELSE fresh
           cells == IF shared THEN <<>> ELSE <<RestoredCell>>
       IN  /\ \E j \in Room(cells) : Create(cells, j, reg, stack)
           /\ restoring' = [restoring EXCEPT !.todo = Tail(@),
                                             !.held = Hold(IF Task.do = "cell" THEN 2 ELSE 0, address)]
    /\ UNCHANGED <<pc, reg, stack, GlobalEnv, stored>>

env_restore_bind ==
    /\ Restoring("bind")
    /\ envs' = Bind(envs, Made(Task.env), Task.name, Held(0))
    /\ restoring' = [restoring EXCEPT !.todo = Tail(@), !.held = Front(@)]
    /\ UNCHANGED <<pc, reg, stack, GlobalEnv, stored, heap, code, fresh, have_error, error_value, host>>

-----------------------------------------------------------------------------
(* eval_set_new_pointers.                                                   *)

Redirected(e) == IF e \in DOMAIN stored.envs THEN Made(e) ELSE e

\* What the recursion looks at in environment e: nothing if e is replaced.
Slots(e) ==
    IF e \notin DOMAIN envs \ DOMAIN stored.envs THEN <<>>
    ELSE LET names == SetToSeq(DOMAIN envs[e].bind)
         IN  [i \in DOMAIN names |-> Data(envs[e].bind[names[i]])]

\* The registers and the stack, of which it is handed the data and the
\* environments.
eval_set_new_pointers ==
    /\ pc = "restoring" /\ restoring.todo = <<>>
    /\ To("redirecting", reg, stack)
    /\ restoring' = [restoring EXCEPT !.walk =
                        <<Data(reg.val), Data(reg.exp), Data(reg.argl), Data(reg.unev), Data(reg.proc),
                          Env(reg.env)>> \o stack]
    /\ UNCHANGED <<GlobalEnv, stored, memory, host>>

\* No call remembers where it has been: a cell that is met again has an
\* environment that is not an old one.
rec_set_new_pointers ==
    /\ pc = "redirecting" /\ restoring.walk # <<>>
    /\ LET met == Head(restoring.walk)
           c == Cell(met.v)
           isProcedure == met.kind = "data" /\ c.type = "procedure"
           parts == IF met.kind = "data" /\ HasParts(c.type) THEN <<Data(c.car), Data(c.cdr)>> ELSE <<>>
           next == IF isProcedure THEN <<Env(c.env)>> \o parts
                   ELSE IF met.kind = "env" THEN Slots(met.v) ELSE parts
       IN  /\ restoring' = [restoring EXCEPT !.walk = next \o Tail(@)]
           /\ heap' = IF isProcedure THEN [heap EXCEPT ![met.v].env = Redirected(@)] ELSE heap
    /\ UNCHANGED <<pc, reg, stack, GlobalEnv, stored, envs, code, fresh, have_error, error_value, host>>

env_restore_plugin_return ==
    /\ pc = "redirecting" /\ restoring.walk = <<>>
    /\ To("continue", [reg EXCEPT !.val = T, !.env = Redirected(@), !.cont = Popped(stack, 1)],
          [i \in DOMAIN Pop(stack, 1) |->
              IF stack[i].kind = "env" THEN Env(Redirected(stack[i].v)) ELSE stack[i]])
    /\ restoring' = NotRestoring
    /\ UNCHANGED <<GlobalEnv, stored, memory, host>>

\* Elsewhere the recursion has overflowed the C stack, a procedure was copied
\* without its environment, or a binding is made in one that has been freed.
RestoreDefined ==
    IF pc = "redirecting" THEN Len(restoring.walk) <= WalkBound
    ELSE IF restoring.todo = <<>> THEN Wholesome(reg, stack)
    ELSE /\ Task.do = "env" => Task.env \in DOMAIN stored.envs
         /\ Task.do = "bind" => Made(Task.env) \in DOMAIN envs

EnvRestore ==
    \/ env_restore_plugin_save \/ env_restore_plugin_restore
    \/ env_restore \/ data_restore \/ data_restore_cell \/ env_restore_bind
    \/ eval_set_new_pointers \/ rec_set_new_pointers \/ env_restore_plugin_return

-----------------------------------------------------------------------------
\* The tree that the data at p is, in a set of cells, with environment e called
\* nameOf[e].
data_store(cells, p, nameOf) ==
    LET copy[q \in Int] ==
            LET c == CellIn(cells, q)
            IN  [type |-> c.type, text |-> c.text, num |-> c.num,
                 env |-> IF c.type = "procedure" THEN nameOf[c.env] ELSE NULL,
                 parts |-> IF HasParts(c.type) THEN <<copy[c.car], copy[c.cdr]>> ELSE <<>>]
    IN  copy[p]

\* When a restore has made its last cell, the new environments are those that
\* were saved: as many, with the same parents, names and data, and closures that
\* shared an environment share the new one.
RestoredAsSaved ==
    LET made == restoring.made
        original == [e \in Int |-> IF e \in Range(made) THEN CHOOSE o \in DOMAIN made : made[o] = e ELSE NULL]
        Tree(cells, e, nameOf) ==
            [parent |-> e.parent, bind |-> [name \in DOMAIN e.bind |-> data_store(cells, e.bind[name], nameOf)]]
    IN  pc = "restoring" /\ restoring.todo = <<>> =>
            /\ made \in [DOMAIN stored.envs -> DOMAIN envs]
            /\ \A e, f \in DOMAIN made : made[e] = made[f] => e = f
            /\ \A e \in DOMAIN made :
                   Tree(heap, envs[made[e]], original) = Tree(stored.cells, stored.envs[e], [x \in Int |-> x])
=============================================================================
