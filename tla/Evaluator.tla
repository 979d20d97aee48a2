------------------------------ MODULE Evaluator ------------------------------
(***************************************************************************)
(* eval() of eval.c: one action per label, nested evaluation of strings    *)
(* and files, error handling, and a host that evaluates one text after     *)
(* another.                                                                *)
(***************************************************************************)
EXTENDS EnvRestore

CONSTANTS
    Image,      \* what reader_to_data makes of each text that can be read
    Quoted,     \* the texts that begin with an open parenthesis
    Files,      \* the file names that can be found in a search directory
    Scripts     \* what the host may evaluate: programs, and the values they
                \* should have

vars == <<pc, reg, stack, memory, host, plugin>>

\* What reader_to_data returns: cells that refer to each other and to what is
\* always there.  Nothing is made of no nodes, and of a text that begins with an
\* open parenthesis at least one cell.
IsOutcome(o) ==
    LET places == -Len(o.cells) .. T
    IN  /\ Len(o.cells) \in Nat /\ DOMAIN o.cells = 1 .. Len(o.cells)
        /\ \A i \in DOMAIN o.cells :
             /\ IsCell(o.cells[i]) /\ o.cells[i].type # "error" /\ o.cells[i].env = NULL
             /\ {o.cells[i].car, o.cells[i].cdr} \subseteq places
        /\ o.val \in places

ASSUME EvaluatorAssumption ==
    /\ Quoted \subseteq DOMAIN Image
    /\ \A t \in DOMAIN Image : IsOutcome(Image[t])
    /\ \A t \in Quoted : Image[t].val < 0
    /\ \A s \in Scripts : s.programs \in Seq({s.programs[i] : i \in DOMAIN s.programs})
                           /\ \A i \in DOMAIN s.programs : IsOutcome(s.programs[i])

-----------------------------------------------------------------------------
(* Entering and leaving eval().                                            *)

InitialRegisters ==
    [val |-> NULL, exp |-> NULL, argl |-> NULL, unev |-> NULL, proc |-> NULL, env |-> NULL,
     cont |-> JUMP_CODE, last |-> NULL, code |-> NULL, top |-> NULL]

\* eval_init, without the cell that holds the name "nil".
Init ==
    /\ pc = "host" /\ reg = InitialRegisters /\ stack = <<>>
    /\ heap = <<>> /\ code = {} /\ PluginInit
    /\ envs = [e \in {Global} |-> [parent |-> NULL, bind |-> [nil |-> NIL]]]
    /\ fresh = FirstAddress
    /\ have_error = FALSE /\ error_value = NULL
    /\ calls = <<>> /\ result = NULL
    /\ script \in Scripts /\ asked = 0

\* Up to EVAL_BEGIN or EVAL_DISPATCH.  The code is an outcome; that of nodes
\* the reader makes nothing of is NULL.
Enter(program, caller, r, s) ==
    /\ stack' = save_regs(r, s)
    /\ calls' = <<caller>> \o calls
    /\ IF program.val = NULL
       THEN /\ reg' = [r EXCEPT !.cont = JUMP_CODE]
            /\ pc' = "exit"
            /\ UNCHANGED memory
       ELSE LET top == Address(program.val)
            IN  /\ heap' = Over(Relocated(program.cells), heap)
                /\ code' = code \cup DOMAIN Relocated(program.cells)
                /\ fresh' = fresh + Len(program.cells)
                /\ reg' = [r EXCEPT !.cont = JUMP_CODE, !.code = top, !.top = top,
                                    !.exp = top, !.env = GlobalEnv]
                /\ pc' = IF top = NIL \/ heap'[top].type = "pair" THEN "begin" ELSE "dispatch"
                /\ UNCHANGED <<envs, have_error, error_value>>

Eval ==
    /\ pc = "host"
    /\ asked < Len(script.programs)
    /\ asked' = asked + 1
    /\ Enter(script.programs[asked + 1], "host", reg, stack)
    /\ UNCHANGED <<script, result>>

\* run_eval_on_string and run_eval_on_file save the registers too.
Nested(text, caller, r, s) ==
    /\ Enter(Image[text], caller, [r EXCEPT !.cont = JUMP_CODE], save_regs(r, s))
    /\ UNCHANGED <<script, asked, result>>

run_eval_on_string(p, r, s) ==
    IF TextOf(p) \in DOMAIN Image
    THEN Nested(TextOf(p), "string", r, s)
    ELSE Deliver(Creates(Error("problem reading string")), "continue", r, s)

\* The error for a missing file takes its line from val.
run_eval_on_file(name, caller, r, s) ==
    /\ name \notin Files \cap DOMAIN Image => r.val # NULL
    /\ IF name \in Files \cap DOMAIN Image
       THEN Nested(name, caller, r, s)
       ELSE Deliver(Creates(Error("problem with file")), "continue",
                    IF caller = "import_aux" THEN [r EXCEPT !.cont = Popped(s, 1)] ELSE r,
                    IF caller = "import_aux" THEN Pop(s, 1) ELSE s)

\* Fault: registers are restored once for a nested evaluation.
ReturnOnce(r, s) ==
    CASE Head(calls) = "host" -> [label |-> "host", r |-> r, s |-> s]
      [] OTHER -> [label |-> "continue", r |-> r, s |-> s]

\* Back in the caller: run_eval_on_string and run_eval_on_file restore the
\* registers they saved, EVAL_IMPORT_AUX then pops cont.
Return(r, s) ==
    LET r2 == restore_regs(r, s)
        s2 == Pop(s, Len(Saved))
    IN  CASE Head(calls) = "host" -> [label |-> "host", r |-> r, s |-> s]
          [] Head(calls) = "import_aux" ->
                [label |-> "continue", r |-> [r2 EXCEPT !.cont = Popped(s2, 1)], s |-> Pop(s2, 1)]
          [] OTHER -> [label |-> "continue", r |-> r2, s |-> s2]

\* EXIT_EVAL.  Of the program only its first cell is freed.
Exit ==
    LET back == Return(restore_regs(reg, stack), Pop(stack, Len(Saved)))
    IN  /\ pc = "exit"
        /\ reg.top \in code \cup {NULL}
        /\ heap' = Keep(heap, DOMAIN heap \ {reg.top})
        /\ code' = code \ {reg.top}
        /\ To(back.label, back.r, back.s)
        /\ result' = IF Head(calls) = "host" THEN reg.val ELSE result
        /\ calls' = Tail(calls)
        /\ UNCHANGED <<envs, fresh, have_error, error_value, script, asked>>

-----------------------------------------------------------------------------
(* The labels.  The first conjuncts of an action are its label and the     *)
(* form it is for; Follows says which pointers must be good.               *)

Form == TextOf(CAR(reg.exp))
Forms == {"define", "macro", "set", "begin", "lambda", "if", "eval", "import"}

At(label) == pc = label /\ UNCHANGED <<memory, host>>
AtForm(form) == pc = "dispatch" /\ Cell(reg.exp).type = "pair" /\ Form = form

EvalSelf ==
    /\ At("dispatch")
    /\ Cell(reg.exp).type \in {"string", "number", "nil", "true"}
    /\ To("continue", [reg EXCEPT !.val = reg.exp], stack)

EvalVariable ==
    /\ pc = "dispatch" /\ Cell(reg.exp).type = "variable"
    /\ Deliver(lookup_variable_value(reg.exp, reg.env), "continue", reg, stack)

\* possible_symbol_to_data: a quoted list is read again, into collected cells.
EvalQuoted ==
    /\ pc = "dispatch" /\ Cell(reg.exp).type = "symbol"
    /\ LET text == TextOf(reg.exp)
           root == Image[text].cells[-Image[text].val]
       IN  Deliver(IF text \in Quoted THEN [Image[text] EXCEPT !.val = root.car]
                   ELSE Returns(reg.exp),
                   "continue", reg, stack)

EvalLambda ==
    /\ AtForm("lambda")
    /\ LET r == [reg EXCEPT !.unev = CADR(reg.exp), !.exp = CDDR(reg.exp)]
       IN  Deliver(Creates(Procedure(r.unev, r.exp, r.env)), "continue", r, stack)

\* (define (name . parameters) . body) and (macro (name . parameters) . body).
NamedCode(cell) ==
    LET name == CAR(CADR(reg.exp))
        r == [reg EXCEPT !.unev = CDR(CADR(reg.exp))]
    IN  /\ IsStringType(name)
        /\ \E j \in Collections(<<cell>>, r, stack) :
             /\ heap' = HeapAfter(<<cell>>, j, r, stack)
             /\ envs' = Bind(EnvsAfter(j, r, stack), reg.env, TextOf(name), fresh)
             /\ Created(<<cell>>)
        /\ To("continue", [reg EXCEPT !.unev = name, !.val = T], stack)

EvalDefineLambda ==
    /\ AtForm("define") /\ IsPair(CADR(reg.exp))
    /\ NamedCode(Procedure(CDR(CADR(reg.exp)), CDDR(reg.exp), reg.env))

EvalMacroLambda ==
    /\ AtForm("macro")
    /\ NamedCode(Macro(CDR(CADR(reg.exp)), CDDR(reg.exp)))

EvalEval ==
    /\ AtForm("eval")
    /\ LET r == [reg EXCEPT !.exp = CADR(reg.exp)]
       IN  IF IsStringType(r.exp)
           THEN run_eval_on_string(r.exp, r, stack)
           ELSE Deliver(Creates(Error("argument to eval")), "continue", r, stack)

EvalImport ==
    /\ AtForm("import")
    /\ LET r == [reg EXCEPT !.exp = CADR(reg.exp)]
       IN  CASE Cell(r.exp).type = "string" -> run_eval_on_file(TextOf(r.exp), "import", r, stack)
             [] Cell(r.exp).type \in StringTypes \ {"string"} ->
                  /\ To("dispatch", [r EXCEPT !.cont = JUMP_EV_IMPORT_AUX], Push(stack, <<Cont(r.cont)>>))
                  /\ UNCHANGED <<memory, host>>
             [] OTHER -> Deliver(Creates(Error("argument to import")), "continue", r, stack)

ImportAux ==
    /\ pc = "import_aux"
    /\ IF Cell(reg.val).type = "string"
       THEN run_eval_on_file(TextOf(reg.val), "import_aux", reg, stack)
       ELSE Deliver(Creates(Error("argument to import")), "continue",
                    [reg EXCEPT !.cont = Popped(stack, 1)], Pop(stack, 1))

EvalIf ==
    /\ AtForm("if")
    /\ To("dispatch", [reg EXCEPT !.cont = JUMP_EV_IF_DECIDE, !.exp = CADR(reg.exp)],
          Push(stack, <<Data(reg.exp), Env(reg.env), Cont(reg.cont)>>))
    /\ UNCHANGED <<memory, host>>

\* (set name e) and (define name e) evaluate e first.
EvalStore(form, jump) ==
    /\ AtForm(form)
    /\ To("dispatch", [reg EXCEPT !.unev = CADR(reg.exp), !.exp = CAR(CDDR(reg.exp)), !.cont = jump],
          Push(stack, <<Data(CADR(reg.exp)), Env(reg.env), Cont(reg.cont)>>))
    /\ UNCHANGED <<memory, host>>

EvalAssignment == EvalStore("set", JUMP_EV_ASSIGNMENT_1)
EvalDefinition == EvalStore("define", JUMP_EV_DEFINITION_1) /\ ~ IsPair(CADR(reg.exp))

EvalApplication ==
    /\ pc = "dispatch" /\ Cell(reg.exp).type = "pair" /\ Form \notin Forms
    /\ To("dispatch", [reg EXCEPT !.unev = CDR(reg.exp), !.exp = CAR(reg.exp),
                                  !.cont = JUMP_EV_APPL_DID_OPERATOR],
          Push(stack, <<Cont(reg.cont), Env(reg.env), Data(CDR(reg.exp))>>))
    /\ UNCHANGED <<memory, host>>

\* EVAL_BEGIN of a whole program, and EVAL_BEGIN_STATEMENT.
EvalBegin ==
    \/ /\ At("begin")
       /\ To("sequence", [reg EXCEPT !.unev = reg.exp], Push(stack, <<Cont(reg.cont)>>))
    \/ /\ AtForm("begin")
       /\ To("sequence", [reg EXCEPT !.exp = CDR(reg.exp), !.unev = CDR(reg.exp)],
             Push(stack, <<Cont(reg.cont)>>))
       /\ UNCHANGED <<memory, host>>

\* Fault: an expression in tail position is continued like the others.
SequenceNoTail ==
    /\ At("sequence")
    /\ IF reg.unev = NIL
       THEN To("continue", [reg EXCEPT !.cont = Popped(stack, 1)], Pop(stack, 1))
       ELSE To("dispatch", [reg EXCEPT !.exp = CAR(reg.unev), !.cont = JUMP_EV_SEQUENCE_CONTINUE],
               Push(stack, <<Data(reg.unev), Env(reg.env)>>))

\* EV_SEQUENCE: the last expression is evaluated with the continuation of the
\* whole sequence, and the stack it began with.
Sequence ==
    /\ At("sequence")
    /\ LET r == [reg EXCEPT !.exp = CAR(reg.unev)]
       IN  IF CDR(reg.unev) = NIL
           THEN To("dispatch", [r EXCEPT !.cont = Popped(stack, 1)], Pop(stack, 1))
           ELSE To("dispatch", [r EXCEPT !.cont = JUMP_EV_SEQUENCE_CONTINUE],
                   Push(stack, <<Data(reg.unev), Env(reg.env)>>))

-----------------------------------------------------------------------------
(* The labels a continuation leads to.                                     *)

\* The registers popped at each, in order.
PopTable ==
    [if_decide |-> <<"cont", "env", "exp">>,
     assignment_1 |-> <<"cont", "env", "unev">>,
     definition_1 |-> <<"cont", "env", "unev">>,
     did_operator |-> <<"unev", "env">>,
     accumulate_arg |-> <<"unev", "env", "last", "argl">>,
     accum_last_arg |-> <<"last", "argl", "proc">>,
     sequence_continue |-> <<"env", "unev">>,
     macro_finish |-> <<"cont">>]

\* Fault: the first two pops of one label are swapped.
PopsSwapped(label) ==
    CASE label = "if_decide" -> <<"env", "cont", "exp">>
      [] label \in DOMAIN PopTable -> PopTable[label]
      [] OTHER -> <<>>

Pops(label) == IF label \in DOMAIN PopTable THEN PopTable[label] ELSE <<>>

Unwound == PopInto(Pops(pc), reg, stack)
Rest == Pop(stack, Len(Pops(pc)))

\* Fault: exp is not replaced by a branch.
IfDecideAgain == At("if_decide") /\ To("dispatch", Unwound, Rest)

IfDecide ==
    /\ At("if_decide")
    /\ LET branches == CDDR(Unwound.exp)
       IN  To("dispatch",
              [Unwound EXCEPT !.exp = IF reg.val # NIL THEN CAR(branches) ELSE CADR(branches)], Rest)

Store(e) ==
    /\ envs' = Bind(envs, e, TextOf(Unwound.unev), reg.val)
    /\ To("continue", [Unwound EXCEPT !.val = T], Rest)
    /\ UNCHANGED <<heap, code, fresh, have_error, error_value, host>>

Assignment1 == pc = "assignment_1" /\ Store(Holder(TextOf(Unwound.unev), Unwound.env))
Definition1 == pc = "definition_1" /\ Store(Unwound.env)

\* A string type in operator position is looked up once more.
DidOperator ==
    /\ pc = "did_operator"
    /\ LET r == [Unwound EXCEPT !.argl = NIL, !.last = NULL, !.proc = reg.val]
           found == IF IsStringType(reg.val) THEN lookup_variable_value(reg.val, r.env)
                    ELSE Returns(reg.val)
       IN  \E j \in Collections(found.cells, r, Rest) :
              LET called == [r EXCEPT !.proc = Address(found.val)]
              IN  IF Cell(called.proc).type = "macro"
                  THEN ExtendEnvironment(CDR(called.proc),
                          [called EXCEPT !.cont = JUMP_MACRO_FINISH, !.argl = r.unev,
                                         !.unev = CAR(called.proc)],
                          Push(Rest, <<Cont(JUMP_MACRO_FINISH)>>))
                  ELSE /\ Create(found.cells, j, r, Rest)
                       /\ IF r.unev = NIL THEN To("apply", called, Rest)
                          ELSE To("operand_loop", called, Push(Rest, <<Data(called.proc)>>))

OperandLoop ==
    /\ At("operand_loop")
    /\ LET r == [reg EXCEPT !.exp = CAR(reg.unev)]
       IN  IF CDR(reg.unev) = NIL
           THEN To("dispatch", [r EXCEPT !.cont = JUMP_EV_APPL_ACCUM_LAST_ARG],
                   Push(stack, <<Data(reg.argl), ArgPointer(reg.last)>>))
           ELSE To("dispatch", [r EXCEPT !.cont = JUMP_EV_APPL_ACCUMULATE_ARG],
                   Push(stack, <<Data(reg.argl), ArgPointer(reg.last), Env(reg.env), Data(reg.unev)>>))

\* append_to_last, from r and s to r2 and s2: a cell for val, linked to the last
\* one if there is one.
AppendToLast(label, r, s, r2, s2) ==
    LET cells == <<Pair(r.val, NIL)>>
    IN  \E j \in Collections(cells, r, s) :
          /\ heap' = IF r.last = NULL THEN HeapAfter(cells, j, r, s)
                     ELSE [HeapAfter(cells, j, r, s) EXCEPT ![r.last].cdr = fresh]
          /\ envs' = EnvsAfter(j, r, s)
          /\ Created(cells)
          /\ To(label, [r2 EXCEPT !.last = fresh, !.argl = IF r.last = NULL THEN fresh ELSE @], s2)

AccumulateArg ==
    /\ pc = "accumulate_arg"
    /\ AppendToLast("operand_loop", Unwound, Rest, [Unwound EXCEPT !.unev = CDR(@)], Rest)

\* proc is popped after the cell has been made.
AccumLastArg ==
    /\ pc = "accum_last_arg"
    /\ AppendToLast("apply", [Unwound EXCEPT !.proc = reg.proc], Pop(stack, 2), Unwound, Rest)

\* Fault: the environment of the call just finished is kept.
SequenceContinueKeepsEnv ==
    /\ At("sequence_continue")
    /\ To("sequence", [Unwound EXCEPT !.unev = CDR(@), !.env = reg.env], Rest)

SequenceContinue ==
    /\ At("sequence_continue")
    /\ To("sequence", [Unwound EXCEPT !.unev = CDR(@)], Rest)

MacroFinish ==
    /\ At("macro_finish")
    /\ To("dispatch", [Unwound EXCEPT !.exp = reg.val], Rest)

-----------------------------------------------------------------------------
(* Applying a procedure, and continuing with a value.                      *)

IsPrimitive(p) == TextOf(p) \in Registered

PrimitiveApply ==
    /\ pc = "apply" /\ TextOf(reg.proc) \in Primitives
    /\ Deliver(proc_prim(TextOf(reg.proc), reg.argl), "continue",
               [reg EXCEPT !.cont = Popped(stack, 1)], Pop(stack, 1))

CompoundApply ==
    /\ pc = "apply" /\ Cell(reg.proc).type = "procedure"
    /\ ExtendEnvironment(CDR(reg.proc),
          [reg EXCEPT !.unev = CAR(reg.proc), !.env = Cell(reg.proc).env], stack)

\* The error goes past JUMP_TO_CONTINUE.
UnknownProcedure ==
    /\ pc = "apply" /\ ~ IsPrimitive(reg.proc) /\ Cell(reg.proc).type # "procedure"
    /\ Deliver(Creates(Error("unknown procedure")), "exit",
               [reg EXCEPT !.cont = Popped(stack, 1)], Pop(stack, 1))

LabelOf(jump) ==
    CASE jump = JUMP_MACRO_FINISH -> "macro_finish"
      [] jump = JUMP_EV_DEFINITION_1 -> "definition_1"
      [] jump = JUMP_EV_ASSIGNMENT_1 -> "assignment_1"
      [] jump = JUMP_EV_APPL_DID_OPERATOR -> "did_operator"
      [] jump = JUMP_EV_APPL_ACCUMULATE_ARG -> "accumulate_arg"
      [] jump = JUMP_EV_APPL_ACCUM_LAST_ARG -> "accum_last_arg"
      [] jump = JUMP_EV_SEQUENCE_CONTINUE -> "sequence_continue"
      [] jump = JUMP_EV_IF_DECIDE -> "if_decide"
      [] jump = JUMP_EV_IMPORT_AUX -> "import_aux"
      [] OTHER -> "exit"

Answer == IF have_error /\ KillIfError THEN error_value ELSE reg.val

\* Fault: errors are values like others.
ContinueWithErrors ==
    /\ pc = "continue"
    /\ To(LabelOf(reg.cont), [reg EXCEPT !.val = Answer], stack)
    /\ have_error' = (have_error /\ ~ KillIfError)
    /\ UNCHANGED <<heap, envs, code, fresh, error_value, host>>

\* JUMP_TO_CONTINUE.
Continue ==
    /\ pc = "continue"
    /\ To(IF Cell(Answer).type = "error" THEN "exit" ELSE LabelOf(reg.cont),
          [reg EXCEPT !.val = Answer], stack)
    /\ have_error' = (have_error /\ ~ KillIfError)
    /\ UNCHANGED <<heap, envs, code, fresh, error_value, host>>

-----------------------------------------------------------------------------
(* What the code takes for granted.  Elsewhere a bad pointer is copied and *)
(* noticed when it is followed.                                            *)

FormDefined ==
    /\ IsData(CAR(reg.exp)) /\ CAR(reg.exp) # T
    /\ IsNumber(CAR(reg.exp)) => Cell(CAR(reg.exp)).num = 0   \* compared as a text
    /\ Form = "macro" \/ (Form = "define" /\ IsPair(CADR(reg.exp))) =>
         IsStringType(CAR(CADR(reg.exp))) /\ reg.env \in DOMAIN envs
    /\ Form = "import" /\ Cell(CADR(reg.exp)).type = "string" =>
         TextOf(CADR(reg.exp)) \in Files \cap DOMAIN Image \/ reg.val # NULL

Dispatchable ==
    CASE Cell(reg.exp).type = "variable" -> reg.env \in DOMAIN envs
      [] Cell(reg.exp).type = "pair" -> FormDefined
      [] OTHER -> Cell(reg.exp).type \in {"string", "symbol", "number", "nil", "true"}

Defined ==
    CASE pc = "dispatch" -> IsData(reg.exp) /\ Dispatchable
      [] pc = "continue" -> IsData(Answer)
      [] pc \in {"restoring", "redirecting"} -> RestoreDefined
      [] pc = "exit" -> reg.top \in code \cup {NULL}
      [] pc \in {"sequence", "operand_loop"} -> HasCar(reg.unev)
      [] pc \in {"assignment_1", "definition_1"} ->
           IsStringType(Unwound.unev) /\ Unwound.env \in DOMAIN envs
      [] pc = "did_operator" ->
           /\ Unwound.env \in DOMAIN envs
           /\ LET proc == IF IsStringType(reg.val) /\ Lookup(TextOf(reg.val), Unwound.env) # NULL
                          THEN Lookup(TextOf(reg.val), Unwound.env) ELSE reg.val
              IN  IsData(proc) /\ (Cell(proc).type = "macro" => Walkable(CAR(proc)))
      [] pc \in {"accumulate_arg", "accum_last_arg"} -> Unwound.last \in DOMAIN heap \cup {NULL}
      [] pc = "apply" ->
           /\ IsData(reg.proc)
           /\ TextOf(reg.proc) \in Foreign => Wholesome(reg, stack)
           /\ TextOf(reg.proc) \in Primitives => proc_prim(TextOf(reg.proc), reg.argl).val # WILD
           /\ Cell(reg.proc).type = "procedure" =>
                Walkable(CAR(reg.proc)) /\ Cell(reg.proc).env \in DOMAIN envs
      [] OTHER -> TRUE

Undefined ==
    /\ pc \notin {"host", "undefined"}
    /\ ~ Defined
    /\ pc' = "undefined"
    /\ UNCHANGED <<reg, stack, memory, host>>

Dispatch ==
    \/ EvalSelf \/ EvalVariable \/ EvalQuoted \/ EvalLambda \/ EvalDefineLambda
    \/ EvalMacroLambda \/ EvalEval \/ EvalImport \/ EvalIf \/ EvalAssignment
    \/ EvalDefinition \/ EvalApplication

Continuation ==
    \/ IfDecide \/ Assignment1 \/ Definition1 \/ DidOperator \/ OperandLoop
    \/ AccumulateArg \/ AccumLastArg \/ SequenceContinue \/ MacroFinish \/ ImportAux

Apply == PrimitiveApply \/ CompoundApply \/ UnknownProcedure

\* Only the plugin changes GlobalEnv and what belongs to it.
Run ==
    /\ Defined
    /\ \/ /\ Dispatch \/ EvalBegin \/ Sequence \/ Continuation \/ Apply \/ Continue \/ Exit
          /\ UNCHANGED plugin
       \/ EnvRestore

Next == Run \/ ((Eval \/ Undefined) /\ UNCHANGED plugin)

Spec == Init /\ [][Next]_vars

Running == pc \notin {"host", "undefined"}

\* eval() is a loop of gotos and goes on by itself: WF_vars(Run \/ Undefined),
\* written with Running for ENABLED, which it equals and TLC evaluates faster.
FairSpec == Spec /\ ([]<>~ Running \/ []<><<Run \/ (Undefined /\ UNCHANGED plugin)>>_vars)

-----------------------------------------------------------------------------
(* Properties.                                                             *)

Labels == {"host", "begin", "sequence", "dispatch", "continue", "exit", "undefined", "if_decide",
           "assignment_1", "definition_1", "did_operator", "operand_loop", "accumulate_arg",
           "accum_last_arg", "sequence_continue", "macro_finish", "import_aux", "apply", "restoring", "redirecting"}

Registers == [DOMAIN InitialRegisters -> Nat]
StackEntries == [kind : {"data", "env", "cont", "arg"}, v : Nat]
Callers == {"host", "string", "import", "import_aux"}

IsEnv(e) ==
    /\ DOMAIN e = {"parent", "bind"} /\ e.parent \in Nat
    /\ e.bind \in [DOMAIN e.bind -> Nat] /\ IsFiniteSet(DOMAIN e.bind)

IsTask(t) ==
    /\ DOMAIN t = DOMAIN EnvTask(NULL)
    /\ t.do \in {"env", "data", "cell", "bind"} /\ t.env \in Nat /\ t.copy \in Nat

CellsOK(cells) == \A a \in DOMAIN cells : IsCell(cells[a]) /\ {cells[a].car, cells[a].cdr} \subseteq Nat
EnvironmentsOK(environments) == \A e \in DOMAIN environments : IsEnv(environments[e])

MemoryOK ==
    /\ CellsOK(heap) /\ EnvironmentsOK(envs)
    /\ DOMAIN heap \cap DOMAIN envs = {}
    /\ fresh \in Nat /\ fresh >= FirstAddress
    /\ \A a \in DOMAIN heap \cup DOMAIN envs : a = Global \/ a \in FirstAddress .. fresh - 1
    /\ code \subseteq DOMAIN heap
    /\ have_error \in BOOLEAN /\ error_value \in Nat

CallsOK ==
    /\ calls \in Seq(Callers)
    /\ \A i \in DOMAIN calls : calls[i] = "host" <=> i = Len(calls)
    /\ calls = <<>> <=> pc = "host"
    /\ asked \in 0 .. Len(script.programs)

PluginOK ==
    /\ GlobalEnv \in Nat
    /\ DOMAIN stored = DOMAIN NothingSaved /\ stored.main \in Nat
    /\ EnvironmentsOK(stored.envs) /\ DOMAIN stored.envs \subseteq Nat \ {NULL} /\ CellsOK(stored.cells)
    /\ DOMAIN restoring = DOMAIN NotRestoring
    /\ restoring.todo \in Seq(Range(restoring.todo)) /\ \A t \in Range(restoring.todo) : IsTask(t)
    /\ restoring.held \in Seq(Nat)
    /\ \A e \in DOMAIN restoring.made : restoring.made[e] \in Nat
    /\ restoring.walk \in Seq(StackEntries)

\* Registers and stack entries hold addresses and codes, and so do cells and
\* bindings; no address is both a cell and an environment, and none is one that
\* malloc may still return; program cells are cells; eval is left exactly when
\* no C caller is waiting for it, the host's call being the outermost.
TypeOK ==
    /\ pc \in Labels /\ reg \in Registers /\ stack \in Seq(StackEntries)
    /\ MemoryOK /\ CallsOK /\ PluginOK

SavedKinds == <<"data", "data", "data", "data", "data", "data", "env", "cont", "arg">>

Jumps == {JUMP_CODE, JUMP_MACRO_FINISH, JUMP_EV_DEFINITION_1, JUMP_EV_ASSIGNMENT_1, JUMP_EV_APPL_DID_OPERATOR,
          JUMP_EV_APPL_ACCUMULATE_ARG, JUMP_EV_APPL_ACCUM_LAST_ARG, JUMP_EV_SEQUENCE_CONTINUE,
          JUMP_EV_IF_DECIDE, JUMP_EV_IMPORT_AUX}

\* What a jump finds on top of the stack, JUMP_CODE in an evaluation for caller.
Frame(jump, caller) ==
    CASE jump \in {JUMP_EV_IF_DECIDE, JUMP_EV_ASSIGNMENT_1, JUMP_EV_DEFINITION_1} ->
           <<"data", "env", "cont">>
      [] jump = JUMP_EV_APPL_DID_OPERATOR -> <<"cont", "env", "data">>
      [] jump = JUMP_EV_APPL_ACCUMULATE_ARG -> <<"cont", "data", "data", "arg", "env", "data">>
      [] jump = JUMP_EV_APPL_ACCUM_LAST_ARG -> <<"cont", "data", "data", "arg">>
      [] jump = JUMP_EV_SEQUENCE_CONTINUE -> <<"cont", "data", "env">>
      [] jump \in {JUMP_MACRO_FINISH, JUMP_EV_IMPORT_AUX} -> <<"cont">>
      [] OTHER -> IF caller = "host" THEN SavedKinds ELSE SavedKinds \o SavedKinds

\* Where in its frame the continuation of the frame below is kept.
Link(jump) ==
    CASE jump \in {JUMP_EV_IF_DECIDE, JUMP_EV_ASSIGNMENT_1, JUMP_EV_DEFINITION_1} -> 3
      [] jump = JUMP_CODE -> 8
      [] OTHER -> 1

\* A place in the stack s, for the callers c: a jump, the number of entries it
\* finds, and which caller it works for.
Place(jump, top) == [jump |-> jump, top |-> top, depth |-> 1]
Kinds(c, f) == Frame(f.jump, c[f.depth])
Base(c, f) == f.top - Len(Kinds(c, f))
Bottom(c, f) == f.jump = JUMP_CODE /\ c[f.depth] = "host"

\* The entries are those of its frame.  EVAL_IMPORT_AUX waits for its file; only
\* the registers of the host are at the bottom.
Fits(s, c, f) ==
    /\ f.jump \in Jumps /\ f.depth \in DOMAIN c /\ Base(c, f) >= 0
    /\ \A i \in DOMAIN Kinds(c, f) : s[Base(c, f) + i].kind = Kinds(c, f)[i]
    /\ f.jump = JUMP_CODE /\ c[f.depth] = "import_aux" => s[Base(c, f) + 8].v = JUMP_EV_IMPORT_AUX
    /\ Bottom(c, f) => Base(c, f) = 0

Beneath(s, c, f) ==
    [jump |-> s[Base(c, f) + Link(f.jump)].v, top |-> Base(c, f),
     depth |-> IF f.jump = JUMP_CODE THEN f.depth + 1 ELSE f.depth]

\* The frames from f down.
FramesFrom(s, c, f) ==
    LET frame[k \in Nat] == IF k = 0 THEN f ELSE Beneath(s, c, frame[k - 1])
    IN  frame

\* From the continuation jump on, the first n entries of s are frames, each
\* holding the continuation of the one below, down to the host's registers.
Framed(s, c, jump, n) ==
    LET frame == FramesFrom(s, c, Place(jump, n))
    IN  \E k \in 0 .. n : (\A i \in 0 .. k : Fits(s, c, frame[i])) /\ Bottom(c, frame[k])

\* Every label finds on the stack what was pushed for it: each pop into a
\* register gets a value of that register's kind, and the continuations form
\* an unbroken chain back to the caller, through nested evaluations too.
FramesMatch ==
    LET n == Len(stack)
    IN  CASE pc \in {"host", "undefined"} -> TRUE
          [] pc \in {"sequence", "apply", "restoring", "redirecting"} ->
               stack[n].kind = "cont" /\ Framed(stack, calls, stack[n].v, n - 1)
          [] pc = "operand_loop" ->
               stack[n].kind = "data" /\ stack[n - 1].kind = "cont" /\ Framed(stack, calls, stack[n - 1].v, n - 2)
          [] pc = "exit" -> Cell(reg.val).type = "error" \/ Framed(stack, calls, JUMP_CODE, n)
          [] OTHER -> Framed(stack, calls, reg.cont, n)

\* A collection can start at any label: nothing eval_gather_gc reports, and
\* nothing reached from there, is freed or of the wrong kind.
NothingDangles == pc \notin {"host", "undefined"} => Wholesome(reg, stack)

\* The first error ends an evaluation: no variable is ever bound to an error,
\* and no procedure gets one as an argument.
ErrorsNeverBound ==
    LET isError(p) == Cell(p).type = "error"
    IN  /\ \A e \in DOMAIN envs : \A x \in DOMAIN envs[e].bind : ~ isError(envs[e].bind[x])
        /\ \A a \in DOMAIN heap : heap[a].type = "pair" => ~ isError(heap[a].car)

\* The value a pointer stands for.
Shape(p) ==
    LET shape[q \in Int] ==
            LET c == Cell(q)
            IN  [type |-> c.type, text |-> c.text, num |-> c.num,
                 parts |-> IF c.type = "pair" THEN <<shape[c.car], shape[c.cdr]>> ELSE <<>>]
    IN  shape[p]

\* eval returns the value of the program, whenever collections happen: what
\* iamarDocs.h says it is, where it says.
ResultIsMeaning ==
    pc = "host" /\ asked > 0 => Shape(result) = script.values[asked]

StackUnwound == stack = <<>> /\ reg = [InitialRegisters EXCEPT !.val = reg.val]

\* When evaluations end without an error, nested ones too, the registers are
\* the host's again, and the stack is empty.  (With kill_if_error off, the flag
\* tells whether there ever was an error.)
RegistersRestored == pc = "host" /\ ~ have_error => StackUnwound

\* However an evaluation ends, every register except val is restored.
SaveRestoreBalanced == pc = "host" => StackUnwound

\* Calls in tail position need no stack, however many there are.
StackNeverFull == Len(stack) < MaxStackDepth

\* An error that eval has returned is not held against the next evaluation.
ErrorFlagReset == pc = "host" /\ KillIfError => ~ have_error

\* A value an evaluation has produced, the host's or a nested one, has not been
\* freed when it is used.
ResultIsAllocated ==
    /\ pc = "continue" => IsData(reg.val)
    /\ pc = "host" /\ result # NULL => IsData(result)

\* An evaluation of a program that terminates is finished, or has no defined behaviour.
Answers == Running ~> ~ Running
=============================================================================
