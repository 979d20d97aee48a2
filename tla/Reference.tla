----------------------------- MODULE Reference ------------------------------
(***************************************************************************)
(* What a program means: a recursive interpreter of trees, without         *)
(* registers, stack, continuations or memory management.  It is what eval  *)
(* is compared with.  Where include/iamarDocs.h says what a form returns,  *)
(* it is that, whatever the code does; where it says that a form returns   *)
(* nothing, or does not say, it is what the code returns.  A store is a    *)
(* sequence of environments; the first is the global one.                  *)
(***************************************************************************)
EXTENDS ReaderToData

CONSTANT Texts     \* the trees of every text that can be read again

Value(type, text, num, parts) ==
    [type |-> type, text |-> text, num |-> num, parts |-> parts, formals |-> <<>>, body |-> <<>>, env |-> 0]
NilValue == Value("nil", "", 0, <<>>)
TrueValue == Value("true", "", 0, <<>>)
ErrorValue(text) == Value("error", text, 0, <<>>)
TruthValue(b) == IF b THEN TrueValue ELSE NilValue
PairValue(a, d) == Value("pair", "", 0, <<a, d>>)
Lambda(type, formals, body, e) ==
    [Value(type, "", 0, <<>>) EXCEPT !.formals = formals, !.body = body, !.env = e]

RECURSIVE ValueList(_), Quote(_), TreeOf(_), ItemsOf(_)
ValueList(values) == IF values = <<>> THEN NilValue ELSE PairValue(Head(values), ValueList(Tail(values)))
Quote(tree) ==
    CASE tree.kind = "pair" -> ValueList([i \in DOMAIN tree.items |-> Quote(tree.items[i])])
      [] OTHER -> Value(tree.kind, tree.text, tree.num, <<>>)
\* Back from data to a tree, for the result of a macro.
ItemsOf(v) == IF v.type = "nil" THEN <<>> ELSE <<TreeOf(v.parts[1])>> \o ItemsOf(v.parts[2])
TreeOf(v) == IF v.type \in {"pair", "nil"} THEN List(ItemsOf(v)) ELSE Tree(v.type, v.text, v.num, <<>>)

Names(trees) == [i \in DOMAIN trees |-> trees[i].text]

EmptyStore == << [parent |-> 0, bind |-> "nil" :> NilValue, saved |-> <<>>] >>

RECURSIVE Find(_, _, _)
Find(name, e, store) ==
    CASE e = 0 -> 0
      [] name \in DOMAIN store[e].bind -> e
      [] OTHER -> Find(name, store[e].parent, store)

Put(store, e, name, v) == [store EXCEPT ![e].bind = name :> v @@ @]

ValueOf(name, e, store) ==
    CASE Find(name, e, store) # 0 -> store[Find(name, e, store)].bind[name]
      [] name \in Registered -> Value("variable", name, 0, <<>>)
      [] OTHER -> ErrorValue("unknown variable")

\* Parameters and arguments, with "&rest"; a missing argument is nil.
RECURSIVE Match(_, _)
Match(formals, actuals) ==
    CASE formals = <<>> -> <<>>
      [] Head(formals) = "&rest" -> "&rest" :> ValueList(actuals)
      [] OTHER -> Match(Tail(formals), IF actuals = <<>> THEN <<>> ELSE Tail(actuals))
                    @@ (Head(formals) :> (IF actuals = <<>> THEN NilValue ELSE Head(actuals)))

NumberValue(n) == Value("number", "", n, <<>>)

ApplyPrimitive(name, a) ==
    LET nums == \A i \in DOMAIN a : a[i].type = "number"
        n == [i \in DOMAIN a |-> a[i].num]
    IN  CASE ~ ArityOK(name, Len(a)) -> ErrorValue("wrong number of arguments")
          [] name = "list" -> ValueList(a)
          [] name \in {"first", "rest"} ->
               CASE a[1].type = "nil" -> NilValue
                 [] a[1].type = "pair" -> a[1].parts[IF name = "first" THEN 1 ELSE 2]
                 [] OTHER -> ErrorValue("argument must be a pair")
          [] name = "push" -> PairValue(a[1], a[2])
          [] name = "not" -> TruthValue(a[1].type = "nil")
          [] name = "=" -> TruthValue(a[1] = a[2])
          [] ~ nums -> ErrorValue("arguments must be numbers")
          [] name = "+" -> NumberValue(FoldLeft(LAMBDA x, y : x + y, 0, n))
          [] name = "*" -> NumberValue(FoldLeft(LAMBDA x, y : x * y, 1, n))
          [] name = "-" -> NumberValue(FoldLeft(LAMBDA x, y : x - y, n[1], Tail(n)))
          [] name = "mod" /\ n[2] = 0 -> ErrorValue("division by zero")
          [] name = "mod" -> NumberValue(Remainder(n[1], n[2]))
          [] OTHER -> TruthValue(Compare(name, n[1], n[2]))

\* env:save: the bindings of the global environment and of every environment
\* that a saved closure is in.
RECURSIVE ClosuresIn(_), SavedEnvs(_, _)
ClosuresIn(v) == (IF v.type = "procedure" THEN {v.env} ELSE {}) \cup UNION {ClosuresIn(part) : part \in Range(v.parts)}
SavedEnvs(store, S) ==
    LET more == S \cup UNION {ClosuresIn(v) : v \in UNION {Range(store[e].bind) : e \in S}}
    IN  IF more = S THEN S ELSE SavedEnvs(store, more)
Save(store) == [store EXCEPT ![1].saved = [e \in SavedEnvs(store, {1}) |-> store[e].bind]]

\* env:restore: each of them is again what it was.
Restore(store) ==
    LET old == store[1].saved
    IN  [e \in DOMAIN store |-> IF e \in DOMAIN old THEN [store[e] EXCEPT !.bind = old[e]] ELSE store[e]]

Is(type, o) == o.v.type = type
Out(v, store) == [v |-> v, store |-> store]

RECURSIVE Means(_, _, _), InOrder(_, _, _), Operands(_, _, _, _), Until(_, _, _, _), Call(_, _, _), Again(_, _)

\* The value of the last of some trees; an error ends them all.
InOrder(trees, e, store) ==
    IF trees = <<>> THEN Out(NilValue, store)
    ELSE LET first == Means(Head(trees), e, store)
         IN  IF Tail(trees) = <<>> \/ Is("error", first) THEN first
             ELSE InOrder(Tail(trees), e, first.store)

\* A text read again is evaluated in the global environment.
Again(text, store) ==
    IF text \notin DOMAIN Texts THEN Out(ErrorValue("problem reading string"), store)
    ELSE IF Head(Texts[text]).kind = "pair" THEN InOrder(Texts[text], 1, store)
    ELSE Means(Head(Texts[text]), 1, store)

Call(f, args, store) ==
    LET e == Len(store) + 1
    IN  InOrder(f.body, e, Append(store, [parent |-> f.env, bind |-> Match(f.formals, args)]))

Operands(trees, e, store, done) ==
    IF trees = <<>> THEN [error |-> FALSE, values |-> done, store |-> store]
    ELSE LET first == Means(Head(trees), e, store)
         IN  IF Is("error", first) THEN [error |-> TRUE, values |-> <<first.v>>, store |-> first.store]
             ELSE Operands(Tail(trees), e, first.store, Append(done, first.v))

\* or and and: the operands after the one that decides are not evaluated.
Until(name, trees, e, store) ==
    IF trees = <<>> THEN Out(TruthValue(name = "and"), store)
    ELSE LET first == Means(Head(trees), e, store)
         IN  IF Is("error", first) \/ Is("nil", first) = (name = "and") THEN first
             ELSE Until(name, Tail(trees), e, first.store)

\* A macro gets its operands as data; what its body returns is evaluated where
\* the body was.
Expand(m, operands, e, store) ==
    LET body == Call([m EXCEPT !.env = e], [i \in DOMAIN operands |-> Quote(operands[i])], store)
    IN  IF Is("error", body) THEN body ELSE Means(TreeOf(body.v), Len(store) + 1, body.store)

Application(tree, e, store) ==
    LET op == Means(tree.items[1], e, store)
        f == IF op.v.type \in StringTypes \ {"error"} THEN ValueOf(op.v.text, e, op.store) ELSE op.v
        args == Operands(Tail(tree.items), e, op.store, <<>>)
    IN  CASE f.type = "error" -> Out(f, op.store)
          [] f.type = "macro" -> Expand(f, Tail(tree.items), e, op.store)
          [] f.text \in {"or", "and"} /\ Len(tree.items) > 1 -> Until(f.text, Tail(tree.items), e, op.store)
          [] args.error -> Out(args.values[1], args.store)
          [] f.type = "procedure" -> Call(f, args.values, args.store)
          [] f.text = "env:save" -> Out(TrueValue, Save(args.store))
          [] f.text = "env:restore" -> Out(TruthValue(args.store[1].saved # <<>>), Restore(args.store))
          [] f.text \in Primitives -> Out(ApplyPrimitive(f.text, args.values), args.store)
          [] OTHER -> Out(ErrorValue("unknown procedure"), args.store)

Means(tree, e, store) ==
    LET form == IF tree.kind = "pair" /\ tree.items # <<>> THEN tree.items[1].text ELSE ""
        item(i) == IF i <= Len(tree.items) THEN tree.items[i] ELSE List(<<>>)
        from(i) == SubSeq(tree.items, i, Len(tree.items))
        closure(type, formals) == Lambda(type, Names(formals), from(3), e)
        store3 == Means(item(3), e, store)
    IN  CASE tree.kind \in {"number", "string"} -> Out(Quote(tree), store)
          [] tree.kind = "symbol" ->
               Out(IF tree.text \in DOMAIN Texts /\ Head(Texts[tree.text]).kind = "pair" THEN Quote(Head(Texts[tree.text])) ELSE Quote(tree), store)
          [] tree.kind = "variable" -> Out(ValueOf(tree.text, e, store), store)
          [] tree.items = <<>> -> Out(NilValue, store)
          [] form = "if" ->
               LET test == Means(item(2), e, store)
               IN  CASE Is("error", test) -> test
                     [] Is("nil", test) -> Means(item(4), e, test.store)
                     [] OTHER -> Means(item(3), e, test.store)
          [] form = "begin" -> InOrder(from(2), e, store)
          [] form = "lambda" -> Out(closure("procedure", item(2).items), store)
          [] form = "macro" \/ (form = "define" /\ item(2).kind = "pair") ->
               Out(TrueValue, Put(store, e, item(2).items[1].text,
                                  closure(IF form = "macro" THEN "macro" ELSE "procedure", Tail(item(2).items))))
          [] form \in {"define", "set"} ->
               LET holder == IF form = "define" THEN e ELSE Find(item(2).text, e, store3.store)
               IN  CASE Is("error", store3) -> store3
                     [] holder = 0 -> Out(ErrorValue("unknown variable"), store3.store)
                     [] OTHER -> Out(TrueValue, Put(store3.store, holder, item(2).text, store3.v))
          [] form = "eval" ->
               IF item(2).kind \in StringTypes THEN Again(item(2).text, store) ELSE Means(item(2), e, store)
          [] form = "import" ->
               LET file == Means(item(2), e, store)
               IN  CASE Is("error", file) -> file
                     [] ~ Is("string", file) -> Out(ErrorValue("argument to import"), store)
                     [] file.v.text \in DOMAIN Texts -> Again(file.v.text, file.store)
                     [] OTHER -> Out(ErrorValue("problem with file"), file.store)
          [] OTHER -> Application(tree, e, store)

RECURSIVE AsShape(_)
AsShape(v) ==
    [type |-> v.type, text |-> v.text, num |-> v.num,
     parts |-> [i \in DOMAIN v.parts |-> AsShape(v.parts[i])]]

\* The values of the programs of a script, one after another; last is the value
\* before.  No program leaves that value.
RECURSIVE Session(_, _, _)
Session(programs, store, last) ==
    IF programs = <<>> THEN <<>>
    ELSE LET first == IF Head(programs) = <<>> THEN Out(last, store)
                      ELSE InOrder(Head(programs), 1, store)
         IN  <<AsShape(first.v)>> \o Session(Tail(programs), first.store, first.v)
=============================================================================
