---------------------------- MODULE MCEvaluator -----------------------------
(***************************************************************************)
(* Programs for TLC: an enumerated grammar, and scripts written for the    *)
(* features and the hazards of the evaluator.  What they should return is  *)
(* computed by the interpreter of module Reference.                        *)
(***************************************************************************)
EXTENDS Evaluator, Reference

A == Var("a")
B == Var("b")
N == Var("n")
X == Var("x")
Nil == Var("nil")
App(f, args) == List(<<Var(f)>> \o args)
Params(names) == List([i \in DOMAIN names |-> Var(names[i])])
Lam(names, body) == App("lambda", <<Params(names)>> \o body)
DefineFun(names, body) == App("define", <<Params(names)>> \o body)

-----------------------------------------------------------------------------
(* The grammar: x is 2, r is an expression of one or two parts that need   *)
(* not be atoms, and the answer is the pair of r and x.                    *)

Atoms == {Num(1), X, Nil}

\* Parts that can be told apart by what they do, not only by their value.
Acting ==
    Atoms
      \cup {App("set", <<X, a>>) : a \in Atoms}
      \cup {List(<<Lam(<<"x">>, <<App("set", <<X, Num(3)>>), a>>), b>>) : a, b \in Atoms}
      \cup {App("unbound", <<a>>) : a \in Atoms}
      \cup {App("eval", <<Str("(set x (+ 2 2))")>>)}

Inner ==
    Acting
      \cup {App("if", <<a, b, X>>) : a, b \in Atoms}
      \cup {App(f, <<a, b>>) : f \in {"+", "push", "begin", "<"}, a, b \in Atoms}

Outer ==
    UNION {{App("if", <<e, Num(1), X>>), App("if", <<X, e, Num(1)>>), App("if", <<Nil, X, e>>),
            App("+", <<e, X>>), App("+", <<X, e>>), App("push", <<e, Nil>>),
            App("first", <<e>>), App("begin", <<e, X>>), App("set", <<X, e>>),
            List(<<Lam(<<"x">>, <<e>>), Num(3)>>), List(<<Lam(<<"x">>, <<X>>), e>>),
            List(<<List(<<Lam(<<"x">>, <<Lam(<<>>, <<e>>)>>), Num(3)>>)>>)} : e \in Inner}
      \cup {App("push", <<e, f>>) : e \in Inner, f \in Acting}
      \cup {List(<<Lam(<<"x">>, <<e, X>>), f>>) : e \in Acting, f \in Inner}

Grammar == {<< <<App("define", <<X, Num(2)>>), App("define", <<Var("r"), e>>),
                  App("push", <<Var("r"), X>>)>> >> : e \in Outer}

-----------------------------------------------------------------------------
(* Scripts.                                                                 *)

\* A closure keeps its environment, which set changes.
Counter == << <<DefineFun(<<"make", "n">>, <<Lam(<<>>, <<App("set", <<N, App("+", <<N, Num(1)>>)>>), N>>)>>),
                App("define", <<Var("c"), App("make", <<Num(1)>>)>>),
                App("c", <<>>)>>,
              <<App("c", <<>>)>> >>

Factorial == << <<DefineFun(<<"fact", "n">>,
                     <<App("if", <<App("<", <<N, Num(2)>>), Num(1),
                                    App("*", <<N, App("fact", <<App("-", <<N, Num(1)>>)>>)>>)>>)>>),
                  App("fact", <<Num(3)>>)>> >>

\* A loop that ends in the middle of two nested tail positions.
Loop(n) == << <<DefineFun(<<"loop", "n">>,
                   <<App("begin", <<Nil, App("if", <<N, App("loop", <<App("rest", <<N>>)>>), X>>)>>)>>),
                App("define", <<X, Num(0)>>),
                App("loop", <<n>>)>> >>

RECURSIVE Pushed(_)
Pushed(n) == IF n = 0 THEN Nil ELSE App("push", <<Num(n), Pushed(n - 1)>>)

Rest1 == << <<DefineFun(<<"g", "a", "&rest">>, <<App("push", <<A, Var("&rest")>>)>>),
              App("g", <<Num(1), Num(2), Num(3)>>)>>,
            <<App("g", <<Num(4)>>)>> >>

\* (unless c a): the expansion is (if c nil a).
Unless == << <<App("macro", <<Params(<<"unless", "c", "a">>),
                  App("push", <<Sym("if"), App("push", <<Var("c"), App("push",
                     <<Nil, App("push", <<A, Nil>>)>>)>>)>>)>>),
               App("define", <<X, Num(2)>>),
               App("unless", <<App("<", <<X, Num(1)>>), App("+", <<X, Num(5)>>)>>)>> >>

\* Operators that are symbols and strings.
Symbolic == << <<List(<<Sym("+"), Num(1), List(<<Str("-"), Num(3), Num(1)>>)>>)>> >>

\* Evaluation inside an evaluation, from the middle of an argument list.
Inside == << <<App("define", <<X, Num(2)>>),
               App("define", <<Var("y"), Str("(set x (+ x 1))")>>),
               DefineFun(<<"h", "x">>,
                   <<App("push", <<App("eval", <<Str("(set x (+ x 1))")>>),
                                    App("push", <<X, Nil>>)>>)>>),
               App("h", <<Num(7)>>)>>,
             <<App("eval", <<Var("x")>>)>> >>

\* The reader makes nothing of the second text.
Nothing == << <<App("+", <<Num(1), Num(2)>>)>>, <<>>, <<App("begin", <<Nil, Num(3)>>)>> >>

\* Files that are not found, or whose names are not strings.
NotImported == { << <<App("begin", <<Num(1)>>)>>, <<App("define", <<Var("name"), a>>), App("import", <<Var("name")>>)>> >> :
                   a \in {Str("nowhere"), Num(1)} }
               \cup { << <<App("begin", <<Num(1)>>)>>, <<App("import", <<Str("nowhere")>>)>> >> }

Imported == << <<App("define", <<Var("name"), Str("lib")>>),
                 App("begin", <<App("import", <<Var("name")>>), App("three", <<>>)>>)>>,
               <<App("rest", <<App("push", <<App("import", <<Str("lib")>>), App("three", <<>>)>>)>>)>> >>

\* Errors of every kind that leaves the stack as it was.
Failing == { << <<e>> >> : e \in
    {Var("y"), App("y", <<Num(1)>>), App("eval", <<Str("")>>),
     App("+", <<Nil>>), App("not", <<Num(1), Num(2)>>), App("first", <<Num(1)>>),
     App("mod", <<Num(5), Nil>>), App("nil", <<>>),
     App("import", <<Num(1)>>), App("if", <<Var("y"), Num(1), Num(2)>>)} }

Primitive == { << <<e>> >> : e \in
    {App("or", <<Nil, Num(1), Num(2)>>), App("or", <<Nil, Nil>>), App("and", <<Num(1), Nil>>),
     App("not", <<Nil>>), App("not", <<Num(5)>>), App("=", <<Num(1), Num(1)>>), App("=", <<Num(1), Num(2)>>),
     App("=", <<Nil, App("not", <<Nil>>)>>), App("=", <<Sym("p"), Sym("p")>>), App("=", <<Str("p"), Str("q")>>),
     App("mod", <<Num(5), Num(2)>>), App("-", <<Num(10), Num(5), Num(4)>>),
     App("rest", <<App("push", <<Num(1), App("push", <<Num(2), Nil>>)>>)>>)} }

\* Saving and restoring: variables, counters that share an environment or not,
\* functions of global variables, at the top, inside an argument list, in a
\* nested evaluation, after a second save, or without any.
Saves == App("env:save", <<>>)
Restores == App("env:restore", <<>>)
Define(name, e) == App("define", <<Var(name), e>>)
Count(step) == Lam(<<>>, <<App("set", <<N, App("+", <<N, step>>)>>), N>>)
Two == Define("c", List(<<Lam(<<"n">>, <<App("push", <<Count(Num(1)), Count(Num(10))>>)>>), Num(0)>>))
First == List(<<App("first", <<Var("c")>>)>>)
Second == List(<<App("rest", <<Var("c")>>)>>)
Of(x) == DefineFun(<<"f", "a">>, <<App("push", <<A, x>>)>>)
Restoring1 ==
    {<< <<Define("x", Num(1)), Saves, Define("x", Num(2)), Define("y", Num(3)), Restores, X>>, <<Var("y")>> >>,
     << <<Define("x", Num(1)), Saves, Define("x", Num(2))>>, <<App("push", <<X, App("push", <<Restores, X>>)>>)>>, <<X>> >>,
     << <<Two, First, Saves, Second, Restores, App("push", <<First, Second>>)>> >>,
     << <<Two, Saves>>, <<Define("d", Num(1)), Restores, First>>, <<Second>>, <<Var("d")>> >>,
     << <<Define("x", Num(1)), Of(X), Saves, Define("x", Num(2)), App("f", <<Restores>>)>>, <<App("f", <<X>>)>> >>,
     << <<Define("x", Num(1)), Saves, Define("x", Num(2)), App("eval", <<Str("(env:restore)")>>), X>> >>,
     << <<Define("x", Num(1)), Saves, Define("x", Num(2)), Saves, Define("x", Num(3)), Restores, X>> >>,
     << <<Define("x", Num(1)), Of(X), Saves, Restores, Define("x", Num(2)), Saves, Define("x", Num(3)), Restores, App("f", <<X>>)>> >>,
     << <<Restores>> >>}

\* A second restore of what was saved, when a function was; a closure that is
\* met twice among the registers and the stack.
Overflowing ==
    {<< <<Of(X), Saves, Restores, Restores>> >>,
     << <<Of(X), Saves, App("f", <<App("push", <<Var("f"), Restores>>)>>)>> >>}

\* What C leaves undefined: a number in operator position, a division by zero,
\* a product of nothing, a missing file before there is a value.
Wild == { << <<e>> >> : e \in
    {List(<<Num(1), Num(2)>>), App("mod", <<Num(1), Num(0)>>), App("*", <<>>),
     App("import", <<Str("nowhere")>>)} }

Selected ==
    {Counter, Factorial, Rest1, Unless, Symbolic, Inside, Nothing, Imported}
      \cup {Loop(Pushed(n)) : n \in 0 .. 3} \cup Failing \cup NotImported \cup Primitive \cup Wild
      \cup Restoring1 \cup Overflowing

\* Programs of which the code leaves something behind.
NotAProcedure == { << <<App("nil", <<>>)>> >> }
FailsInAFrame == { << <<App("+", <<Num(1), Var("y")>>)>> >> }
EvalOfAnAtom == { << <<App("eval", <<Str("5")>>)>> >> }
MakesAList == { << <<App("begin", <<App("list", <<Num(1), Num(2)>>)>>)>> >> }

-----------------------------------------------------------------------------
(* The constants.                                                           *)

MCTexts == "(set x (+ 2 2))" :> <<App("set", <<X, App("+", <<Num(2), Num(2)>>)>>)>>
             @@ "(set x (+ x 1))" :> <<App("set", <<X, App("+", <<X, Num(1)>>)>>)>>
             @@ "(env:restore)" :> <<Restores>>
             @@ "(1 2)" :> <<List(<<Num(1), Num(2)>>)>> @@ "5" :> <<Num(5)>> @@ "x" :> <<X>>
             @@ "lib" :> <<DefineFun(<<"three">>, <<Num(3)>>)>>
MCFiles == {"lib"}
MCQuoted == {"(1 2)"}
MCImage == [t \in DOMAIN Texts |-> reader_to_data(Texts[t])]

\* Sources is one of the sets of scripts above.
CONSTANT Sources

MCScripts == {[programs |-> [i \in DOMAIN s |-> reader_to_data(s[i])],
               values |-> Session(s, EmptyStore, NilValue)] : s \in Sources}
=============================================================================
