------------------------------ MODULE CorePrims ------------------------------
(***************************************************************************)
(* The functions of core_prims.c and the lookup that finds them, except    *)
(* display, newline, random, int and /.  Each returns an outcome: the cells *)
(* it creates and the pointer it returns.  Numbers are integers.  A        *)
(* function that uses a variable it never wrote, or divides by zero,       *)
(* returns WILD.                                                           *)
(***************************************************************************)
EXTENDS Machine

Primitives == {"list", "first", "rest", "push", "or", "and", "not",
               "+", "-", "*", "mod", "=", "<", ">", "<=", ">="}

\* The functions that the EnvRestore plugin registers in the same table.
Foreign == {"env:save", "env:restore"}
Registered == Primitives \cup Foreign

\* lookup_variable_value: the value, the name of a primitive, or an error.
lookup_variable_value(p, env) ==
    IF Lookup(TextOf(p), env) # NULL THEN Returns(Lookup(TextOf(p), env))
    ELSE IF TextOf(p) \in Registered THEN Returns(p)
    ELSE Creates(Error("unknown variable"))

\* list_func: a cell per argument and one more, cut off at the end.
list_func(a) ==
    [cells |-> [i \in 1 .. Len(a) + 1 |->
                   IF i = Len(a) + 1 THEN Pair(NIL, NIL)
                   ELSE Pair(a[i], IF i = Len(a) THEN NIL ELSE -(i + 1))],
     val |-> -1]

Compare(name, x, y) ==
    CASE name = "<" -> x < y [] name = ">" -> x > y [] name = "<=" -> x <= y [] name = ">=" -> x >= y

Truth(b) == Returns(IF b THEN T ELSE NIL)

equals_func(x, y) ==
    CASE {x, y} \cap {NIL, T} # {} -> Truth(x = y)
      [] IsStringType(x) /\ IsStringType(y) -> Truth(TextOf(x) = TextOf(y))
      [] IsNumber(x) /\ IsNumber(y) -> Truth(Cell(x).num = Cell(y).num)
      [] OTHER -> Creates(Error("arguments to ="))

\* C's % has the sign of the dividend.
Remainder(x, y) ==
    LET m == (IF x < 0 THEN -x ELSE x) % (IF y < 0 THEN -y ELSE y)
    IN  IF x < 0 THEN -m ELSE m

Arithmetic(name, a) ==
    LET n == [i \in DOMAIN a |-> Cell(a[i]).num]
        sum == FoldLeft(LAMBDA x, y : x + y, 0, n)
        product == FoldLeft(LAMBDA x, y : x * y, 1, n)
    IN  CASE name = "*" -> IF a = <<>> THEN Returns(WILD) ELSE Creates(Number(product))
          [] name = "mod" -> IF n[2] = 0 THEN Returns(WILD) ELSE Creates(Number(Remainder(n[1], n[2])))
          [] name = "+" -> Creates(Number(sum))
          [] name = "-" -> Creates(Number(IF Len(n) = 1 THEN -n[1] ELSE n[1] - (sum - n[1])))
          [] OTHER -> Truth(Compare(name, n[1], n[2]))

\* CHECK_ARITY and MIN_ARITY.
ArityOK(name, n) ==
    CASE name = "*" -> TRUE
      [] name = "push" -> n >= 2
      [] name = "not" -> n = 1
      [] name \in {"mod", "=", "<", ">", "<=", ">="} -> n = 2
      [] OTHER -> n >= 1

proc_prim(name, argl) ==
    LET a == Elements(argl)
        true == {i \in DOMAIN a : a[i] # NIL}
        Part(p) == IF IsPair(a[1]) THEN Returns(p) ELSE Creates(Error("argument must be a pair"))
        InOrder == CASE name = "list" -> list_func(a)
                     [] name = "first" -> Part(CAR(a[1]))
                     [] name = "rest" -> Part(CDR(a[1]))
                     [] name = "push" -> Creates(Pair(a[1], a[2]))
                     [] name = "or" -> Returns(IF true = {} THEN NIL ELSE a[CHOOSE i \in true : \A k \in true : i <= k])
                     [] name = "and" -> Returns(IF true = DOMAIN a THEN a[Len(a)] ELSE NIL)
                     [] name = "not" -> Truth(a[1] = NIL)
                     [] name = "=" -> equals_func(a[1], a[2])
                     [] OTHER -> IF \A i \in DOMAIN a : IsNumber(a[i]) THEN Arithmetic(name, a)
                                 ELSE Creates(Error("arguments must be numbers"))
    IN  IF ArityOK(name, Len(a)) THEN InOrder ELSE Creates(Error("wrong number of arguments"))
=============================================================================
