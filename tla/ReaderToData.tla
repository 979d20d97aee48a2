---------------------------- MODULE ReaderToData ----------------------------
(***************************************************************************)
(* reader_to_data: from the reader's nodes to data cells.  A node is a     *)
(* tree; the nodes that follow it (next) are the rest of a sequence.  A    *)
(* cell refers to the i-th cell created as -i.                             *)
(***************************************************************************)
EXTENDS Integers, Sequences, CorePrims

Tree(kind, text, num, items) == [kind |-> kind, text |-> text, num |-> num, items |-> items]
Num(n) == Tree("number", "", n, <<>>)
Str(text) == Tree("string", text, 0, <<>>)
Sym(text) == Tree("symbol", text, 0, <<>>)
Var(text) == Tree("variable", text, 0, <<>>)
List(items) == Tree("pair", "", 0, items)

Atom(tree) == IF tree.kind = "number" THEN Number(tree.num) ELSE Text(tree.kind, tree.text)

\* The cells of trees[1], trees[2], ... as a list, after n others: those of the
\* first element, those of the rest, and the pair.  "()" is NIL.
RECURSIVE Listed(_, _)
Listed(trees, n) ==
    IF trees = <<>> THEN [cells |-> <<>>, first |-> NIL]
    ELSE LET tree == Head(trees)
             car == IF tree.kind = "pair" THEN Listed(tree.items, n)
                    ELSE [cells |-> <<Atom(tree)>>, first |-> -(n + 1)]
             cdr == Listed(Tail(trees), n + Len(car.cells))
             cells == car.cells \o cdr.cells
         IN  [cells |-> Append(cells, Pair(car.first, cdr.first)),
              first |-> -(n + Len(cells) + 1)]

\* A text that begins with an atom is that atom only.
reader_to_data(trees) ==
    IF trees = <<>> THEN Returns(NULL)
    ELSE IF Head(trees).kind # "pair" THEN Creates(Atom(Head(trees)))
    ELSE LET list == Listed(trees, 0) IN [cells |-> list.cells, val |-> list.first]
=============================================================================
