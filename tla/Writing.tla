------------------------------ MODULE Writing -------------------------------
(***************************************************************************)
(* How programs and configurations are written, and what their author      *)
(* means by them: what the engine's reading is compared with.              *)
(***************************************************************************)
EXTENDS Integers, Sequences, SequencesExt, TLC, Classifier

-----------------------------------------------------------------------------
(* Programs.  An item is an atom with its token, or a list of items.        *)

Atom(token, node) == [token |-> token, node |-> node, items |-> <<>>]
Sublist(items) == [token |-> <<>>, node |-> PairNode, items |-> items]

RECURSIVE Meant(_, _), Tokens(_)
Meant(items, level) ==
    FoldLeft(LAMBDA all, item : all \o <<[depth |-> level, node |-> item.node]>> \o Meant(item.items, level + 1),
             <<>>, items)
Tokens(items) ==
    LET TokensOf(item) == IF item.token = <<>> THEN <<<<"(">>>> \o Tokens(item.items) \o <<<<")">>>>
                          ELSE <<item.token>>
    IN  FoldLeft(LAMBDA all, item : all \o TokensOf(item), <<>>, items)

\* The tokens with separator sep between them; two atoms are always kept apart.
Parenthesis(token) == token \in {<<"(">>, <<")">>}
RECURSIVE Joined(_, _)
Joined(tokens, sep) ==
    IF Len(tokens) < 2 THEN FlattenSeq(tokens)
    ELSE LET apart == sep # <<>> \/ Parenthesis(tokens[1]) \/ Parenthesis(tokens[2])
         IN  tokens[1] \o (IF apart THEN sep ELSE <<" ">>) \o Joined(Tail(tokens), sep)

\* The line of each node, in the order of the text: a closing parenthesis is a
\* node right after the opening one only.
NodeLines(tokens, sep) ==
    LET step == Len(SelectSeq(sep, LAMBDA c : c = "\n"))
        IsNode(k) == tokens[k] # <<")">> \/ tokens[k - 1] = <<"(">>
    IN  [n \in DOMAIN SelectSeq([k \in DOMAIN tokens |-> k], IsNode) |->
            1 + step * (SelectSeq([k \in DOMAIN tokens |-> k], IsNode)[n] - 1)]

-----------------------------------------------------------------------------
(* Configurations.                                                          *)

Header(name) == [kind |-> "section", name |-> <<name>>, value |-> <<>>]
Assign(key, value) == [kind |-> "property", name |-> <<key>>, value |-> value]
Remark(words) == [kind |-> "comment", name |-> <<>>, value |-> words]

\* Written with as little or as much space as there may be.
LineText(line, loose) ==
    LET gap == IF loose THEN <<" ", "\t">> ELSE <<>>
        end == IF loose THEN <<"\n", "\n">> ELSE <<"\n">>
    IN  CASE line.kind = "section"  -> <<"[">> \o line.name \o <<"]">> \o end
          [] line.kind = "property" -> line.name \o gap \o <<"=">> \o gap \o line.value \o end
          [] OTHER                  -> <<"#">> \o gap \o line.value \o end
ConfigText(lines, loose) == FoldLeft(LAMBDA text, line : text \o LineText(line, loose), <<>>, lines)

Properties(lines) == {n \in DOMAIN lines : lines[n].kind = "property"}
HasLine(lines, key, from, to) == \E n \in Properties(lines) : from <= n /\ n < to /\ lines[n].name = <<key>>

\* What keeps an author out of trouble: a header comes first, nothing is empty,
\* a definition ends with a name, and has its module in the same file, after any Include, and a library.
WellWritten(lines) ==
    /\ \A n \in Properties(lines) : \E h \in 1..(n - 1) : lines[h].kind = "section"
    /\ \A n \in DOMAIN lines : lines[n].kind # "section" => lines[n].value # <<>>
    /\ \A n \in Properties(lines) : lines[n].name = <<"Definition">> =>
           /\ {Head(lines[n].value), Last(lines[n].value)} \cap {" ", ","} = {}
           /\ \E m \in 1..(n - 1) : /\ HasLine(lines, "Module", m, m + 1)
                                    /\ ~HasLine(lines, "Include", m, n)
                                    /\ HasLine(lines, "File", 1, n)
=============================================================================
