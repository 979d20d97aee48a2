----------------------------- MODULE Classifier -----------------------------
(***************************************************************************)
(* classifier.c: the type and the data of a node, from its token.  A token *)
(* is a sequence of characters.  A number is <<n, d>>: n / 10^d, without   *)
(* the rounding of doubles.                                                *)
(***************************************************************************)
EXTENDS Integers, Sequences, SequencesExt

Node(kind, text, num) == [kind |-> kind, text |-> text, num |-> num]
NumberNode(num) == Node("number", <<>>, num)
TextNode(kind, text) == Node(kind, text, <<0, 0>>)
PairNode == Node("pair", <<>>, <<0, 0>>)

Digits == <<"0", "1", "2", "3", "4", "5", "6", "7", "8", "9">>
IsDigit(c) == Contains(Digits, c)
DigitValue(c) == (CHOOSE n \in DOMAIN Digits : Digits[n] = c) - 1

Unsigned(token) == IF token[1] = "-" THEN Tail(token) ELSE token

\* Fault: a minus alone is taken for a number.
IsNumberMinus(token) ==
    LET body == Unsigned(token)
    IN  \A i \in DOMAIN body : IsDigit(body[i]) \/ body[i] = "."

\* Any number of points is allowed: digits after the first one are decimals.
IsNumber(token) ==
    /\ token # <<"-">>
    /\ LET body == Unsigned(token)
       IN  \A i \in DOMAIN body : IsDigit(body[i]) \/ body[i] = "."
NumberOf(token) ==
    LET body == Unsigned(token)
        Decimal(i) == IsDigit(body[i]) /\ \E j \in 1..i : body[j] = "."
        digits == FoldLeft(LAMBDA n, c : 10 * n + DigitValue(c), 0, SelectSeq(body, IsDigit))
    IN  <<IF token[1] = "-" THEN -digits ELSE digits, Cardinality({i \in DOMAIN body : Decimal(i)})>>

\* Every backslash is dropped; reader_to_data drops the quotes.
IsString(token) == token[1] = "\"" /\ Last(token) = "\""
StringOf(token) ==
    LET kept == SelectSeq(token, LAMBDA c : c # "\\")
    IN  SubSeq(kept, 2, Len(kept) - 1)

\* The first test that succeeds decides.
ClassifiedNode(token) ==
    CASE IsNumber(token)  -> NumberNode(NumberOf(token))
      [] IsString(token)  -> TextNode("string", StringOf(token))
      [] token[1] = "'"   -> TextNode("symbol", Tail(token))
      [] token = <<"(">>  -> PairNode
      [] OTHER            -> TextNode("variable", token)

\* All nodes, each with its level.  A list that begins with the node of its own
\* closing parenthesis is empty: reader_to_data takes it for nil.
Classified(all) ==
    LET items == SelectSeq(all, LAMBDA node : node.token # <<")">>)
    IN  [n \in DOMAIN items |-> [depth |-> items[n].depth, node |-> ClassifiedNode(items[n].token)]]
=============================================================================
