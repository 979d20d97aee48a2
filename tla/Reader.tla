------------------------------- MODULE Reader -------------------------------
(***************************************************************************)
(* reader.c: a text becomes a tree of nodes, one token at a time.  The     *)
(* tree is kept in the order of the text, each node with its level: the    *)
(* nodes that follow a node and are deeper are those below it.             *)
(***************************************************************************)
EXTENDS Integers, Sequences, FiniteSets, SequencesExt

VARIABLES buffer,         \* [chars, len]: a text of len characters, and what
                          \* is found after it in memory
          stream,         \* the position of the next character
          line_num,
          nodes,          \* what the last reading has made so far
          depth,          \* the calls of invoke that have not returned
          cur_filename,   \* the names of all sources
          cur_filename_index

streamVars == <<buffer, stream, line_num, nodes, depth>>
readerVars == <<streamVars, cur_filename, cur_filename_index>>

Parentheses == {"(", ")"}
Blanks == {" ", "\t", "\n"}

CharAt(p) == IF p \in DOMAIN buffer.chars THEN buffer.chars[p] ELSE "NUL"
AtEnd(p) == p > buffer.len
Newlines(p, q) == Cardinality({x \in p..(q - 1) : CharAt(x) = "\n"})

\* What invoke passes over before a token: blanks, and comments up to their newline.
InComment(p, q) == \E x \in p..q : CharAt(x) = ";" /\ \A y \in x..q : CharAt(y) # "\n"
Passed(p, q) == CharAt(q) \in Blanks \/ InComment(p, q)
Skip(p) ==
    LET stops == {q \in p..buffer.len : ~ Passed(p, q)}
    IN  IF stops = {} THEN buffer.len + 1 ELSE CHOOSE q \in stops : \A x \in stops : q <= x

-----------------------------------------------------------------------------
(* consume_token.  cur_token_len starts at 1, and the character that ends a *)
(* token is counted or not; at the end of the text the length is one too    *)
(* many, and takes in what lies after the text.                             *)

\* mode is "plain", or "string" after a quote, or "quoted" after '( , or "ended";
\* parens counts the parentheses of a quoted list; prev is the character before.
Begun(p) == [next |-> p, len |-> 1, mode |-> "plain", parens |-> 0, prev |-> "NUL"]
Scan(t) ==
    LET c == CharAt(t.next)
        parens == t.parens + (IF c = "(" THEN 1 ELSE IF c = ")" THEN -1 ELSE 0)
        More(mode, n) == [next |-> t.next + 1, len |-> t.len + 1, mode |-> mode, parens |-> n, prev |-> c]
        Ended(len, next) == [t EXCEPT !.mode = "ended", !.len = len, !.next = next]
    IN  CASE AtEnd(t.next) \/ t.mode = "ended" -> t
          [] ~AtEnd(t.next) /\ t.mode = "quoted" ->
                 IF parens = 0 THEN Ended(t.len, t.next + 1) ELSE More("quoted", parens)
          [] ~AtEnd(t.next) /\ t.mode = "string" ->
                 IF c = "\"" /\ t.prev # "\\" THEN Ended(t.len, t.next + 1) ELSE More("string", t.parens)
          [] ~AtEnd(t.next) /\ t.mode = "plain" ->
                 CASE c \in Parentheses -> IF t.len > 1 THEN Ended(t.len - 1, t.next) ELSE Ended(1, t.next + 1)
                   [] c \in Blanks \cup {";"} -> Ended(t.len - 1, t.next)
                   [] c = "\"" -> More("string", t.parens)
                   [] c = "'" /\ CharAt(t.next + 1) = "(" -> More("quoted", t.parens)
                   [] OTHER -> More("plain", t.parens)

\* A scan stops with its token, or with the text; it has no more steps than the
\* buffer has characters.
Scanned(p) ==
    LET scan[n \in Nat] == IF n = 0 THEN Begun(p) ELSE Scan(scan[n - 1])
        stopped(t) == AtEnd(t.next) \/ t.mode = "ended"
    IN  scan[CHOOSE n \in 0 .. buffer.len : stopped(scan[n]) \/ n = buffer.len]

\* Fault: a parenthesis that ends an atom is eaten with it.
TokenEndEaten(p) ==
    LET t == Scanned(p)
    IN  IF t.len > 1 /\ CharAt(t.next) \in Parentheses THEN [t EXCEPT !.next = @ + 1] ELSE t

TokenEnd(p) == Scanned(p)

\* Tokens are compared and classified as C strings: they end before a NUL.
TokenText(p) ==
    LET last == p + TokenEnd(p).len - 1
    IN  SubSeq(buffer.chars, p, IF last > Len(buffer.chars) THEN Len(buffer.chars) ELSE last)

create_node(token, line) ==
    [token |-> token, line_num |-> line, filename_index |-> cur_filename_index, depth |-> depth]

-----------------------------------------------------------------------------
ReaderInit ==
    /\ buffer = [chars |-> <<>>, len |-> 0]
    /\ stream = 1 /\ line_num = 0 /\ nodes = <<>> /\ depth = 0
    /\ cur_filename = <<>> /\ cur_filename_index = 0

\* Fault: a new source takes the index of the one before it.
StartReadingSameSource(filename, text, beyond) ==
    /\ depth = 0
    /\ IF Contains(cur_filename, filename) THEN UNCHANGED cur_filename
       ELSE cur_filename' = Append(cur_filename, filename)
    /\ cur_filename_index' = IF Contains(cur_filename, filename)
                             THEN CHOOSE i \in DOMAIN cur_filename : cur_filename[i] = filename
                             ELSE Len(cur_filename)
    /\ buffer' = [chars |-> text \o beyond, len |-> Len(text)]
    /\ stream' = 1 /\ line_num' = 1 /\ nodes' = <<>> /\ depth' = 1

\* A text is handed to invoke; its source keeps one index for ever.
StartReading(filename, text, beyond) ==
    /\ depth = 0
    /\ IF Contains(cur_filename, filename) THEN UNCHANGED cur_filename
       ELSE cur_filename' = Append(cur_filename, filename)
    /\ cur_filename_index' = CHOOSE i \in DOMAIN cur_filename' : cur_filename'[i] = filename
    /\ buffer' = [chars |-> text \o beyond, len |-> Len(text)]
    /\ stream' = 1 /\ line_num' = 1 /\ nodes' = <<>> /\ depth' = 1

\* The evaluated text is its own filename, and ends with a NUL.
reader_read_string(string) == StartReading(string, string, <<>>)

\* The innermost call of invoke has made a node (start_node).
HasNode == nodes # <<>> /\ Last(nodes).depth >= depth

\* Fault: a level that is empty has no node for its closing parenthesis either.
KeptNever(node) == node.token # <<")">>

\* A closing parenthesis is dropped, unless it is the first node of its level.
Kept(node) == node.token = <<")">> => ~ HasNode

ReadToken ==
    LET p == Skip(stream)
        line == line_num + Newlines(stream, p)
        node == create_node(TokenText(p), line)
    IN  /\ depth > 0 /\ ~AtEnd(p)
        /\ stream' = TokenEnd(p).next
        /\ line_num' = line
        /\ nodes' = IF Kept(node) THEN Append(nodes, node) ELSE nodes
        /\ depth' = IF node.token = <<"(">> THEN depth + 1
                    ELSE IF node.token = <<")">> THEN depth - 1 ELSE depth
        /\ UNCHANGED <<buffer, cur_filename, cur_filename_index>>

\* The text has ended: the innermost call returns.
Return ==
    /\ depth > 0 /\ AtEnd(Skip(stream))
    /\ stream' = Skip(stream)
    /\ line_num' = line_num + Newlines(stream, stream')
    /\ depth' = depth - 1
    /\ UNCHANGED <<buffer, nodes, cur_filename, cur_filename_index>>

\* The buffer of a file is freed when its reading is over; a string is not the
\* reader's.  Neither is looked at again.
destroy_filenames ==
    /\ cur_filename' = <<>> /\ cur_filename_index' = 0
    /\ UNCHANGED streamVars
=============================================================================
