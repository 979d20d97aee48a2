------------------------------- MODULE Config -------------------------------
(***************************************************************************)
(* config.c: configuration texts become sections of properties.  A text is *)
(* a sequence of words, blanks, newlines and the characters # [ ] = and    *)
(* comma.                                                                  *)
(***************************************************************************)
EXTENDS Integers, Sequences, SequencesExt

VARIABLES sections,       \* every section created: [name, props, conf]
          prev_section,   \* where the next property goes (0: NULL); it
                          \* outlives the Config it belongs to
          configs         \* for every Config created: not destroyed yet

configVars == <<sections, prev_section, configs>>

Spaces == {" ", "\t"}
Marks == {"#", "[", "]", "="}

\* The first position in s, from p on, of a token in stops, or the end.
Upto(s, p, stops) ==
    LET hits == {x \in p..Len(s) : s[x] \in stops}
    IN  IF hits = {} THEN Len(s) + 1 ELSE CHOOSE x \in hits : \A y \in hits : x <= y
White(s, p) ==
    LET hits == {x \in p..Len(s) : s[x] \notin Spaces \cup {"\n"}}
    IN  IF hits = {} THEN Len(s) + 1 ELSE CHOOSE x \in hits : \A y \in hits : x <= y
TokenIs(s, p, c) == p <= Len(s) /\ s[p] = c

\* consume_line, of which p is the first character and q the rest: what it reads
\* and where it stops.  The blanks after "=" may be newlines, so that a property
\* without a value takes the next line for it; a key may hold newlines.
Section(name, end) == [kind |-> "section", name |-> name, value |-> <<>>, end |-> end]
Property(key, value, end) == [kind |-> "property", name |-> key, value |-> value, end |-> end]
NoProperty(end) == [kind |-> "nothing", name |-> <<>>, value |-> <<>>, end |-> end]
consume_line(s, p, q) ==
    LET bracket == Upto(s, q, {"]"})
        keyEnd == IF TokenIs(s, p, "=") THEN p ELSE Upto(s, q, Spaces \cup {"="})
        sign == IF keyEnd = p THEN p ELSE White(s, keyEnd)
        start == White(s, IF sign = p THEN q ELSE sign + 1)
        end == Upto(s, start, {"\n"})
    IN  CASE TokenIs(s, p, "[") -> Section(SubSeq(s, q, bracket - 1), bracket + 1)
          [] TokenIs(s, sign, "=") -> Property(SubSeq(s, p, keyEnd - 1), SubSeq(s, start, end - 1), end + 1)
          [] OTHER -> NoProperty(sign + 1)

\* One round of config_read_config.  The blanks after the first character go
\* before it is looked at: "#" and a newline make a comment of the next line.
\* Blanks come first at the start of a text only; no "#" is looked for after them.
LineAt(s, p) ==
    LET q == IF s[p] \in Marks THEN White(s, p + 1) ELSE p + 1
    IN  CASE s[p] = "#" -> NoProperty(Upto(s, q, {"\n"}) + 1)
          [] s[p] \in Spaces \cup {"\n"} -> consume_line(s, White(s, p), White(s, p) + 1)
          [] OTHER -> consume_line(s, p, q)

SectionsOf(conf) == SelectSeq([k \in DOMAIN sections |-> k], LAMBDA k : sections[k].conf = conf)

ConfigInit == sections = <<>> /\ prev_section = 0 /\ configs = <<>>

\* Without any section so far the assert fails; the section of a Config that has
\* been destroyed is freed memory.
LineAborts(line) == line.kind = "property" /\ prev_section = 0
LineUndefined(line) ==
    line.kind = "property" /\ prev_section # 0 /\ ~configs[sections[prev_section].conf]

\* Fault: a header does not say where the properties after it go.
StoreForgetting(line, conf) ==
    /\ CASE line.kind = "section" ->
              sections' = Append(sections, [name |-> line.name, props |-> <<>>, conf |-> conf])
         [] line.kind = "property" ->
              sections' = [sections EXCEPT ![prev_section].props =
                              Append(@, [key |-> line.name, value |-> line.value])]
         [] OTHER -> UNCHANGED sections
    /\ UNCHANGED <<prev_section, configs>>

Store(line, conf) ==
    /\ CASE line.kind = "section" ->
              /\ sections' = Append(sections, [name |-> line.name, props |-> <<>>, conf |-> conf])
              /\ prev_section' = Len(sections')
         [] line.kind = "property" ->
              /\ sections' = [sections EXCEPT ![prev_section].props =
                                  Append(@, [key |-> line.name, value |-> line.value])]
              /\ UNCHANGED prev_section
         [] OTHER -> UNCHANGED <<sections, prev_section>>
    /\ UNCHANGED configs
=============================================================================
