---------------------------- MODULE EngineProofs ----------------------------
(***************************************************************************)
(* Proofs about Engine, for any texts, files, directories and calls of the *)
(* host: the types, the configurations that include each other, what the   *)
(* tree of a reading looks like, which source its nodes name and how many  *)
(* they are, and the list that the search directories are.                 *)
(***************************************************************************)
EXTENDS Engine, SearchDirsProofs

-----------------------------------------------------------------------------
(* Texts and sequences.                                                    *)

LEMMA SubText ==
    ASSUME NEW S, NEW s \in Seq(S), NEW m \in Nat, m # 0, NEW n \in Int, n <= Len(s)
    PROVE  SubSeq(s, m, n) \in Seq(S) /\ Len(SubSeq(s, m, n)) = IF m <= n THEN n - m + 1 ELSE 0
OBVIOUS

LEMMA AppendSeq ==
    ASSUME NEW q, q \in Seq(Range(q)), NEW e
    PROVE  /\ Append(q, e) \in Seq(Range(Append(q, e))) /\ Len(Append(q, e)) = Len(q) + 1
           /\ Append(q, e)[Len(q) + 1] = e /\ Last(Append(q, e)) = e
           /\ \A i \in 1 .. Len(q) : Append(q, e)[i] = q[i]
<1> DEFINE S == Range(q) \cup {e}
<1>1. q \in Seq(S) /\ e \in S
  OBVIOUS
<1> HIDE DEF S
<1>2. Append(q, e) \in Seq(S)
  BY <1>1
<1>3. Len(Append(q, e)) = Len(q) + 1 /\ Append(q, e)[Len(q) + 1] = e /\ \A i \in 1 .. Len(q) : Append(q, e)[i] = q[i]
  BY <1>1
<1> DEFINE p == Append(q, e)
<1> HIDE DEF p
<1>4. p \in Seq(S) => p \in Seq(Range(p))
  BY DEF Range
<1>5. QED BY <1>1, <1>2, <1>3, <1>4 DEF p, Last

-----------------------------------------------------------------------------
(* Reading.                                                                *)

BufferOK == buffer.chars \in Texts /\ buffer.len \in 0 .. Len(buffer.chars)

Chars == Range(buffer.chars) \cup {"NUL"}

LEMMA CharType ==
    ASSUME NEW p
    PROVE  CharAt(p) \in Chars
BY DEF CharAt, Chars, Range

LEMMA NewlinesType ==
    ASSUME NEW p \in Int, NEW q \in Int
    PROVE  Newlines(p, q) \in Nat
<1>1. IsFiniteSet(p .. q - 1)
  BY FS_Interval
<1>2. {x \in p .. q - 1 : CharAt(x) = "\n"} \subseteq p .. q - 1
  OBVIOUS
<1>3. QED BY <1>1, <1>2, FS_Subset, FS_CardinalityType DEF Newlines

LEMMA SkipType ==
    ASSUME BufferOK, NEW p \in 1 .. buffer.len + 1
    PROVE  Skip(p) \in p .. buffer.len + 1
<1> DEFINE stops == {q \in p .. buffer.len : ~ Passed(p, q)}
<1>1. buffer.len \in Nat
  BY DEF BufferOK
<1>2. CASE stops = {}
  BY <1>1, <1>2 DEF Skip
<1>3. CASE stops # {}
  <2>1. stops \in SUBSET Nat
    BY <1>1
  <2>2. \E q \in stops : \A x \in stops : q <= x
    BY <1>3, <2>1, Least
  <2>3. Skip(p) \in stops
    BY <1>3, <2>2 DEF Skip
  <2>4. QED BY <1>1, <2>3
<1>4. QED BY <1>2, <1>3

ScanStates(p) ==
    [next : p .. buffer.len + 1, len : Int, mode : {"plain", "string", "quoted", "ended"}, parens : Int, prev : Chars]

LEMMA ScanType ==
    ASSUME BufferOK, NEW p \in 1 .. buffer.len, NEW t \in ScanStates(p)
    PROVE  Scan(t) \in ScanStates(p)
<1> DEFINE c == CharAt(t.next)
           parens == t.parens + (IF c = "(" THEN 1 ELSE IF c = ")" THEN -1 ELSE 0)
           More(mode, n) == [next |-> t.next + 1, len |-> t.len + 1, mode |-> mode, parens |-> n, prev |-> c]
           Ended(len, next) == [t EXCEPT !.mode = "ended", !.len = len, !.next = next]
<1>1. /\ t.next \in p .. buffer.len + 1 /\ t.len \in Int /\ t.mode \in {"plain", "string", "quoted", "ended"}
      /\ t.parens \in Int /\ t.prev \in Chars /\ buffer.len \in Nat
  BY DEF ScanStates, BufferOK
<1>2. c \in Chars
  BY CharType
<1> HIDE DEF c
<1>3. parens \in Int
  BY <1>1
<1> HIDE DEF parens
<1>4. CASE AtEnd(t.next) \/ t.mode = "ended"
  BY <1>4 DEF Scan
<1>5. CASE ~ AtEnd(t.next) /\ t.mode # "ended"
  <2>1. t.next \in p .. buffer.len /\ t.next + 1 \in p .. buffer.len + 1
    BY <1>1, <1>5 DEF AtEnd
  <2>2. ASSUME NEW mode \in {"plain", "string", "quoted"}, NEW n \in Int PROVE More(mode, n) \in ScanStates(p)
    BY <1>1, <1>2, <2>1 DEF ScanStates
  <2>3. ASSUME NEW len \in Int, NEW next \in {t.next, t.next + 1} PROVE Ended(len, next) \in ScanStates(p)
    BY <1>1, <2>1 DEF ScanStates
  <2>4. t.len - 1 \in Int /\ 1 \in Int
    BY <1>1
  <2> HIDE DEF More, Ended
  <2>5. \/ \E mode \in {"plain", "string", "quoted"}, n \in Int : Scan(t) = More(mode, n)
        \/ \E len \in Int, next \in {t.next, t.next + 1} : Scan(t) = Ended(len, next)
    <3>1. CASE t.mode = "quoted"
      <4>1. Scan(t) = IF parens = 0 THEN Ended(t.len, t.next + 1) ELSE More("quoted", parens)
        BY <1>5, <3>1 DEF Scan, More, Ended, c, parens
      <4>2. QED BY <1>1, <1>3, <4>1
    <3>2. CASE t.mode = "string"
      <4>1. Scan(t) = Ended(t.len, t.next + 1) \/ Scan(t) = More("string", t.parens)
        BY <1>5, <3>2 DEF Scan, More, Ended, c
      <4>2. QED BY <1>1, <4>1
    <3>3. CASE t.mode = "plain"
      <4>1. \/ Scan(t) = Ended(t.len - 1, t.next) \/ Scan(t) = Ended(1, t.next + 1)
            \/ Scan(t) = More("string", t.parens) \/ Scan(t) = More("quoted", t.parens)
            \/ Scan(t) = More("plain", t.parens)
        BY <1>5, <3>3 DEF Scan, More, Ended, c
      <4>2. QED BY <1>1, <2>4, <4>1
    <3>4. QED BY <1>1, <1>5, <3>1, <3>2, <3>3
  <2>6. QED BY <2>2, <2>3, <2>5
<1>6. QED BY <1>4, <1>5

\* The states that consume_token goes through.
ScansFrom(f, p) == f = [n \in Nat |-> IF n = 0 THEN Begun(p) ELSE Scan(f[n - 1])]

LEMMA Scans ==
    ASSUME BufferOK, NEW p \in 1 .. buffer.len
    PROVE  \E f : /\ ScansFrom(f, p) /\ Scanned(p) = f[buffer.len]
                  /\ \A n \in Nat : f[n] \in ScanStates(p)
<1> DEFINE g == [t \in ScanStates(p) |-> Scan(t)]
<1>1. g \in [ScanStates(p) -> ScanStates(p)] /\ \A t \in ScanStates(p) : g[t] = Scan(t)
  BY ScanType
<1>2. Begun(p) \in ScanStates(p)
  BY DEF Begun, ScanStates, BufferOK, Chars
<1> HIDE DEF g
<1>3. PICK h \in [Nat -> ScanStates(p)] : Iterates(h, Begun(p), g)
  BY <1>1, <1>2, Iteration
<1>4. ScansFrom(h, p)
  <2>1. ASSUME NEW n \in Nat, n # 0 PROVE h[n] = Scan(h[n - 1])
    <3>1. n - 1 \in Nat /\ (n - 1) + 1 = n
      BY <2>1
    <3>2. QED BY <3>1, <1>1, <1>3 DEF Iterates
  <2>2. QED BY <2>1, <1>3 DEF Iterates, ScansFrom
<1> DEFINE f == CHOOSE k : ScansFrom(k, p)
<1>5. ScansFrom(f, p)
  BY <1>4
<1> DEFINE stopped(t) == AtEnd(t.next) \/ t.mode = "ended"
           stop == CHOOSE n \in 0 .. buffer.len : stopped(f[n]) \/ n = buffer.len
<1>6. Scanned(p) = f[stop]
  BY DEF Scanned, ScansFrom
<1> HIDE DEF f
<1> DEFINE N == {n \in Nat : f[n] \in ScanStates(p)}
<1>7. 0 \in N
  BY <1>2, <1>5 DEF ScansFrom
<1>8. ASSUME NEW n \in N PROVE n + 1 \in N
  <2>1. f[n + 1] = Scan(f[(n + 1) - 1])
    BY <1>5 DEF ScansFrom
  <2>2. QED BY <2>1, ScanType
<1> HIDE DEF N
<1>9. N = Nat
  BY <1>7, <1>8, Induction DEF N
<1>10. \A n \in Nat : f[n] \in ScanStates(p)
  BY <1>9 DEF N
<1>11. f[stop] = f[buffer.len]
  <2>1. buffer.len \in Nat /\ buffer.len \in 0 .. buffer.len
    BY DEF BufferOK
  <2>2. stop \in 0 .. buffer.len /\ (stopped(f[stop]) \/ stop = buffer.len)
    BY <2>1
  <2> HIDE DEF stop
  <2>3. CASE stop = buffer.len
    BY <2>3
  <2>4. CASE stopped(f[stop])
    <3> DEFINE M == {n \in Nat : f[stop + n] = f[stop]}
    <3>1. 0 \in M
      BY <2>1, <2>2
    <3>2. ASSUME NEW n \in M PROVE n + 1 \in M
      <4>1. stop + (n + 1) \in Nat /\ stop + (n + 1) # 0 /\ (stop + (n + 1)) - 1 = stop + n
        BY <2>1, <2>2
      <4>2. f[stop + (n + 1)] = Scan(f[stop + n])
        BY <1>5, <4>1 DEF ScansFrom
      <4>3. Scan(f[stop]) = f[stop]
        BY <2>4 DEF Scan
      <4>4. QED BY <4>2, <4>3
    <3> HIDE DEF M
    <3>3. M = Nat
      BY <3>1, <3>2, Induction DEF M
    <3>4. buffer.len - stop \in Nat /\ stop + (buffer.len - stop) = buffer.len
      BY <2>1, <2>2
    <3>5. QED BY <3>3, <3>4 DEF M
  <2>5. QED BY <2>2, <2>3, <2>4
<1>12. QED BY <1>5, <1>6, <1>10, <1>11

LEMMA TokenEndType ==
    ASSUME BufferOK, NEW p \in 1 .. buffer.len
    PROVE  TokenEnd(p).next \in p .. buffer.len + 1 /\ TokenEnd(p).len \in Int
<1>1. PICK f : Scanned(p) = f[buffer.len] /\ \A n \in Nat : f[n] \in ScanStates(p)
  BY Scans
<1>2. Scanned(p) \in ScanStates(p)
  BY <1>1 DEF BufferOK
<1>3. QED BY <1>2 DEF TokenEnd, ScanStates

\* A parenthesis is a token by itself.
LEMMA ParenthesisScan ==
    ASSUME BufferOK, NEW p \in 1 .. buffer.len, CharAt(p) \in Parentheses
    PROVE  TokenEnd(p).next = p + 1 /\ TokenEnd(p).len = 1
<1>1. PICK f : ScansFrom(f, p) /\ Scanned(p) = f[buffer.len]
  BY Scans
<1>2. buffer.len \in Nat /\ buffer.len >= 1 /\ ~ AtEnd(p)
  BY DEF BufferOK, AtEnd
<1>3. f[1] = Scan(Begun(p))
  BY <1>1 DEF ScansFrom
<1>4. f[1].mode = "ended" /\ f[1].next = p + 1 /\ f[1].len = 1
  <2> DEFINE t == Begun(p)
  <2>1. /\ t.next = p /\ t.len = 1 /\ t.mode = "plain"
        /\ "mode" \in DOMAIN t /\ "next" \in DOMAIN t /\ "len" \in DOMAIN t
    BY DEF Begun
  <2> HIDE DEF t
  <2>2. ~ (CharAt(p) \in Blanks \cup {";"}) /\ CharAt(p) # "\"" /\ CharAt(p) # "'"
    BY DEF Parentheses, Blanks
  <2>3. Scan(t) = [t EXCEPT !.mode = "ended", !.len = 1, !.next = p + 1]
    <3>1. ~ AtEnd(t.next) /\ CharAt(t.next) = CharAt(p) /\ t.next + 1 = p + 1 /\ ~ (t.len > 1)
      BY <1>2, <2>1
    <3>2. Scan(t) = [t EXCEPT !.mode = "ended", !.len = 1, !.next = t.next + 1]
      BY <2>1, <2>2, <3>1 DEF Scan
    <3>3. QED BY <3>1, <3>2
  <2>4. Scan(t).mode = "ended" /\ Scan(t).next = p + 1 /\ Scan(t).len = 1
    BY <2>1, <2>3
  <2>5. QED BY <1>3, <2>4 DEF t
<1> DEFINE N == {n \in Nat : f[n + 1] = f[1]}
<1>5. 0 \in N
  OBVIOUS
<1>6. ASSUME NEW n \in N PROVE n + 1 \in N
  <2>1. f[(n + 1) + 1] = Scan(f[n + 1])
    <3>1. (n + 1) + 1 \in Nat /\ (n + 1) + 1 # 0 /\ ((n + 1) + 1) - 1 = n + 1
      OBVIOUS
    <3>2. QED BY <1>1, <3>1 DEF ScansFrom
  <2>2. f[n + 1] = f[1]
    OBVIOUS
  <2>3. Scan(f[1]) = f[1]
    BY <1>4 DEF Scan
  <2>4. QED BY <2>1, <2>2, <2>3
<1> HIDE DEF N
<1>7. N = Nat
  BY <1>5, <1>6, Induction DEF N
<1>8. f[buffer.len] = f[1]
  <2>1. buffer.len - 1 \in N /\ (buffer.len - 1) + 1 = buffer.len
    BY <1>2, <1>7
  <2>2. QED BY <2>1 DEF N
<1>9. QED BY <1>1, <1>4, <1>8 DEF TokenEnd

LEMMA OneCharacter ==
    ASSUME BufferOK, NEW p \in 1 .. buffer.len, NEW c, TokenText(p) = <<c>>
    PROVE  CharAt(p) = c
<1> DEFINE last == p + TokenEnd(p).len - 1
           m == IF last > Len(buffer.chars) THEN Len(buffer.chars) ELSE last
<1>1. last \in Int
  BY TokenEndType DEF BufferOK
<1> HIDE DEF last
<1>2. m \in Int /\ m <= Len(buffer.chars) /\ buffer.chars \in Seq(STRING) /\ p \in Nat /\ p # 0 /\ p <= Len(buffer.chars)
  BY <1>1 DEF BufferOK, Texts
<1>3. SubSeq(buffer.chars, p, m) = <<c>>
  BY DEF TokenText, last
<1> HIDE DEF m
<1>4. buffer.chars[p] = c
  <2> DEFINE chars == buffer.chars
  <2>1. p <= m
    <3>1. Len(SubSeq(chars, p, m)) = IF p <= m THEN m - p + 1 ELSE 0
      BY <1>2, SubText
    <3>2. Len(SubSeq(chars, p, m)) = 1
      BY <1>3
    <3> DEFINE l == Len(SubSeq(chars, p, m))
    <3> HIDE DEF l
    <3>3. l = 1 /\ l = IF p <= m THEN m - p + 1 ELSE 0
      BY <3>1, <3>2 DEF l
    <3>4. QED BY <3>3, <1>2
  <2> HIDE DEF chars
  <2>2. SubSeq(chars, p, m)[1] = chars[p]
    BY <1>2, <2>1 DEF chars
  <2>3. QED BY <1>3, <2>2 DEF chars
<1>5. QED BY <1>2, <1>4 DEF CharAt

LEMMA ParenthesisToken ==
    ASSUME BufferOK, NEW p \in 1 .. buffer.len, CharAt(p) \in Parentheses
    PROVE  TokenText(p) = <<CharAt(p)>>
<1>1. /\ buffer.chars \in Seq(STRING) /\ Len(buffer.chars) \in Nat /\ buffer.len \in Nat
      /\ p \in 1 .. Len(buffer.chars) /\ ~ (p > Len(buffer.chars))
  BY DEF BufferOK, Texts
<1>2. TokenText(p) = SubSeq(buffer.chars, p, p)
  <2>1. p + TokenEnd(p).len - 1 = p
    BY <1>1, ParenthesisScan
  <2>2. QED BY <1>1, <2>1 DEF TokenText
<1>3. SubSeq(buffer.chars, p, p) = <<buffer.chars[p]>>
  <2> DEFINE s == SubSeq(buffer.chars, p, p)
  <2>1. s \in Seq(STRING) /\ Len(s) = 1 /\ s[1] = buffer.chars[p]
    BY <1>1
  <2> HIDE DEF s
  <2>2. s = <<s[1]>>
    BY <2>1
  <2>3. QED BY <2>1, <2>2 DEF s
<1>4. CharAt(p) = buffer.chars[p]
  BY <1>1 DEF CharAt
<1>5. QED BY <1>2, <1>3, <1>4

\* The node of an opening parenthesis stands for one, and the reading goes on right after it.
LEMMA OpenToken ==
    ASSUME BufferOK, NEW p \in 1 .. buffer.len, TokenText(p) = <<"(">>
    PROVE  CharAt(p) = "(" /\ TokenEnd(p).next = p + 1
BY OneCharacter, ParenthesisScan DEF Parentheses

LEMMA TokenTextType ==
    ASSUME BufferOK, NEW p \in 1 .. buffer.len
    PROVE  TokenText(p) \in Texts
<1> DEFINE last == p + TokenEnd(p).len - 1
           m == IF last > Len(buffer.chars) THEN Len(buffer.chars) ELSE last
<1>1. last \in Int
  BY TokenEndType DEF BufferOK
<1> HIDE DEF last
<1>2. m \in Int /\ m <= Len(buffer.chars) /\ buffer.chars \in Seq(STRING) /\ p \in Nat /\ p # 0
  BY <1>1 DEF BufferOK, Texts
<1>3. TokenText(p) = SubSeq(buffer.chars, p, m)
  BY DEF TokenText, last
<1> HIDE DEF m
<1>4. QED BY <1>2, <1>3, SubText DEF Texts

-----------------------------------------------------------------------------
(* The invariant.                                                          *)

\* The nodes that create_node makes.
ReaderNodes == [token : Texts, line_num : Int, filename_index : Int, depth : Int]
ReaderOK ==
    /\ BufferOK /\ line_num \in Int /\ depth \in Nat
    /\ depth > 0 => stream \in 1 .. buffer.len + 1
    /\ nodes \in Seq(ReaderNodes)
    /\ cur_filename \in Seq(Range(cur_filename)) /\ cur_filename_index \in 0 .. Len(cur_filename)

\* What follows an opening parenthesis is below it.  If nothing does, the reader
\* is still right behind it or has found nothing but the end of the text there.
LastOpen(x) ==
    /\ CharAt(x) = "("
    /\ \/ stream = x + 1 /\ depth = Last(nodes).depth + 1
       \/ AtEnd(stream) /\ AtEnd(Skip(x + 1))
TreeOK ==
    /\ \A n \in 1 .. Len(nodes) : nodes[n].depth >= 1
    /\ \A n \in 1 .. Len(nodes) - 1 : nodes[n].token = <<"(">> => nodes[n + 1].depth > nodes[n].depth
    /\ nodes # <<>> /\ Last(nodes).token = <<"(">> => \E x \in 1 .. buffer.len : LastOpen(x)

\* While a text is read its nodes have the index of its source.
SourceOK ==
    /\ fate = "reading" =>
          /\ call.op \in {"eng_read_string", "eng_read_file", "import"}
          /\ cur_filename_index \in DOMAIN cur_filename /\ cur_filename[cur_filename_index] = Source
          /\ \A n \in DOMAIN nodes : nodes[n].filename_index = cur_filename_index
    /\ fate = "found" => call.op = "import"
    /\ fate \in {"booting", "in call"} =>
          call.op \in {"semblis_init", "eng_read_default_config", "eng_read_config_file"}
    /\ SourcesNamed

\* The configurations being read include one another: each is younger than the
\* one it is included by, so that none of them is destroyed before it is done.
JobFields == {"conf", "name", "fin", "sec", "prop"}
JobsOK(js, cs) ==
    /\ js \in Seq(Range(js))
    /\ \A n \in 1 .. Len(js) : DOMAIN js[n] = JobFields /\ js[n].conf \in DOMAIN cs /\ cs[js[n].conf]
    /\ \A n \in 1 .. Len(js) : \A m \in 1 .. n - 1 : js[m].conf < js[n].conf
ConfigsOK ==
    /\ configs \in Seq(BOOLEAN) /\ JobsOK(jobs, configs)
    /\ fate = "off" => configs = <<>>
    /\ fate \notin {"off", "shut down"} => 1 \in DOMAIN configs /\ configs[1]
    /\ sections \in Seq(Range(sections)) /\ prev_section \in 0 .. Len(sections)

SettingsOK(st) ==
    /\ DOMAIN st = DOMAIN Defaults
    /\ st.max_num_blocks \in Int /\ st.max_num_blocks >= MinBlocks
    /\ st.max_num_environments \in Int /\ st.max_num_environments >= MinEnvs

Fates == {"off", "booting", "idle", "in call", "reading", "found", "aborted", "undefined", "shut down"}
FatesOK ==
    /\ fate \in Fates /\ calls \in Seq(Range(calls))
    /\ fate \in {"booting", "in call", "aborted", "undefined"} \/ jobs = <<>>
    /\ depth > 0 => fate = "reading"

FoundOK == found = NotFound \/ \E dir \in Dirs : \E file \in Files \cap Has[dir] : found = <<dir, file>>

IInv == /\ ReaderOK /\ TreeOK /\ SourceOK /\ ConfigsOK /\ SettingsOK(settings) /\ FatesOK /\ FoundOK
        /\ Inv

-----------------------------------------------------------------------------
(* Sequences of jobs.                                                      *)

LEMMA FrontSeq ==
    ASSUME NEW q, q \in Seq(Range(q)), q # <<>>
    PROVE  /\ Len(q) \in Nat \ {0} /\ Last(q) = q[Len(q)]
           /\ Front(q) \in Seq(Range(Front(q))) /\ Len(Front(q)) = Len(q) - 1
           /\ \A n \in 1 .. Len(q) - 1 : Front(q)[n] = q[n]
<1> DEFINE S == Range(q)
<1>1. q \in Seq(S) /\ Len(q) \in Nat \ {0}
  OBVIOUS
<1> HIDE DEF S
<1>2. Front(q) = SubSeq(q, 1, Len(q) - 1)
  BY DEF Front
<1>3. Front(q) \in Seq(S) /\ Len(Front(q)) = Len(q) - 1
  <2> DEFINE m == Len(q) - 1
  <2>1. m \in Nat /\ m <= Len(q)
    BY <1>1
  <2> HIDE DEF m
  <2>2. SubSeq(q, 1, m) \in Seq(S)
    BY <1>1, <2>1, SubText
  <2>3. Len(SubSeq(q, 1, m)) = m
    BY <1>1, <2>1, SubText
  <2>4. QED BY <1>2, <2>2, <2>3 DEF m
<1>4. \A n \in 1 .. Len(q) - 1 : Front(q)[n] = q[n]
  BY <1>1, <1>2
<1> DEFINE f == Front(q)
<1> HIDE DEF f
<1>5. f \in Seq(S) => f \in Seq(Range(f))
  BY DEF Range
<1>6. QED BY <1>1, <1>3, <1>4, <1>5 DEF f, Last

LEMMA JobsTop ==
    ASSUME NEW js, NEW cs, JobsOK(js, cs), js # <<>>
    PROVE  /\ DOMAIN Last(js) = JobFields /\ Last(js).conf \in DOMAIN cs /\ cs[Last(js).conf]
           /\ JobsOK(Front(js), cs)
           /\ \A n \in 1 .. Len(Front(js)) : Front(js)[n].conf < Last(js).conf
<1>1. /\ Len(js) \in Nat \ {0} /\ Last(js) = js[Len(js)]
      /\ Front(js) \in Seq(Range(Front(js))) /\ Len(Front(js)) = Len(js) - 1
      /\ \A n \in 1 .. Len(js) - 1 : Front(js)[n] = js[n]
  BY FrontSeq DEF JobsOK
<1> DEFINE f == Front(js)
<1> HIDE DEF f
<1>2. JobsOK(f, cs)
  BY <1>1 DEF JobsOK, f
<1>3. \A n \in 1 .. Len(f) : f[n].conf < Last(js).conf
  BY <1>1 DEF JobsOK, f
<1>4. QED BY <1>1, <1>2, <1>3 DEF JobsOK, f

LEMMA JobsAppend ==
    ASSUME NEW js, NEW cs, JobsOK(js, cs), NEW j, DOMAIN j = JobFields, j.conf \in DOMAIN cs, cs[j.conf],
           \A n \in 1 .. Len(js) : js[n].conf < j.conf
    PROVE  JobsOK(Append(js, j), cs) /\ Append(js, j) # <<>>
<1>1. js \in Seq(Range(js)) /\ Len(js) \in Nat
  BY DEF JobsOK
<1> DEFINE q == Append(js, j)
<1>2. /\ q \in Seq(Range(q)) /\ Len(q) = Len(js) + 1 /\ q[Len(js) + 1] = j
      /\ \A n \in 1 .. Len(js) : q[n] = js[n]
  BY <1>1, AppendSeq
<1> HIDE DEF q
<1>3. \A n \in 1 .. Len(q) : DOMAIN q[n] = JobFields /\ q[n].conf \in DOMAIN cs /\ cs[q[n].conf]
  BY <1>1, <1>2 DEF JobsOK
<1>4. ASSUME NEW n \in 1 .. Len(q), NEW m \in 1 .. n - 1 PROVE q[m].conf < q[n].conf
  <2>1. m \in 1 .. Len(js) /\ q[m] = js[m]
    BY <1>1, <1>2
  <2>2. CASE n = Len(js) + 1
    BY <1>2, <2>1, <2>2
  <2>3. CASE n \in 1 .. Len(js)
    BY <1>2, <2>1, <2>3 DEF JobsOK
  <2>4. QED BY <1>1, <1>2, <2>2, <2>3
<1>5. QED BY <1>1, <1>2, <1>3, <1>4 DEF JobsOK, q

\* The innermost job goes on.
LEMMA JobsGoOn ==
    ASSUME NEW js, NEW cs, JobsOK(js, cs), js # <<>>, NEW j, DOMAIN j = JobFields, j.conf = Last(js).conf
    PROVE  JobsOK(Append(Front(js), j), cs) /\ Append(Front(js), j) # <<>>
BY JobsTop, JobsAppend

\* A configuration is made and read next.
LEMMA JobsPush ==
    ASSUME NEW js, NEW cs \in Seq(BOOLEAN), JobsOK(js, cs), NEW j, DOMAIN j = JobFields, j.conf = Len(cs) + 1
    PROVE  JobsOK(Append(js, j), Append(cs, TRUE))
<1> DEFINE c == Append(cs, TRUE)
<1>1. DOMAIN cs = 1 .. Len(cs) /\ Len(cs) \in Nat
  OBVIOUS
<1>2. DOMAIN c = 1 .. Len(cs) + 1 /\ c[Len(cs) + 1] = TRUE /\ \A k \in 1 .. Len(cs) : c[k] = cs[k]
  OBVIOUS
<1> HIDE DEF c
<1>3. JobsOK(js, c)
  BY <1>1, <1>2 DEF JobsOK
<1>4. \A n \in 1 .. Len(js) : js[n].conf < j.conf
  BY <1>1 DEF JobsOK
<1>5. j.conf \in DOMAIN c /\ c[j.conf]
  BY <1>1, <1>2
<1>6. QED BY <1>3, <1>4, <1>5, JobsAppend DEF c

\* The innermost configuration is destroyed: it is none of those around it.
LEMMA JobsPop ==
    ASSUME NEW js, NEW cs \in Seq(BOOLEAN), JobsOK(js, cs), js # <<>>
    PROVE  JobsOK(Front(js), [cs EXCEPT ![Last(js).conf] = FALSE])
<1> DEFINE c == [cs EXCEPT ![Last(js).conf] = FALSE]
           f == Front(js)
<1>1. JobsOK(f, cs) /\ \A n \in 1 .. Len(f) : f[n].conf < Last(js).conf
  BY JobsTop
<1>2. Last(js).conf \in DOMAIN cs /\ DOMAIN cs \subseteq Nat
  <2>1. Last(js).conf \in DOMAIN cs
    BY JobsTop
  <2>2. QED BY <2>1
<1>3. DOMAIN c = DOMAIN cs /\ \A k \in DOMAIN cs : k # Last(js).conf => c[k] = cs[k]
  OBVIOUS
<1> HIDE DEF c, f
<1>4. ASSUME NEW n \in 1 .. Len(f) PROVE f[n].conf \in DOMAIN c /\ c[f[n].conf]
  <2>1. f[n].conf \in DOMAIN cs /\ cs[f[n].conf] /\ f[n].conf # Last(js).conf
    BY <1>1, <1>2 DEF JobsOK
  <2>2. QED BY <1>3, <2>1
<1>5. QED BY <1>1, <1>4 DEF JobsOK, f, c

-----------------------------------------------------------------------------
(* The steps of a reading.                                                 *)

LEMMA SourceIndex ==
    ASSUME ReaderOK, NEW filename, NEW text \in Texts, NEW beyond \in Texts, StartReading(filename, text, beyond)
    PROVE  /\ cur_filename' \in Seq(Range(cur_filename'))
           /\ cur_filename_index' \in DOMAIN cur_filename' /\ cur_filename'[cur_filename_index'] = filename
<1>1. cur_filename \in Seq(Range(cur_filename)) /\ Len(cur_filename) \in Nat
  BY DEF ReaderOK
<1>2. /\ cur_filename' \in Seq(Range(cur_filename'))
      /\ \E i \in DOMAIN cur_filename' : cur_filename'[i] = filename
  <2>1. CASE Contains(cur_filename, filename)
    <3>1. cur_filename' = cur_filename
      BY <2>1 DEF StartReading
    <3>2. QED BY <1>1, <2>1, <3>1 DEF Contains
  <2>2. CASE ~ Contains(cur_filename, filename)
    <3> DEFINE n == Len(cur_filename) + 1
    <3>1. cur_filename' = Append(cur_filename, filename)
      BY <2>2 DEF StartReading
    <3>2. /\ cur_filename' \in Seq(Range(cur_filename')) /\ Len(cur_filename') = n
          /\ cur_filename'[n] = filename
      BY <1>1, <3>1, AppendSeq
    <3>3. n \in 1 .. n
      BY <1>1
    <3> HIDE DEF n
    <3>4. DOMAIN cur_filename' = 1 .. n
      BY <3>2
    <3>5. QED BY <3>2, <3>3, <3>4
  <2>3. QED BY <2>1, <2>2
<1>3. cur_filename_index' = CHOOSE i \in DOMAIN cur_filename' : cur_filename'[i] = filename
  BY DEF StartReading
<1>4. QED BY <1>2, <1>3

LEMMA ReadingStarts ==
    ASSUME ReaderOK, NEW filename, NEW text \in Texts, NEW beyond \in Texts, StartReading(filename, text, beyond)
    PROVE  ReaderOK' /\ TreeOK' /\ depth' = 1 /\ nodes' = <<>>
<1>1. /\ cur_filename' \in Seq(Range(cur_filename')) /\ cur_filename_index' \in DOMAIN cur_filename'
      /\ DOMAIN cur_filename' = 1 .. Len(cur_filename') /\ Len(cur_filename') \in Nat
  <2>1. cur_filename' \in Seq(Range(cur_filename')) /\ cur_filename_index' \in DOMAIN cur_filename'
    BY SourceIndex
  <2>2. QED BY <2>1
<1>2. /\ buffer' = [chars |-> text \o beyond, len |-> Len(text)]
      /\ stream' = 1 /\ line_num' = 1 /\ nodes' = <<>> /\ depth' = 1
  BY DEF StartReading
<1>3. text \o beyond \in Texts /\ Len(text) \in 0 .. Len(text \o beyond)
  BY DEF Texts
<1>4. BufferOK'
  BY <1>2, <1>3 DEF BufferOK
<1>5. ReaderOK'
  <2>1. nodes' \in Seq(ReaderNodes)
    BY <1>2
  <2>2. stream' \in 1 .. buffer'.len + 1
    BY <1>2
  <2>3. cur_filename_index' \in 0 .. Len(cur_filename')
    BY <1>1
  <2>4. QED BY <1>1, <1>2, <1>4, <2>1, <2>2, <2>3 DEF ReaderOK
<1>6. TreeOK'
  BY <1>2 DEF TreeOK
<1>7. QED BY <1>2, <1>5, <1>6

\* The characters do not change while a text is read.
LEMMA SameText ==
    ASSUME UNCHANGED buffer
    PROVE  /\ \A p : CharAt(p)' = CharAt(p) /\ AtEnd(p)' = AtEnd(p)
           /\ \A p : Skip(p)' = Skip(p)
BY DEF CharAt, AtEnd, Skip, Passed, InComment

LEMMA TokenRead ==
    ASSUME ReaderOK, TreeOK, ReadToken
    PROVE  /\ ReaderOK' /\ TreeOK'
           /\ \A n \in DOMAIN nodes' :
                  (n \in DOMAIN nodes /\ nodes'[n] = nodes[n]) \/ nodes'[n].filename_index = cur_filename_index
<1> DEFINE p == Skip(stream)
           node == create_node(TokenText(p), line_num + Newlines(stream, p))
<1>1. /\ BufferOK /\ line_num \in Int /\ depth \in Nat \ {0} /\ stream \in 1 .. buffer.len + 1
      /\ buffer.len \in Nat /\ nodes \in Seq(ReaderNodes) /\ Len(nodes) \in Nat
  BY DEF ReaderOK, ReadToken, BufferOK
<1>2. p \in stream .. buffer.len /\ p \in 1 .. buffer.len
  <2>1. p \in stream .. buffer.len + 1 /\ ~ AtEnd(p)
    BY <1>1, SkipType DEF ReadToken
  <2>2. QED BY <1>1, <2>1 DEF AtEnd
<1>3. /\ stream' = TokenEnd(p).next /\ line_num' = line_num + Newlines(stream, p)
      /\ nodes' = (IF Kept(node) THEN Append(nodes, node) ELSE nodes)
      /\ depth' = IF node.token = <<"(">> THEN depth + 1 ELSE IF node.token = <<")">> THEN depth - 1 ELSE depth
      /\ UNCHANGED <<buffer, cur_filename, cur_filename_index>>
  BY DEF ReadToken
<1>4. /\ node.token = TokenText(p) /\ node.depth = depth /\ node.filename_index = cur_filename_index
      /\ node \in ReaderNodes /\ line_num' \in Int
  <2>1. TokenText(p) \in Texts
    BY <1>1, <1>2, TokenTextType
  <2>2. Newlines(stream, p) \in Nat
    BY <1>1, <1>2, NewlinesType
  <2>3. line_num + Newlines(stream, p) \in Int /\ cur_filename_index \in Int
    BY <1>1, <2>2 DEF ReaderOK
  <2>4. QED BY <1>1, <1>3, <2>1, <2>3 DEF create_node, ReaderNodes
<1>5. stream' \in p .. buffer.len + 1
  BY <1>1, <1>2, <1>3, TokenEndType
<1>6. node.token = <<"(">> => CharAt(p) = "(" /\ stream' = p + 1 /\ depth' = node.depth + 1
  BY <1>1, <1>2, <1>3, <1>4, OpenToken
\* A parenthesis opened last has been read right before: the level is empty.
<1>7. nodes # <<>> /\ Last(nodes).token = <<"(">> => depth = Last(nodes).depth + 1 /\ ~ HasNode
  <2>1. SUFFICES ASSUME nodes # <<>>, Last(nodes).token = <<"(">>
                 PROVE  depth = Last(nodes).depth + 1 /\ ~ HasNode
    OBVIOUS
  <2>2. ~ AtEnd(stream)
    BY <1>1, <1>2 DEF AtEnd
  <2>3. depth = Last(nodes).depth + 1
    BY <2>1, <2>2 DEF TreeOK, LastOpen
  <2>4. Last(nodes).depth \in Int
    <3>1. Len(nodes) \in 1 .. Len(nodes)
      BY <1>1, <2>1
    <3>2. nodes[Len(nodes)] \in ReaderNodes
      BY <1>1, <3>1
    <3>3. QED BY <3>2 DEF Last, ReaderNodes
  <2>5. QED BY <2>3, <2>4 DEF HasNode
<1> HIDE DEF node, p
<1>8. CASE Kept(node)
  <2>1. /\ nodes' \in Seq(ReaderNodes) /\ Len(nodes') = Len(nodes) + 1
        /\ nodes'[Len(nodes) + 1] = node /\ \A n \in 1 .. Len(nodes) : nodes'[n] = nodes[n]
    BY <1>1, <1>3, <1>4, <1>8
  <2>2. nodes' # <<>> /\ Last(nodes') = node
    BY <1>1, <2>1 DEF Last
  <2>3. \A n \in 1 .. Len(nodes') : nodes'[n].depth >= 1
    <3>1. node.depth >= 1
      BY <1>1, <1>4
    <3>2. QED BY <1>1, <2>1, <3>1 DEF TreeOK
  <2>4. ASSUME NEW n \in 1 .. Len(nodes') - 1, nodes'[n].token = <<"(">>
        PROVE  nodes'[n + 1].depth > nodes'[n].depth
    <3>1. CASE n = Len(nodes)
      <4>1. nodes # <<>> /\ Last(nodes) = nodes[n] /\ nodes'[n] = nodes[n] /\ nodes'[n + 1] = node
        BY <1>1, <2>1, <3>1 DEF Last
      <4>2. nodes[n].depth \in Int
        <5>1. n \in 1 .. Len(nodes)
          BY <1>1, <2>1, <3>1
        <5>2. nodes[n] \in ReaderNodes
          BY <1>1, <5>1
        <5>3. QED BY <5>2 DEF ReaderNodes
      <4>3. QED BY <1>4, <1>7, <2>4, <4>1, <4>2
    <3>2. CASE n # Len(nodes)
      <4>1. n \in 1 .. Len(nodes) - 1 /\ nodes'[n] = nodes[n] /\ nodes'[n + 1] = nodes[n + 1]
        BY <1>1, <2>1, <3>2
      <4>2. QED BY <2>4, <4>1 DEF TreeOK
    <3>3. QED BY <3>1, <3>2
  <2>5. node.token = <<"(">> => \E x \in 1 .. buffer.len : LastOpen(x)'
    <3>1. SUFFICES ASSUME node.token = <<"(">> PROVE \E x \in 1 .. buffer.len : LastOpen(x)'
      OBVIOUS
    <3>2. PICK x \in 1 .. buffer.len : x = p
      BY <1>2
    <3>3. CharAt(x) = "(" /\ CharAt(x)' = CharAt(x)
      BY <1>3, <1>6, <3>1, <3>2, SameText
    <3>4. QED BY <1>6, <2>2, <3>1, <3>2, <3>3 DEF LastOpen
  <2>6. TreeOK'
    BY <1>3, <2>2, <2>3, <2>4, <2>5 DEF TreeOK
  <2>7. \A n \in DOMAIN nodes' : (n \in DOMAIN nodes /\ nodes'[n] = nodes[n]) \/ nodes'[n].filename_index = cur_filename_index
    <3>1. DOMAIN nodes' = 1 .. Len(nodes) + 1 /\ DOMAIN nodes = 1 .. Len(nodes)
      BY <1>1, <2>1
    <3>2. QED BY <1>1, <1>4, <2>1, <3>1
  <2>8. depth' \in Nat /\ stream' \in 1 .. buffer.len + 1
    BY <1>1, <1>2, <1>3, <1>5
  <2>9. ReaderOK'
    BY <1>1, <1>3, <1>4, <2>1, <2>8 DEF ReaderOK, BufferOK
  <2>10. QED BY <2>6, <2>7, <2>9
<1>9. CASE ~ Kept(node)
  <2>1. nodes' = nodes /\ HasNode /\ node.token = <<")">>
    BY <1>3, <1>9 DEF Kept
  <2>2. ~ (nodes # <<>> /\ Last(nodes).token = <<"(">>)
    BY <1>7, <2>1
  <2>3. TreeOK'
    BY <1>3, <2>1, <2>2 DEF TreeOK
  <2>4. depth' \in Nat
    BY <1>1, <1>3
  <2>5. QED BY <1>1, <1>2, <1>3, <1>4, <1>5, <2>1, <2>3, <2>4 DEF ReaderOK, BufferOK
<1>10. QED BY <1>8, <1>9

LEMMA Returned ==
    ASSUME ReaderOK, TreeOK, Return
    PROVE  ReaderOK' /\ TreeOK' /\ nodes' = nodes
<1> DEFINE p == Skip(stream)
<1>1. /\ BufferOK /\ line_num \in Int /\ depth \in Nat \ {0} /\ stream \in 1 .. buffer.len + 1 /\ buffer.len \in Nat
  BY DEF ReaderOK, Return, BufferOK
<1>2. p \in stream .. buffer.len + 1 /\ AtEnd(p)
  BY <1>1, SkipType DEF Return
<1>3. /\ stream' = p /\ line_num' = line_num + Newlines(stream, stream') /\ depth' = depth - 1
      /\ UNCHANGED <<buffer, nodes, cur_filename, cur_filename_index>>
  BY DEF Return
<1>4. line_num' \in Int
  <2>1. Newlines(stream, p) \in Nat
    BY <1>1, <1>2, NewlinesType
  <2>2. QED BY <1>1, <1>3, <2>1
<1>5. ASSUME NEW x \in 1 .. buffer.len, LastOpen(x)
      PROVE  LastOpen(x)'
  <2>1. AtEnd(Skip(x + 1))
    BY <1>2, <1>5 DEF LastOpen
  <2>2. CharAt(x)' = "(" /\ AtEnd(Skip(x + 1))' /\ AtEnd(stream)'
    <3>1. CharAt(x)' = CharAt(x) /\ Skip(x + 1)' = Skip(x + 1)
      BY <1>3, SameText
    <3>2. buffer' = buffer /\ stream' = p
      BY <1>3
    <3> HIDE DEF p
    <3>3. QED BY <1>2, <1>5, <2>1, <3>1, <3>2 DEF AtEnd, LastOpen
  <2>3. QED BY <2>2 DEF LastOpen
<1> HIDE DEF p
<1>6. TreeOK'
  BY <1>3, <1>5 DEF TreeOK
<1>7. ReaderOK'
  BY <1>1, <1>2, <1>3, <1>4 DEF ReaderOK, BufferOK
<1>8. QED BY <1>3, <1>6, <1>7

-----------------------------------------------------------------------------
(* What a step leaves alone.                                               *)

LEMMA Unread ==
    ASSUME ReaderOK, TreeOK, UNCHANGED readerVars
    PROVE  ReaderOK' /\ TreeOK' /\ depth' = depth
<1>1. /\ UNCHANGED buffer /\ stream' = stream /\ line_num' = line_num /\ nodes' = nodes /\ depth' = depth
      /\ cur_filename' = cur_filename /\ cur_filename_index' = cur_filename_index
  BY DEF readerVars, streamVars
<1>2. ReaderOK'
  BY <1>1 DEF ReaderOK, BufferOK
<1>3. ASSUME NEW x \in 1 .. buffer.len, LastOpen(x)
      PROVE  LastOpen(x)'
  <2>1. CharAt(x)' = CharAt(x) /\ Skip(x + 1)' = Skip(x + 1)
    BY <1>1, SameText
  <2>2. QED BY <1>1, <1>3, <2>1 DEF LastOpen, AtEnd
<1>4. TreeOK'
  BY <1>1, <1>3 DEF TreeOK
<1>5. QED BY <1>1, <1>2, <1>4

LEMMA DirsLeft ==
    ASSUME FoundOK, Inv, UNCHANGED dirVars
    PROVE  FoundOK' /\ Inv'
<1>1. found' = found
  BY DEF dirVars
<1>2. FoundOK'
  BY <1>1 DEF FoundOK
<1>3. QED BY <1>2, Stuttering

LEMMA ConfigsLeft ==
    ASSUME ConfigsOK, UNCHANGED <<jobs, configVars>>,
           fate' = fate \/ (fate \notin {"off", "shut down"} /\ fate' # "off")
    PROVE  ConfigsOK'
<1>1. jobs' = jobs /\ configs' = configs /\ sections' = sections /\ prev_section' = prev_section
  BY DEF configVars
<1>2. QED BY <1>1 DEF ConfigsOK

LEMMA SettingsLeft ==
    ASSUME SettingsOK(settings), settings' = settings
    PROVE  SettingsOK(settings)'
BY DEF SettingsOK

\* The source of the last reading matters while it lasts, and until the next call.
LEMMA NothingRead ==
    ASSUME ~ (fate' \in {"reading", "found"}),
           fate' \in {"booting", "in call"} =>
              call'.op \in {"semblis_init", "eng_read_default_config", "eng_read_config_file"},
           \/ fate' # "idle" \/ program' = <<>>
           \/ call'.op \notin {"eng_read_string", "eng_read_file", "import"}
    PROVE  SourceOK'
BY DEF SourceOK, SourcesNamed, HasRead

LEMMA Called ==
    ASSUME FatesOK, NEW op, Calls(op)
    PROVE  /\ calls' \in Seq(Range(calls')) /\ calls' # <<>> /\ call'.op = op
           /\ Argument = call'.name /\ Argument \in Texts
           /\ fate \in {"off", "idle"} /\ jobs = <<>>
           /\ depth \in Nat => depth = 0
<1>1. PICK c : c.op = op /\ c.name \in Texts /\ calls' = Append(calls, c)
  BY DEF Calls
<1>2. calls \in Seq(Range(calls))
  BY DEF FatesOK
<1>3. calls' \in Seq(Range(calls')) /\ Len(calls') = Len(calls) + 1 /\ Last(calls') = c
  BY <1>1, <1>2, AppendSeq
<1>4. calls' # <<>>
  BY <1>2, <1>3
<1>5. call' = c /\ Argument = c.name
  BY <1>3 DEF call, Argument
<1>6. fate \in {"off", "idle"} /\ jobs = <<>> /\ ~ (depth > 0)
  BY DEF Calls, FatesOK
<1>7. QED BY <1>1, <1>3, <1>4, <1>5, <1>6

-----------------------------------------------------------------------------
(* Configurations.                                                         *)

LEMMA JobEdited ==
    ASSUME NEW j, DOMAIN j = JobFields, NEW v, NEW w
    PROVE  /\ DOMAIN [j EXCEPT !.fin = v] = JobFields /\ [j EXCEPT !.fin = v].conf = j.conf
           /\ DOMAIN [j EXCEPT !.prop = v] = JobFields /\ [j EXCEPT !.prop = v].conf = j.conf
           /\ DOMAIN [j EXCEPT !.sec = w, !.prop = v] = JobFields /\ [j EXCEPT !.sec = w, !.prop = v].conf = j.conf
BY DEF JobFields

LEMMA JobMade ==
    ASSUME NEW conf, NEW name
    PROVE  DOMAIN Job(conf, name) = JobFields /\ Job(conf, name).conf = conf
BY DEF Job, JobFields

LEMMA SectionEdited ==
    ASSUME NEW q, q \in Seq(Range(q)), NEW k, NEW e
    PROVE  [q EXCEPT ![k] = e] \in Seq(Range([q EXCEPT ![k] = e])) /\ Len([q EXCEPT ![k] = e]) = Len(q)
<1> DEFINE r == [q EXCEPT ![k] = e]
<1>1. Len(q) \in Nat /\ DOMAIN q = 1 .. Len(q)
  OBVIOUS
<1>2. r = [i \in 1 .. Len(q) |-> r[i]]
  BY <1>1
<1> HIDE DEF r
<1>3. \A i \in 1 .. Len(q) : r[i] \in Range(r)
  BY <1>2 DEF Range
<1>4. r \in Seq(Range(r)) /\ Len(r) = Len(q)
  BY <1>1, <1>2, <1>3
<1>5. QED BY <1>4 DEF r

LEMMA Stored ==
    ASSUME ConfigsOK, NEW line, NEW conf, Store(line, conf)
    PROVE  configs' = configs /\ sections' \in Seq(Range(sections')) /\ prev_section' \in 0 .. Len(sections')
<1>1. sections \in Seq(Range(sections)) /\ Len(sections) \in Nat /\ prev_section \in 0 .. Len(sections)
  <2>1. sections \in Seq(Range(sections)) /\ prev_section \in 0 .. Len(sections)
    BY DEF ConfigsOK
  <2>2. QED BY <2>1
<1>2. CASE line.kind = "section"
  <2>1. PICK e : sections' = Append(sections, e) /\ prev_section' = Len(sections')
    BY <1>2 DEF Store
  <2>2. sections' \in Seq(Range(sections')) /\ Len(sections') = Len(sections) + 1
    <3> DEFINE q == Append(sections, e)
    <3>1. q \in Seq(Range(q)) /\ Len(q) = Len(sections) + 1
      BY <1>1, AppendSeq
    <3>2. sections' = q
      BY <2>1
    <3> HIDE DEF q
    <3>3. QED BY <3>1, <3>2
  <2>3. QED BY <1>1, <2>1, <2>2 DEF Store
<1>3. CASE line.kind = "property"
  <2>1. PICK e : sections' = [sections EXCEPT ![prev_section] = e] /\ prev_section' = prev_section
    BY <1>3 DEF Store
  <2>2. sections' \in Seq(Range(sections')) /\ Len(sections') = Len(sections)
    BY <1>1, <2>1, SectionEdited
  <2>3. QED BY <1>1, <2>1, <2>2 DEF Store
<1>4. CASE line.kind \notin {"section", "property"}
  <2>1. sections' = sections /\ prev_section' = prev_section
    BY <1>4 DEF Store
  <2>2. QED BY <1>1, <2>1 DEF Store
<1>5. QED BY <1>2, <1>3, <1>4

LEMMA AtLeastIs ==
    ASSUME NEW least \in Int, NEW value
    PROVE  AtLeast(least, value) \in Int /\ AtLeast(least, value) >= least
BY EngineAssumption DEF AtLeast

LEMMA Set ==
    ASSUME SettingsOK(settings), NEW key, NEW value
    PROVE  SettingsOK(Setting(key, value))
<1> DEFINE blocks == AtLeast(MinBlocks, value)
           envs == AtLeast(MinEnvs, value)
<1>1. /\ blocks \in Int /\ blocks >= MinBlocks /\ envs \in Int /\ envs >= MinEnvs
  BY AtLeastIs DEF MinBlocks, MinEnvs
<1> HIDE DEF blocks, envs
<1>2. \/ Setting(key, value) = [settings EXCEPT !.max_num_blocks = blocks]
      \/ Setting(key, value) = [settings EXCEPT !.max_num_environments = envs]
      \/ \E v : \/ Setting(key, value) = [settings EXCEPT !.show_engine_stats = v]
               \/ Setting(key, value) = [settings EXCEPT !.show_garbage_collection_stats = v]
               \/ Setting(key, value) = [settings EXCEPT !.output_std_func = v]
               \/ Setting(key, value) = [settings EXCEPT !.output_err_func = v]
               \/ Setting(key, value) = [settings EXCEPT !.kill_if_error = v]
      \/ Setting(key, value) = settings
  <2>1. CASE key \in {<<"BlocksUntilGarbageCollection">>, <<"EnvironmentsUntilGarbageCollection">>}
    BY <2>1 DEF Setting, blocks, envs
  <2>2. CASE key \in {<<"ShowEngineStats">>, <<"ShowGarbageCollectionStats">>, <<"StandardOutputFunction">>,
                      <<"ErrorOutputFunction">>, <<"KillWhenErrorHit">>}
    <3>1. CASE key = <<"ShowEngineStats">>
      BY <3>1 DEF Setting
    <3>2. CASE key = <<"ShowGarbageCollectionStats">>
      BY <3>2 DEF Setting
    <3>3. CASE key = <<"StandardOutputFunction">>
      BY <3>3 DEF Setting
    <3>4. CASE key = <<"ErrorOutputFunction">>
      BY <3>4 DEF Setting
    <3>5. CASE key = <<"KillWhenErrorHit">>
      BY <3>5 DEF Setting
    <3>6. QED BY <2>2, <3>1, <3>2, <3>3, <3>4, <3>5
  <2>3. CASE key \notin {<<"BlocksUntilGarbageCollection">>, <<"EnvironmentsUntilGarbageCollection">>,
                         <<"ShowEngineStats">>, <<"ShowGarbageCollectionStats">>, <<"StandardOutputFunction">>,
                         <<"ErrorOutputFunction">>, <<"KillWhenErrorHit">>}
    BY <2>3 DEF Setting
  <2>4. QED BY <2>1, <2>2, <2>3
<1>3. QED BY <1>1, <1>2 DEF SettingsOK, Defaults

\* What the steps of a call that reads a configuration have in common.
LEMMA ConfigStep ==
    ASSUME IInv, Working, calls' = calls, UNCHANGED <<readerVars, dirVars>>,
           fate' = fate \/ fate' \in {"aborted", "undefined"} \/ (fate' = "idle" /\ jobs' = <<>>),
           JobsOK(jobs', configs'), configs' \in Seq(BOOLEAN), 1 \in DOMAIN configs', configs'[1],
           sections' \in Seq(Range(sections')), prev_section' \in 0 .. Len(sections'), SettingsOK(settings')
    PROVE  IInv'
<1>1. fate \in {"booting", "in call"} /\ fate' \in {"booting", "in call", "aborted", "undefined", "idle"}
  BY DEF Working
<1>2. ReaderOK' /\ TreeOK' /\ depth' = depth
  BY Unread DEF IInv
<1>3. FoundOK' /\ Inv'
  BY DirsLeft DEF IInv
<1>4. ConfigsOK'
  BY <1>1 DEF ConfigsOK
<1>5. SettingsOK(settings)'
  BY DEF SettingsOK
<1>6. FatesOK'
  BY <1>1, <1>2 DEF IInv, FatesOK, Fates
<1>7. SourceOK'
  <2>1. call' = call
    BY DEF call
  <2>2. call.op \in {"semblis_init", "eng_read_default_config", "eng_read_config_file"}
    BY <1>1 DEF IInv, SourceOK
  <2>3. QED BY <1>1, <2>1, <2>2, NothingRead
<1>8. QED BY <1>2, <1>3, <1>4, <1>5, <1>6, <1>7 DEF IInv

\* What a configuration that is being read rests on.
LEMMA ConfigBefore ==
    ASSUME IInv, Working
    PROVE  /\ JobsOK(jobs, configs) /\ jobs # <<>> /\ configs \in Seq(BOOLEAN) /\ 1 \in DOMAIN configs /\ configs[1]
           /\ sections \in Seq(Range(sections)) /\ prev_section \in 0 .. Len(sections)
           /\ SettingsOK(settings) /\ ConfigsOK /\ DOMAIN job = JobFields
<1>1. fate \notin {"off", "shut down"} /\ jobs # <<>>
  BY DEF Working
<1>2. ConfigsOK /\ SettingsOK(settings)
  BY DEF IInv
<1>3. JobsOK(jobs, configs) /\ configs \in Seq(BOOLEAN) /\ 1 \in DOMAIN configs /\ configs[1]
  BY <1>1, <1>2 DEF ConfigsOK
<1>4. sections \in Seq(Range(sections)) /\ prev_section \in 0 .. Len(sections)
  BY <1>2 DEF ConfigsOK
<1>5. DOMAIN job = JobFields
  BY <1>1, <1>3, JobsTop DEF job
<1>6. QED BY <1>1, <1>2, <1>3, <1>4, <1>5

LEMMA JobContinues ==
    ASSUME IInv, Working, NEW j, DOMAIN j = JobFields, j.conf = job.conf
    PROVE  JobsOK(WithJob(j), configs) /\ WithJob(j) # <<>>
BY ConfigBefore, JobsGoOn DEF WithJob, job

LEMMA LineRead ==
    ASSUME IInv, ReadLine
    PROVE  IInv'
<1> DEFINE line == LineAt(Text, job.fin)
<1>1. Working /\ UNCHANGED <<readerVars, dirVars>> /\ settings' = settings
  BY DEF ReadLine, HasText
<1>2. /\ JobsOK(jobs, configs) /\ configs \in Seq(BOOLEAN) /\ 1 \in DOMAIN configs /\ configs[1]
      /\ sections \in Seq(Range(sections)) /\ prev_section \in 0 .. Len(sections)
      /\ SettingsOK(settings) /\ ConfigsOK /\ DOMAIN job = JobFields
  BY <1>1, ConfigBefore
<1>3. CASE LineAborts(line) \/ LineUndefined(line)
  <2>1. /\ fate' \in {"aborted", "undefined"} /\ calls' = calls
        /\ jobs' = jobs /\ configs' = configs /\ sections' = sections /\ prev_section' = prev_section
    BY <1>3 DEF ReadLine, Fate, configVars
  <2>2. QED BY <1>1, <1>2, <2>1, ConfigStep
<1>4. CASE ~ (LineAborts(line) \/ LineUndefined(line))
  <2>1. /\ Store(line, job.conf) /\ calls' = calls /\ fate' = fate
        /\ jobs' = WithJob([job EXCEPT !.fin = White(Text, line.end)])
    BY <1>4 DEF ReadLine
  <2> HIDE DEF line
  <2>2. configs' = configs /\ sections' \in Seq(Range(sections')) /\ prev_section' \in 0 .. Len(sections')
    BY <1>2, <2>1, Stored
  <2>3. JobsOK(jobs', configs')
    BY <1>1, <1>2, <2>1, <2>2, JobEdited, JobContinues
  <2>4. QED BY <1>1, <1>2, <2>1, <2>2, <2>3, ConfigStep
<1>5. QED BY <1>3, <1>4

LEMMA SectionLeft ==
    ASSUME IInv, NextSection
    PROVE  IInv'
<1>1. /\ Working /\ UNCHANGED <<readerVars, dirVars>> /\ settings' = settings /\ calls' = calls /\ fate' = fate
      /\ configs' = configs /\ sections' = sections /\ prev_section' = prev_section
      /\ jobs' = WithJob([job EXCEPT !.sec = @ + 1, !.prop = 1])
  BY DEF NextSection, InSection, configVars
<1>2. JobsOK(jobs', configs')
  BY <1>1, ConfigBefore, JobEdited, JobContinues
<1>3. QED BY <1>1, <1>2, ConfigBefore, ConfigStep

LEMMA PropertyDone ==
    ASSUME IInv, Working
    PROVE  JobsOK(NextProperty, configs) /\ NextProperty # <<>>
BY ConfigBefore, JobEdited, JobContinues DEF NextProperty

LEMMA CoreProperty ==
    ASSUME IInv, process_core_property
    PROVE  IInv'
<1>1. /\ Working /\ UNCHANGED <<readerVars, dirVars>> /\ calls' = calls /\ fate' = fate
      /\ configs' = configs /\ sections' = sections /\ prev_section' = prev_section
      /\ jobs' = NextProperty /\ settings' = Setting(Prop.key, Prop.value)
  BY DEF process_core_property, AtProperty, InSection, configVars
<1>2. JobsOK(jobs', configs')
  BY <1>1, PropertyDone
<1>3. SettingsOK(settings')
  BY <1>1, ConfigBefore, Set
<1>4. QED BY <1>1, <1>2, <1>3, ConfigBefore, ConfigStep

LEMMA Included ==
    ASSUME IInv, Include
    PROVE  IInv'
<1> DEFINE new == Job(Len(configs'), Prop.value)
<1>1. /\ Working /\ UNCHANGED <<readerVars, dirVars>> /\ calls' = calls /\ fate' = fate /\ settings' = settings
      /\ configs' = Append(configs, TRUE) /\ sections' = sections /\ prev_section' = prev_section
      /\ jobs' = Append(NextProperty, new)
  BY DEF Include, AtProperty, InSection
<1>2. /\ configs \in Seq(BOOLEAN) /\ 1 \in DOMAIN configs /\ configs[1]
  BY <1>1, ConfigBefore
<1>3. DOMAIN new = JobFields /\ new.conf = Len(configs) + 1
  BY <1>1, <1>2, JobMade
<1> HIDE DEF new
<1>4. JobsOK(jobs', configs')
  BY <1>1, <1>2, <1>3, PropertyDone, JobsPush
<1>5. configs' \in Seq(BOOLEAN) /\ 1 \in DOMAIN configs' /\ configs'[1]
  BY <1>1, <1>2
<1>6. QED BY <1>1, <1>4, <1>5, ConfigBefore, ConfigStep

LEMMA Defined ==
    ASSUME IInv, Definition
    PROVE  IInv'
<1>1. /\ Working /\ UNCHANGED <<readerVars, dirVars>> /\ settings' = settings /\ calls' = calls
      /\ configs' = configs /\ prev_section' = prev_section
      /\ \/ fate' = "undefined" /\ jobs' = jobs /\ sections' = sections
         \/ fate' = fate /\ jobs' = NextProperty /\ CutAtComma
  BY DEF Definition, AtProperty, InSection, Fate
<1>2. CASE fate' = "undefined" /\ jobs' = jobs /\ sections' = sections
  BY <1>1, <1>2, ConfigBefore, ConfigStep
<1>3. CASE fate' = fate /\ jobs' = NextProperty /\ CutAtComma
  <2>1. PICK k, e : sections' = [sections EXCEPT ![k] = e]
    BY <1>3 DEF CutAtComma
  <2>2. sections' \in Seq(Range(sections')) /\ prev_section' \in 0 .. Len(sections')
    BY <1>1, <2>1, ConfigBefore, SectionEdited
  <2>3. JobsOK(jobs', configs')
    BY <1>1, <1>3, PropertyDone
  <2>4. QED BY <1>1, <1>3, <2>2, <2>3, ConfigBefore, ConfigStep
<1>4. QED BY <1>1, <1>2, <1>3

LEMMA OtherProperty ==
    ASSUME IInv, LibraryProperty
    PROVE  IInv'
<1>1. /\ Working /\ UNCHANGED <<readerVars, dirVars>> /\ settings' = settings /\ calls' = calls /\ fate' = fate
      /\ configs' = configs /\ sections' = sections /\ prev_section' = prev_section
      /\ jobs' = NextProperty
  BY DEF LibraryProperty, AtProperty, InSection, configVars
<1>2. JobsOK(jobs', configs')
  BY <1>1, PropertyDone
<1>3. QED BY <1>1, <1>2, ConfigBefore, ConfigStep

LEMMA Destroyed ==
    ASSUME NEW cs \in Seq(BOOLEAN), NEW k
    PROVE  /\ [cs EXCEPT ![k] = FALSE] \in Seq(BOOLEAN)
           /\ \A i \in DOMAIN cs : i # k => i \in DOMAIN [cs EXCEPT ![k] = FALSE] /\ [cs EXCEPT ![k] = FALSE][i] = cs[i]
<1> DEFINE c == [cs EXCEPT ![k] = FALSE]
<1>1. Len(cs) \in Nat /\ DOMAIN cs = 1 .. Len(cs) /\ \A i \in DOMAIN cs : cs[i] \in BOOLEAN
  OBVIOUS
<1>2. DOMAIN c = DOMAIN cs /\ c = [i \in DOMAIN cs |-> IF i = k THEN FALSE ELSE cs[i]]
  OBVIOUS
<1> HIDE DEF c
<1>3. c \in [1 .. Len(cs) -> BOOLEAN]
  BY <1>1, <1>2
<1>4. c \in Seq(BOOLEAN)
  BY <1>1, <1>3
<1>5. QED BY <1>2, <1>4 DEF c

\* The main configuration is never destroyed here, the others only when nothing
\* that is still being read needs them.
LEMMA ConfigEnded ==
    ASSUME IInv, EndConfig
    PROVE  IInv'
<1>1. /\ Working /\ UNCHANGED <<readerVars, dirVars>> /\ settings' = settings /\ calls' = calls
      /\ sections' = sections /\ prev_section' = prev_section
      /\ configs' = (IF job.conf = MainConfig THEN configs ELSE [configs EXCEPT ![job.conf] = FALSE])
      /\ jobs' = Front(jobs) /\ (fate' = fate \/ (fate' = "idle" /\ jobs' = <<>>))
  BY DEF EndConfig, Fate
<1>2. /\ JobsOK(jobs, configs) /\ jobs # <<>> /\ configs \in Seq(BOOLEAN) /\ 1 \in DOMAIN configs /\ configs[1]
  BY <1>1, ConfigBefore
<1>3. /\ JobsOK(jobs', configs') /\ configs' \in Seq(BOOLEAN) /\ 1 \in DOMAIN configs' /\ configs'[1]
  <2>1. CASE job.conf = MainConfig
    BY <1>1, <1>2, <2>1, JobsTop
  <2>2. CASE job.conf # MainConfig
    <3>1. configs' = [configs EXCEPT ![Last(jobs).conf] = FALSE] /\ jobs' = Front(jobs) /\ Last(jobs).conf # 1
      BY <1>1, <2>2 DEF job, MainConfig
    <3>2. JobsOK(Front(jobs), [configs EXCEPT ![Last(jobs).conf] = FALSE])
      BY <1>2, JobsPop
    <3>3. JobsOK(jobs', configs')
      BY <3>1, <3>2
    <3> DEFINE conf == Last(jobs).conf
    <3> HIDE DEF conf
    <3>4. configs' = [configs EXCEPT ![conf] = FALSE] /\ conf # 1
      BY <3>1 DEF conf
    <3>5. configs' \in Seq(BOOLEAN) /\ 1 \in DOMAIN configs' /\ configs'[1]
      BY <1>2, <3>4, Destroyed
    <3>6. QED BY <3>3, <3>5
  <2>3. QED BY <2>1, <2>2
<1>4. QED BY <1>1, <1>3, ConfigBefore, ConfigStep

-----------------------------------------------------------------------------
(* Calls of the host.                                                      *)

\* A call that sets nothing else than the directories, or an output function.
LEMMA CallReturns ==
    ASSUME IInv, NEW op, ~ (op \in {"eng_read_string", "eng_read_file", "import"}), Calls(op), fate' = fate,
           UNCHANGED <<jobs, settings, configVars, readerVars>>, FoundOK', Inv'
    PROVE  IInv'
<1>1. /\ calls' \in Seq(Range(calls')) /\ call'.op = op /\ fate \in {"off", "idle"} /\ jobs = <<>>
  BY Called DEF IInv
<1>2. ReaderOK' /\ TreeOK' /\ depth' = depth
  BY Unread DEF IInv
<1>3. ConfigsOK'
  BY ConfigsLeft DEF IInv
<1>4. SettingsOK(settings)'
  BY SettingsLeft DEF IInv
<1>5. FatesOK'
  BY <1>1, <1>2 DEF IInv, FatesOK, Fates
<1>6. SourceOK'
  BY <1>1, NothingRead
<1>7. QED BY <1>2, <1>3, <1>4, <1>5, <1>6 DEF IInv

LEMMA OutputFuncAdded ==
    ASSUME IInv, AddOutputFunc
    PROVE  IInv'
<1>1. /\ Calls("eng_add_output_func") /\ fate' = fate
      /\ UNCHANGED <<jobs, settings, configVars, readerVars>> /\ UNCHANGED dirVars
  BY DEF AddOutputFunc
<1>2. FoundOK' /\ Inv'
  BY <1>1, DirsLeft DEF IInv
<1>3. QED BY <1>1, <1>2, CallReturns

LEMMA SearchDirsChanged ==
    ASSUME IInv, AddSearchDir \/ RemSearchDir
    PROVE  IInv'
<1>1. /\ Calls("eng_add_search_dir") \/ Calls("eng_rem_search_dir")
      /\ fate' = fate /\ UNCHANGED <<jobs, settings, configVars, readerVars>>
      /\ Argument \in Dirs /\ (eng_add_search_dir(Argument) \/ eng_rem_search_dir(Argument))
  BY DEF AddSearchDir, RemSearchDir, NoConfig
<1>2. Inv'
  BY <1>1, Added, Removed DEF IInv
<1>3. found' = found
  BY <1>1 DEF eng_add_search_dir, eng_rem_search_dir
<1>4. FoundOK'
  BY <1>3 DEF IInv, FoundOK
<1>5. QED BY <1>1, <1>2, <1>4, CallReturns

\* A call that has a configuration read.
LEMMA ConfigCalled ==
    ASSUME IInv, NEW op \in {"semblis_init", "eng_read_default_config", "eng_read_config_file"}, Calls(op),
           fate' \in {"booting", "in call"}, UNCHANGED <<sections, prev_section, readerVars, dirVars>>,
           configs' \in Seq(BOOLEAN), 1 \in DOMAIN configs', configs'[1], JobsOK(jobs', configs'), SettingsOK(settings')
    PROVE  IInv'
<1>1. /\ calls' \in Seq(Range(calls')) /\ call'.op = op /\ fate \in {"off", "idle"}
  BY Called DEF IInv
<1>2. ReaderOK' /\ TreeOK' /\ depth' = depth
  BY Unread DEF IInv
<1>3. ConfigsOK'
  BY DEF IInv, ConfigsOK
<1>4. SettingsOK(settings)'
  BY DEF SettingsOK
<1>5. FatesOK'
  BY <1>1, <1>2 DEF IInv, FatesOK, Fates
<1>6. SourceOK'
  BY <1>1, NothingRead
<1>7. FoundOK' /\ Inv'
  BY DirsLeft DEF IInv
<1>8. QED BY <1>2, <1>3, <1>4, <1>5, <1>6, <1>7 DEF IInv

\* A configuration is read by itself: no other one is.
LEMMA OnlyJob ==
    ASSUME NEW j, DOMAIN j = JobFields, NEW cs \in Seq(BOOLEAN), j.conf \in DOMAIN cs, cs[j.conf]
    PROVE  JobsOK(<<j>>, cs)
<1>1. Len(<<j>>) = 1 /\ <<j>>[1] = j /\ <<j>> \in Seq(Range(<<j>>))
  BY DEF Range
<1> DEFINE js == <<j>>
<1> HIDE DEF js
<1>2. Len(js) = 1 /\ js[1] = j /\ js \in Seq(Range(js))
  BY <1>1 DEF js
<1>3. JobsOK(js, cs)
  BY <1>2 DEF JobsOK
<1>4. QED BY <1>3 DEF js

LEMMA Initialised ==
    ASSUME IInv, semblis_init
    PROVE  IInv'
<1>1. /\ Calls("semblis_init") /\ fate' = "booting" /\ settings' = Defaults
      /\ configs' = <<TRUE>> /\ jobs' = <<Job(MainConfig, DefaultConfig)>>
      /\ UNCHANGED <<sections, prev_section, readerVars, dirVars>>
  BY DEF semblis_init
<1>2. configs' \in Seq(BOOLEAN) /\ 1 \in DOMAIN configs' /\ configs'[1]
  BY <1>1
<1>3. JobsOK(jobs', configs')
  BY <1>1, <1>2, JobMade, OnlyJob DEF MainConfig
<1>4. SettingsOK(settings')
  BY <1>1 DEF SettingsOK, Defaults, MinBlocks, MinEnvs
<1>5. QED BY <1>1, <1>2, <1>3, <1>4, ConfigCalled

LEMMA DefaultConfigRead ==
    ASSUME IInv, eng_read_default_config
    PROVE  IInv'
<1>1. /\ fate = "idle" /\ Calls("eng_read_default_config") /\ fate' = "in call" /\ settings' = settings
      /\ configs' = configs /\ jobs' = <<Job(MainConfig, DefaultConfig)>>
      /\ UNCHANGED <<sections, prev_section, readerVars, dirVars>>
  BY DEF eng_read_default_config, configVars
<1>2. configs \in Seq(BOOLEAN) /\ 1 \in DOMAIN configs /\ configs[1] /\ SettingsOK(settings)
  BY <1>1 DEF IInv, ConfigsOK
<1>3. JobsOK(jobs', configs')
  BY <1>1, <1>2, JobMade, OnlyJob DEF MainConfig
<1>4. QED BY <1>1, <1>2, <1>3, ConfigCalled

LEMMA ConfigFileRead ==
    ASSUME IInv, eng_read_config_file
    PROVE  IInv'
<1> DEFINE new == Job(Len(configs'), Argument)
<1>1. /\ fate = "idle" /\ Calls("eng_read_config_file") /\ fate' = "in call" /\ settings' = settings
      /\ configs' = Append(configs, TRUE) /\ jobs' = <<new>>
      /\ UNCHANGED <<sections, prev_section, readerVars, dirVars>>
  BY DEF eng_read_config_file
<1>2. configs \in Seq(BOOLEAN) /\ 1 \in DOMAIN configs /\ configs[1] /\ SettingsOK(settings)
  BY <1>1 DEF IInv, ConfigsOK
<1>3. DOMAIN new = JobFields /\ new.conf = Len(configs')
  BY JobMade
<1> HIDE DEF new
<1>4. /\ configs' \in Seq(BOOLEAN) /\ 1 \in DOMAIN configs' /\ configs'[1]
      /\ Len(configs') \in DOMAIN configs' /\ configs'[Len(configs')]
  <2> DEFINE cs == Append(configs, TRUE)
  <2>1. /\ cs \in Seq(BOOLEAN) /\ Len(cs) = Len(configs) + 1 /\ Len(configs) \in Nat
        /\ cs[Len(configs) + 1] = TRUE /\ \A i \in 1 .. Len(configs) : cs[i] = configs[i]
    BY <1>2
  <2>2. configs' = cs
    BY <1>1
  <2> HIDE DEF cs
  <2>3. DOMAIN cs = 1 .. Len(configs) + 1 /\ DOMAIN configs = 1 .. Len(configs)
    BY <1>2, <2>1
  <2>4. QED BY <1>2, <2>1, <2>2, <2>3
<1>5. JobsOK(jobs', configs')
  BY <1>1, <1>3, <1>4, OnlyJob
<1>6. QED BY <1>1, <1>2, <1>4, <1>5, ConfigCalled

\* A text is handed to the reader.
LEMMA TextGiven ==
    ASSUME IInv, fate' = "reading", NEW filename, NEW text \in Texts, NEW beyond \in Texts,
           StartReading(filename, text, beyond),
           fate \in {"idle", "found"}, jobs' = <<>>, UNCHANGED <<jobs, settings, configVars, dirVars>>,
           calls' \in Seq(Range(calls')),
           call'.op \in {"eng_read_string", "eng_read_file", "import"}, Source' = filename
    PROVE  IInv'
<1>1. ReaderOK' /\ TreeOK' /\ depth' = 1 /\ nodes' = <<>>
  BY ReadingStarts DEF IInv
<1>2. cur_filename_index' \in DOMAIN cur_filename' /\ cur_filename'[cur_filename_index'] = filename
  BY SourceIndex DEF IInv
<1>3. SourceOK'
  <2>1. \A n \in DOMAIN nodes' : nodes'[n].filename_index = cur_filename_index'
    <3>1. nodes' = <<>>
      BY <1>1
    <3>2. QED BY <3>1
  <2>2. SourcesNamed'
    BY DEF SourcesNamed, HasRead
  <2>3. QED BY <1>2, <2>1, <2>2 DEF SourceOK
<1>4. ConfigsOK'
  BY ConfigsLeft DEF IInv
<1>5. SettingsOK(settings)'
  BY SettingsLeft DEF IInv
<1>6. FatesOK'
  BY DEF FatesOK, Fates
<1>7. FoundOK' /\ Inv'
  BY DirsLeft DEF IInv
<1>8. QED BY <1>1, <1>3, <1>4, <1>5, <1>6, <1>7 DEF IInv

\* A reading that fails has no tree to be asked about.
LEMMA NotOpened ==
    ASSUME IInv, fate' = "idle", program' = <<>>, fate \in {"idle", "found"}, jobs' = <<>>,
           UNCHANGED <<jobs, settings, configVars, readerVars, dirVars>>, calls' \in Seq(Range(calls')),
           depth = 0
    PROVE  IInv'
<1>1. ReaderOK' /\ TreeOK' /\ depth' = depth
  BY Unread DEF IInv
<1>2. SourceOK'
  BY NothingRead
<1>3. ConfigsOK'
  BY ConfigsLeft DEF IInv
<1>4. SettingsOK(settings)'
  BY SettingsLeft DEF IInv
<1>5. FatesOK'
  <2>1. depth' = 0
    BY <1>1
  <2>2. QED BY <2>1 DEF FatesOK, Fates
<1>6. FoundOK' /\ Inv'
  BY DirsLeft DEF IInv
<1>7. QED BY <1>1, <1>2, <1>3, <1>4, <1>5, <1>6 DEF IInv

LEMMA StringRead ==
    ASSUME IInv, eng_read_string
    PROVE  IInv'
<1>1. /\ fate = "idle" /\ Calls("eng_read_string") /\ fate' = "reading"
      /\ StartReading(Argument, Argument, <<>>)
      /\ UNCHANGED <<jobs, settings, configVars, dirVars>>
  BY DEF eng_read_string, reader_read_string, NoConfig
<1>2. /\ calls' \in Seq(Range(calls')) /\ call'.op = "eng_read_string" /\ jobs = <<>>
      /\ Argument = call'.name /\ Argument \in Texts
  BY <1>1, Called DEF IInv
<1>3. Source' = Argument
  BY <1>2 DEF Source
<1>4. <<>> \in Texts
  BY DEF Texts
<1>5. QED BY <1>1, <1>2, <1>3, <1>4, TextGiven

LEMMA FileRead ==
    ASSUME IInv, eng_read_file
    PROVE  IInv'
<1>1. /\ fate = "idle" /\ Calls("eng_read_file") /\ UNCHANGED <<jobs, settings, configVars, dirVars>>
  BY DEF eng_read_file, NoConfig
<1>2. /\ calls' \in Seq(Range(calls')) /\ call'.op = "eng_read_file" /\ jobs = <<>>
      /\ Argument = call'.name /\ Argument \in Texts /\ depth = 0
  BY <1>1, Called DEF IInv, ReaderOK
<1>3. CASE Argument \in DOMAIN SourceFiles
  <2>1. fate' = "reading" /\ reader_read_file(Argument)
    BY <1>3 DEF eng_read_file
  <2>2. PICK beyond \in Garbage : StartReading(Argument, SourceFiles[Argument], beyond)
    BY <2>1 DEF reader_read_file
  <2>3. beyond \in Texts /\ SourceFiles[Argument] \in Texts
    BY <1>3, EngineAssumption
  <2>4. Source' = Argument
    BY <1>2 DEF Source
  <2>5. QED BY <1>1, <1>2, <2>1, <2>2, <2>3, <2>4, TextGiven
<1>4. CASE Argument \notin DOMAIN SourceFiles
  <2>1. fate' = "idle" /\ program' = <<>> /\ UNCHANGED readerVars
    BY <1>4 DEF eng_read_file
  <2>2. QED BY <1>1, <1>2, <2>1, NotOpened
<1>5. QED BY <1>3, <1>4

LEMMA FoundInside ==
    ASSUME Inv, NEW file \in Files, SearchFile(file)
    PROVE  FoundOK'
<1> DEFINE hits == {k \in DOMAIN search_dirs : Opens(k, file)}
           m == CHOOSE k \in hits : \A i \in hits : i <= k
<1>1. search_dirs \in Tables /\ Len(search_dirs) \in Nat /\ DOMAIN search_dirs = 1 .. Len(search_dirs)
  BY DEF Inv, DirTypeOK, Tables
<1>2. found' = IF hits = {} THEN NotFound ELSE <<search_dirs[m], file>>
  BY DEF SearchFile
<1>3. CASE hits = {}
  BY <1>2, <1>3 DEF FoundOK
<1>4. CASE hits # {}
  <2>1. hits \in SUBSET (1 .. Len(search_dirs))
    BY <1>1
  <2> HIDE DEF hits
  <2>2. \E k \in hits : \A i \in hits : i <= k
    BY <1>1, <1>4, <2>1, Greatest
  <2>3. m \in hits
    BY <2>2
  <2> HIDE DEF m
  <2>4. search_dirs[m] \in Dirs \cup {Hole} /\ search_dirs[m] # Hole /\ file \in Has[search_dirs[m]]
    BY <1>1, <2>3 DEF hits, Opens, Tables
  <2>5. QED BY <1>2, <1>4, <2>4 DEF FoundOK
<1>5. QED BY <1>3, <1>4

LEMMA Imported ==
    ASSUME IInv, Import
    PROVE  IInv'
<1>1. /\ fate = "idle" /\ Calls("import") /\ Argument \in Files /\ fate' = "found" /\ SearchFile(Argument)
      /\ UNCHANGED <<jobs, settings, configVars>> /\ UNCHANGED readerVars
  BY DEF Import, NoConfig
<1>2. /\ calls' \in Seq(Range(calls')) /\ call'.op = "import" /\ jobs = <<>>
  BY <1>1, Called DEF IInv
<1>3. ReaderOK' /\ TreeOK' /\ depth' = depth
  BY <1>1, Unread DEF IInv
<1>4. FoundOK' /\ Inv'
  BY <1>1, FoundInside, Searched DEF IInv
<1>5. ConfigsOK'
  BY <1>1, ConfigsLeft DEF IInv
<1>6. SettingsOK(settings)'
  BY <1>1, SettingsLeft DEF IInv
<1>7. SourceOK'
  BY <1>1, <1>2 DEF SourceOK, SourcesNamed, HasRead
<1>8. FatesOK'
  <2>1. ~ (depth' > 0)
    BY <1>1, <1>3 DEF IInv, FatesOK
  <2>2. jobs' = <<>>
    BY <1>1, <1>2
  <2>3. QED BY <1>1, <1>2, <2>1, <2>2 DEF FatesOK, Fates
<1>9. QED BY <1>3, <1>4, <1>5, <1>6, <1>7, <1>8 DEF IInv

LEMMA ShutDown ==
    ASSUME IInv, semblis_shutdown
    PROVE  IInv'
<1>1. /\ fate = "idle" /\ Calls("semblis_shutdown") /\ fate' = "shut down"
      /\ configs' = [configs EXCEPT ![MainConfig] = FALSE] /\ jobs' = jobs /\ settings' = settings
      /\ cur_filename' = <<>> /\ cur_filename_index' = 0
      /\ UNCHANGED streamVars /\ UNCHANGED <<sections, prev_section>> /\ UNCHANGED dirVars
  BY DEF semblis_shutdown, destroy_filenames
<1>2. /\ calls' \in Seq(Range(calls')) /\ call'.op = "semblis_shutdown" /\ jobs = <<>>
  BY <1>1, Called DEF IInv
<1>3. /\ UNCHANGED buffer /\ stream' = stream /\ line_num' = line_num /\ nodes' = nodes /\ depth' = depth
  BY <1>1 DEF streamVars
<1>4. ReaderOK'
  <2>1. cur_filename' \in Seq(Range(cur_filename')) /\ cur_filename_index' \in 0 .. Len(cur_filename')
    <3>1. <<>> \in Seq(Range(<<>>)) /\ 0 \in 0 .. Len(<<>>)
      BY DEF Range
    <3>2. cur_filename' = <<>> /\ cur_filename_index' = 0
      BY <1>1
    <3>3. QED BY <3>1, <3>2
  <2>2. BufferOK' /\ line_num' \in Int /\ depth' \in Nat /\ nodes' \in Seq(ReaderNodes)
    BY <1>3 DEF IInv, ReaderOK, BufferOK
  <2>3. depth' > 0 => stream' \in 1 .. buffer'.len + 1
    BY <1>3 DEF IInv, ReaderOK
  <2>4. QED BY <2>1, <2>2, <2>3 DEF ReaderOK
<1>5. TreeOK'
  <2>1. ASSUME NEW x \in 1 .. buffer.len, LastOpen(x)
        PROVE  LastOpen(x)'
    <3>1. CharAt(x)' = CharAt(x) /\ Skip(x + 1)' = Skip(x + 1)
      BY <1>3, SameText
    <3>2. QED BY <1>3, <2>1, <3>1 DEF LastOpen, AtEnd
  <2>2. QED BY <1>3, <2>1 DEF IInv, TreeOK
<1>6. SourceOK'
  BY <1>1, NothingRead
<1>7. ConfigsOK'
  <2>1. configs' \in Seq(BOOLEAN)
    <3>1. configs \in Seq(BOOLEAN)
      BY DEF IInv, ConfigsOK
    <3>2. QED BY <1>1, <3>1, Destroyed
  <2>2. jobs' = <<>>
    BY <1>1, <1>2
  <2>3. JobsOK(jobs', configs')
    BY <2>2 DEF JobsOK
  <2>4. sections' \in Seq(Range(sections')) /\ prev_section' \in 0 .. Len(sections')
    BY <1>1 DEF IInv, ConfigsOK
  <2>5. QED BY <1>1, <2>1, <2>3, <2>4 DEF ConfigsOK
<1>8. SettingsOK(settings)'
  BY <1>1, SettingsLeft DEF IInv
<1>9. FatesOK'
  <2>1. ~ (depth' > 0)
    BY <1>1, <1>3 DEF IInv, FatesOK
  <2>2. jobs' = <<>>
    BY <1>1, <1>2
  <2>3. QED BY <1>1, <1>2, <2>1, <2>2 DEF FatesOK, Fates
<1>10. FoundOK' /\ Inv'
  BY <1>1, DirsLeft DEF IInv
<1>11. QED BY <1>4, <1>5, <1>6, <1>7, <1>8, <1>9, <1>10 DEF IInv

-----------------------------------------------------------------------------
(* Steps a call takes by itself.                                           *)

LEMMA Booted ==
    ASSUME IInv, EvalInit
    PROVE  IInv'
<1>1. /\ fate = "booting" /\ jobs = <<>> /\ fate' = "idle" /\ calls' = calls
      /\ UNCHANGED <<jobs, settings, configVars>> /\ UNCHANGED readerVars /\ UNCHANGED dirVars
  BY DEF EvalInit, Fate
<1>2. ReaderOK' /\ TreeOK' /\ depth' = depth
  BY <1>1, Unread DEF IInv
<1>3. FoundOK' /\ Inv'
  BY <1>1, DirsLeft DEF IInv
<1>4. ConfigsOK'
  BY <1>1, ConfigsLeft DEF IInv
<1>5. SettingsOK(settings)'
  BY <1>1, SettingsLeft DEF IInv
<1>6. SourceOK'
  <2>1. call'.op \in {"semblis_init", "eng_read_default_config", "eng_read_config_file"}
    BY <1>1 DEF IInv, SourceOK, call
  <2>2. QED BY <1>1, <2>1, NothingRead
<1>7. FatesOK'
  <2>1. ~ (depth' > 0)
    BY <1>1, <1>2 DEF IInv, FatesOK
  <2>2. jobs' = <<>> /\ calls' \in Seq(Range(calls'))
    BY <1>1 DEF IInv, FatesOK
  <2>3. QED BY <1>1, <2>1, <2>2 DEF FatesOK, Fates
<1>8. QED BY <1>2, <1>3, <1>4, <1>5, <1>6, <1>7 DEF IInv

LEMMA ImportOver ==
    ASSUME IInv, ImportFound
    PROVE  IInv'
<1>1. /\ fate = "found" /\ calls' = calls /\ UNCHANGED <<jobs, settings, configVars, dirVars>>
  BY DEF ImportFound, NoConfig, Fate
<1>2. /\ calls' \in Seq(Range(calls')) /\ jobs' = <<>> /\ depth = 0
  BY <1>1 DEF IInv, FatesOK, ReaderOK
<1>3. call'.op = "import"
  BY <1>1 DEF IInv, SourceOK, call
<1>4. CASE found # NotFound
  <2>1. fate' = "reading" /\ reader_read_file(Path(found))
    BY <1>4 DEF ImportFound, Fate
  <2>2. PICK beyond \in Garbage : StartReading(Path(found), SourceFiles[Path(found)], beyond)
    BY <2>1 DEF reader_read_file
  <2>3. PICK dir \in Dirs, file \in Files : file \in Has[dir] /\ found = <<dir, file>>
    BY <1>4 DEF IInv, FoundOK
  <2>4. Path(found) \in DOMAIN SourceFiles
    BY <2>3, EngineAssumption
  <2>5. beyond \in Texts /\ SourceFiles[Path(found)] \in Texts
    BY <2>4, EngineAssumption
  <2>6. Source' = Path(found)
    BY <1>1, <1>3 DEF Source, dirVars, Path
  <2>7. QED BY <1>1, <1>2, <1>3, <2>1, <2>2, <2>5, <2>6, TextGiven
<1>5. CASE found = NotFound
  <2>1. fate' = "idle" /\ program' = <<>> /\ UNCHANGED readerVars
    BY <1>5 DEF ImportFound, Fate
  <2>2. QED BY <1>1, <1>2, <2>1, NotOpened
<1>6. QED BY <1>4, <1>5

LEMMA Invoked ==
    ASSUME IInv, Invoke
    PROVE  IInv'
<1>1. /\ fate = "reading" /\ fate' = fate /\ calls' = calls /\ (ReadToken \/ Return)
      /\ UNCHANGED <<jobs, settings, configVars>> /\ UNCHANGED dirVars
  BY DEF Invoke, NoConfig
<1>2. ReaderOK' /\ TreeOK'
  BY <1>1, TokenRead, Returned DEF IInv
<1>3. \A n \in DOMAIN nodes' : (n \in DOMAIN nodes /\ nodes'[n] = nodes[n]) \/ nodes'[n].filename_index = cur_filename_index
  BY <1>1, TokenRead, Returned DEF IInv
<1>4. cur_filename' = cur_filename /\ cur_filename_index' = cur_filename_index
  BY <1>1 DEF ReadToken, Return
<1>5. SourceOK'
  <2>1. /\ call'.op \in {"eng_read_string", "eng_read_file", "import"}
        /\ cur_filename_index \in DOMAIN cur_filename /\ cur_filename[cur_filename_index] = Source
    BY <1>1 DEF IInv, SourceOK, call
  <2>2. Source' = Source
    BY <1>1 DEF Source, call, Path, dirVars
  <2>3. \A n \in DOMAIN nodes' : nodes'[n].filename_index = cur_filename_index'
    BY <1>1, <1>3, <1>4 DEF IInv, SourceOK
  <2>4. SourcesNamed'
    BY <1>1 DEF SourcesNamed, HasRead
  <2>5. QED BY <1>1, <1>4, <2>1, <2>2, <2>3, <2>4 DEF SourceOK
<1>6. FoundOK' /\ Inv'
  BY <1>1, DirsLeft DEF IInv
<1>7. ConfigsOK'
  BY <1>1, ConfigsLeft DEF IInv
<1>8. SettingsOK(settings)'
  BY <1>1, SettingsLeft DEF IInv
<1>9. FatesOK'
  BY <1>1 DEF IInv, FatesOK
<1>10. QED BY <1>2, <1>5, <1>6, <1>7, <1>8, <1>9 DEF IInv

LEMMA ClassifiedAll ==
    ASSUME IInv, Classify
    PROVE  IInv'
<1>1. /\ fate = "reading" /\ depth = 0 /\ fate' = "idle" /\ calls' = calls
      /\ UNCHANGED <<jobs, settings, configVars>> /\ UNCHANGED readerVars /\ UNCHANGED dirVars
  BY DEF Classify, NoConfig, Fate
<1>2. ReaderOK' /\ TreeOK' /\ depth' = depth
  BY <1>1, Unread DEF IInv
<1>3. SourceOK'
  <2>1. /\ cur_filename_index \in DOMAIN cur_filename /\ cur_filename[cur_filename_index] = Source
        /\ \A n \in DOMAIN nodes : nodes[n].filename_index = cur_filename_index
    BY <1>1 DEF IInv, SourceOK
  <2>2. Source' = Source /\ nodes' = nodes /\ cur_filename' = cur_filename
    BY <1>1 DEF Source, call, Path, dirVars, readerVars, streamVars
  <2>3. SourcesNamed'
    BY <2>1, <2>2 DEF SourcesNamed, From
  <2>4. QED BY <1>1, <2>3 DEF SourceOK
<1>4. FoundOK' /\ Inv'
  BY <1>1, DirsLeft DEF IInv
<1>5. ConfigsOK'
  BY <1>1, ConfigsLeft DEF IInv
<1>6. SettingsOK(settings)'
  BY <1>1, SettingsLeft DEF IInv
<1>7. FatesOK'
  <2>1. depth' = 0 /\ calls' \in Seq(Range(calls')) /\ jobs' = <<>>
    BY <1>1, <1>2 DEF IInv, FatesOK
  <2>2. QED BY <1>1, <2>1 DEF FatesOK, Fates
<1>8. QED BY <1>2, <1>3, <1>4, <1>5, <1>6, <1>7 DEF IInv

LEMMA Rested ==
    ASSUME IInv, UNCHANGED vars
    PROVE  IInv'
<1>1. /\ fate' = fate /\ calls' = calls /\ program' = program
      /\ UNCHANGED <<jobs, settings, configVars>> /\ UNCHANGED readerVars /\ UNCHANGED dirVars
  BY DEF vars, engineVars
<1>2. ReaderOK' /\ TreeOK' /\ depth' = depth
  BY <1>1, Unread DEF IInv
<1>3. SourceOK'
  <2>1. /\ Source' = Source /\ nodes' = nodes /\ cur_filename' = cur_filename
        /\ cur_filename_index' = cur_filename_index /\ call' = call
    BY <1>1 DEF Source, call, Path, dirVars, readerVars, streamVars
  <2>2. HasRead' = HasRead
    BY <1>1, <2>1 DEF HasRead
  <2>3. SourcesNamed'
    BY <1>1, <2>1, <2>2 DEF IInv, SourceOK, SourcesNamed, From
  <2>4. QED BY <1>1, <2>1, <2>3 DEF IInv, SourceOK
<1>4. FoundOK' /\ Inv'
  BY <1>1, DirsLeft DEF IInv
<1>5. ConfigsOK'
  BY <1>1, ConfigsLeft DEF IInv
<1>6. SettingsOK(settings)'
  BY <1>1, SettingsLeft DEF IInv
<1>7. FatesOK'
  BY <1>1, <1>2 DEF IInv, FatesOK
<1>8. QED BY <1>2, <1>3, <1>4, <1>5, <1>6, <1>7 DEF IInv

-----------------------------------------------------------------------------

LEMMA Started ==
    ASSUME Init
    PROVE  IInv
<1>1. ReaderOK
  BY DEF Init, ReaderInit, ReaderOK, BufferOK, Texts, Range
<1>2. TreeOK
  BY DEF Init, ReaderInit, TreeOK
<1>3. SourceOK
  BY DEF Init, SourceOK, SourcesNamed, HasRead
<1>4. ConfigsOK
  <2>1. /\ fate = "off" /\ configs = <<>> /\ jobs = <<>> /\ sections = <<>> /\ prev_section = 0
    BY DEF Init, ConfigInit
  <2>2. JobsOK(<<>>, <<>>)
    BY DEF JobsOK
  <2>3. QED BY <2>1, <2>2 DEF ConfigsOK
<1>5. SettingsOK(settings)
  BY DEF Init, SettingsOK, Defaults, MinBlocks, MinEnvs
<1>6. FatesOK
  BY DEF Init, ReaderInit, FatesOK, Fates
<1>7. FoundOK /\ Inv
  BY Start DEF Init, DirsInit, FoundOK
<1>8. QED BY <1>1, <1>2, <1>3, <1>4, <1>5, <1>6, <1>7 DEF IInv

LEMMA EngineInvariance == Spec => []IInv
<1>1. Init => IInv
  BY Started
<1>2. IInv /\ [Next]_vars => IInv'
  <2> SUFFICES ASSUME IInv, [Next]_vars PROVE IInv'
    OBVIOUS
  <2>1. CASE Call
    BY <2>1, Initialised, DefaultConfigRead, ConfigFileRead, OutputFuncAdded, SearchDirsChanged,
       StringRead, FileRead, Imported, ShutDown DEF Call
  <2>2. CASE Work
    BY <2>2, LineRead, SectionLeft, CoreProperty, Included, Defined, OtherProperty, ConfigEnded,
       Booted, ImportOver, Invoked, ClassifiedAll DEF Work, process_library_property
  <2>3. CASE Rest \/ UNCHANGED vars
    BY <2>3, Rested DEF Rest
  <2>4. QED BY <2>1, <2>2, <2>3 DEF Next
<1>3. QED BY <1>1, <1>2, PTL DEF Spec

\* Every variable keeps its type.  In particular no configuration is destroyed
\* while it, or one that it includes, is still being read, and no size that is
\* configured is below the smallest one allowed.
THEOREM EngineTypeCorrect == Spec => []TypeOK
<1>1. IInv => TypeOK
  <2> SUFFICES ASSUME IInv PROVE TypeOK
    OBVIOUS
  <2>1. /\ fate \in {"off", "booting", "idle", "in call", "reading", "found", "aborted", "undefined", "shut down"}
        /\ fate \in {"booting", "in call"} \/ jobs = <<>> \/ fate \in {"aborted", "undefined"}
    BY DEF IInv, FatesOK, Fates
  <2>2. \A j \in ToSet(jobs) : j.conf \in DOMAIN configs /\ configs[j.conf]
    <3>1. /\ jobs \in Seq(Range(jobs))
          /\ \A n \in 1 .. Len(jobs) : jobs[n].conf \in DOMAIN configs /\ configs[jobs[n].conf]
      BY DEF IInv, ConfigsOK, JobsOK
    <3>2. DOMAIN jobs = 1 .. Len(jobs)
      BY <3>1
    <3>3. QED BY <3>1, <3>2 DEF ToSet
  <2>3. prev_section \in 0 .. Len(sections)
    BY DEF IInv, ConfigsOK
  <2>4. settings.max_num_blocks >= MinBlocks /\ settings.max_num_environments >= MinEnvs
    BY DEF IInv, SettingsOK
  <2>5. (depth > 0 => stream \in 1 .. buffer.len + 1) /\ cur_filename_index \in 0 .. Len(cur_filename)
    BY DEF IInv, ReaderOK
  <2>6. DirTypeOK
    BY DEF IInv, Inv
  <2>7. QED BY <2>1, <2>2, <2>3, <2>4, <2>5, <2>6 DEF TypeOK
<1>2. QED BY <1>1, EngineInvariance, PTL

\* Whatever was read before, and whatever has an index already, the nodes of a
\* reading name the source that they were read from.
THEOREM SourcesCorrect == Spec => []SourcesNamed
<1>1. IInv => SourcesNamed
  BY DEF IInv, SourceOK
<1>2. QED BY <1>1, EngineInvariance, PTL

\* reader_to_data meets a list without any node only where a text ends right
\* after an opening parenthesis.
THEOREM ChildlessCorrect == Spec => []ChildlessOnlyAtEnd
<1>1. IInv => ChildlessOnlyAtEnd
  <2> SUFFICES ASSUME IInv, HasRead, NEW n \in DOMAIN nodes, Childless(n)
               PROVE  n = Len(nodes) /\ \E x \in 1 .. buffer.len : CharAt(x) = "(" /\ AtEnd(Skip(x + 1))
    BY DEF ChildlessOnlyAtEnd
  <2>1. nodes \in Seq(ReaderNodes) /\ Len(nodes) \in Nat /\ DOMAIN nodes = 1 .. Len(nodes) /\ depth = 0
    BY DEF IInv, ReaderOK, FatesOK, HasRead
  <2>2. \A m \in 1 .. Len(nodes) : nodes[m].depth \in Int
    <3>1. \A m \in 1 .. Len(nodes) : nodes[m] \in ReaderNodes
      BY <2>1
    <3>2. QED BY <3>1 DEF ReaderNodes
  <2>3. nodes[n].token = <<"(">> /\ (n < Len(nodes) => nodes[n + 1].depth <= nodes[n].depth)
    BY DEF Childless
  <2>4. n = Len(nodes)
    <3>1. SUFFICES ASSUME n \in 1 .. Len(nodes) - 1 PROVE FALSE
      BY <2>1
    <3>2. nodes[n + 1].depth > nodes[n].depth
      BY <2>3, <3>1 DEF IInv, TreeOK
    <3>3. nodes[n].depth \in Int /\ nodes[n + 1].depth \in Int
      BY <2>1, <2>2, <3>1
    <3>4. QED BY <2>1, <2>3, <3>1, <3>2, <3>3
  <2>5. nodes # <<>> /\ Last(nodes) = nodes[n]
    BY <2>1, <2>4 DEF Last
  <2>6. PICK x \in 1 .. buffer.len : LastOpen(x)
    BY <2>3, <2>5 DEF IInv, TreeOK
  <2>7. Last(nodes).depth >= 1 /\ Last(nodes).depth \in Int
    BY <2>1, <2>2, <2>5 DEF IInv, TreeOK
  <2>8. CharAt(x) = "(" /\ AtEnd(Skip(x + 1))
    BY <2>1, <2>6, <2>7 DEF LastOpen
  <2>9. QED BY <2>4, <2>8
<1>2. QED BY <1>1, EngineInvariance, PTL

\* However the calls of the host are mixed with readings and imports, the table
\* of search directories behaves as a list.
THEOREM EngineDirsAreAList == Spec => ImplementsDirList
<1>1. Init => DirsInit
  BY DEF Init
<1>2. [Next]_vars => [DirsNext]_dirVars
  <2> SUFFICES ASSUME [Next]_vars PROVE [DirsNext]_dirVars
    OBVIOUS
  <2>1. CASE AddSearchDir \/ RemSearchDir \/ Import
    BY <2>1 DEF AddSearchDir, RemSearchDir, Import, DirsNext
  <2>2. CASE semblis_init \/ eng_read_default_config \/ eng_read_config_file \/ AddOutputFunc
             \/ eng_read_string \/ eng_read_file \/ semblis_shutdown
    BY <2>2 DEF semblis_init, eng_read_default_config, eng_read_config_file, AddOutputFunc,
                eng_read_string, eng_read_file, semblis_shutdown
  <2>3. CASE Work
    BY <2>3 DEF Work, process_library_property, ReadLine, NextSection, process_core_property, Include, Definition,
                LibraryProperty, EndConfig, EvalInit, ImportFound, Invoke, Classify
  <2>4. CASE Rest \/ UNCHANGED vars
    BY <2>4 DEF Rest, vars
  <2>5. QED BY <2>1, <2>2, <2>3, <2>4 DEF Next, Call
<1>3. Spec => DirsSpec
  BY <1>1, <1>2, PTL DEF Spec, DirsSpec
<1>4. QED BY <1>3, TableIsAList

-----------------------------------------------------------------------------
(* Nothing is lost: in a text without quotes and comments, the nodes made   *)
(* so far are as many as the characters passed that start one.             *)

ReadOf(q) == {n \in DOMAIN q : q[n].token # <<")">>}
Due(s) == {x \in 1 .. s - 1 : Starts(x) /\ Wanted(x)}
Level(x) == 1 + Count("(", x) - Count(")", x)

\* While no parenthesis too many was met, the calls of invoke are as many as
\* the parentheses that are open, and one; after it, nothing more is wanted.
CountsFit ==
    /\ Cardinality(ReadOf(nodes)) = Cardinality(Due(stream))
    /\ depth > 0 => AtEnd(stream) \/ (Wanted(stream - 1) /\ depth = Level(stream - 1))
    /\ depth = 0 => \A x \in stream .. buffer.len : ~ Wanted(x)
    /\ \/ stream = 1 \/ AtEnd(stream)
       \/ CharAt(stream - 1) \in Parentheses \cup Blanks \/ CharAt(stream) \in Parentheses \cup Blanks
CountOK == stream \in 1 .. buffer.len + 1 /\ (Plain => CountsFit)

LEMMA CountType ==
    ASSUME NEW c, NEW x \in Int
    PROVE  Count(c, x) \in Nat
<1>1. IsFiniteSet(1 .. x)
  BY FS_Interval
<1>2. {y \in 1 .. x : CharAt(y) = c} \subseteq 1 .. x
  OBVIOUS
<1>3. QED BY <1>1, <1>2, FS_Subset, FS_CardinalityType DEF Count

LEMMA CountSame ==
    ASSUME NEW c, NEW x \in Nat, NEW z \in Nat, x <= z, \A y \in x + 1 .. z : CharAt(y) # c
    PROVE  Count(c, z) = Count(c, x)
<1>1. {y \in 1 .. z : CharAt(y) = c} = {y \in 1 .. x : CharAt(y) = c}
  OBVIOUS
<1>2. QED BY <1>1 DEF Count

LEMMA CountNext ==
    ASSUME NEW c, NEW x \in Nat, CharAt(x + 1) = c
    PROVE  Count(c, x + 1) = Count(c, x) + 1
<1> DEFINE S == {y \in 1 .. x : CharAt(y) = c}
<1>1. IsFiniteSet(1 .. x)
  BY FS_Interval
<1>2. IsFiniteSet(S) /\ x + 1 \notin S
  <2>1. S \subseteq 1 .. x
    OBVIOUS
  <2>2. QED BY <1>1, <2>1, FS_Subset
<1>3. {y \in 1 .. x + 1 : CharAt(y) = c} = S \cup {x + 1}
  OBVIOUS
<1> HIDE DEF S
<1>4. Cardinality(S \cup {x + 1}) = Cardinality(S) + 1
  BY <1>2, FS_AddElement
<1>5. QED BY <1>3, <1>4 DEF Count, S

\* Without parentheses between them, two places are at the same level.
LEMMA LevelSame ==
    ASSUME NEW x \in Nat, NEW z \in Nat, x <= z, \A y \in x + 1 .. z : CharAt(y) \notin Parentheses
    PROVE  /\ Level(z) = Level(x)
           /\ Wanted(x) => Wanted(z)
<1>1. ASSUME NEW c \in Parentheses, NEW w \in x .. z PROVE Count(c, w) = Count(c, x)
  <2>1. w \in Nat /\ x <= w /\ \A y \in x + 1 .. w : CharAt(y) # c
    OBVIOUS
  <2>2. QED BY <2>1, CountSame
<1>2. "(" \in Parentheses /\ ")" \in Parentheses
  BY DEF Parentheses
<1>3. Level(z) = Level(x)
  <2>1. Count("(", z) = Count("(", x) /\ Count(")", z) = Count(")", x)
    BY <1>1, <1>2
  <2>2. QED BY <2>1 DEF Level
<1>4. ASSUME Wanted(x), NEW w \in 1 .. z PROVE Count(")", w) <= Count("(", w)
  <2>1. CASE w <= x
    BY <1>4, <2>1 DEF Wanted
  <2>2. CASE w > x
    <3>1. Count(")", w) = Count(")", x) /\ Count("(", w) = Count("(", x)
      BY <1>1, <1>2, <2>2
    <3>2. Count(")", x) <= Count("(", x)
      <4>1. CASE x = 0
        <5>1. Count(")", x) = Cardinality({}) /\ Count("(", x) = Cardinality({})
          BY <4>1 DEF Count
        <5>2. Cardinality({}) = 0
          BY FS_EmptySet
        <5>3. QED BY <5>1, <5>2
      <4>2. CASE x # 0
        BY <1>4, <4>2 DEF Wanted
      <4>3. QED BY <4>1, <4>2
    <3>3. QED BY <3>1, <3>2
  <2>3. QED BY <2>1, <2>2
<1>5. QED BY <1>3, <1>4 DEF Wanted

LEMMA DueFinite ==
    ASSUME NEW s \in Nat
    PROVE  IsFiniteSet(Due(s)) /\ Cardinality(Due(s)) \in Nat
<1>1. IsFiniteSet(1 .. s - 1)
  BY FS_Interval
<1>2. Due(s) \subseteq 1 .. s - 1
  BY DEF Due
<1>3. QED BY <1>1, <1>2, FS_Subset, FS_CardinalityType

\* Where nothing starts, nothing is due.
LEMMA DueSame ==
    ASSUME NEW s \in Nat, NEW z \in Nat, s <= z, \A x \in s .. z - 1 : ~ Starts(x)
    PROVE  Due(z) = Due(s)
BY DEF Due

LEMMA DueNext ==
    ASSUME NEW p \in Nat \ {0}, NEW z \in Nat, p < z, Starts(p), Wanted(p), \A x \in p + 1 .. z - 1 : ~ Starts(x)
    PROVE  Cardinality(Due(z)) = Cardinality(Due(p)) + 1
<1>1. Due(z) = Due(p) \cup {p} /\ p \notin Due(p)
  BY DEF Due
<1>2. QED BY <1>1, DueFinite, FS_AddElement

-----------------------------------------------------------------------------
(* Tokens of a plain text.                                                 *)

LEMMA PlainChar ==
    ASSUME Plain, NEW x \in 1 .. buffer.len
    PROVE  CharAt(x) # "\"" /\ CharAt(x) # "'" /\ CharAt(x) # ";"
BY DEF Plain

LEMMA PlainSkip ==
    ASSUME BufferOK, Plain, NEW s \in 1 .. buffer.len + 1
    PROVE  /\ Skip(s) \in s .. buffer.len + 1
           /\ \A x \in s .. Skip(s) - 1 : CharAt(x) \in Blanks
           /\ Skip(s) <= buffer.len => CharAt(Skip(s)) \notin Blanks
<1> DEFINE stops == {q \in s .. buffer.len : ~ Passed(s, q)}
           p == Skip(s)
<1>1. buffer.len \in Nat /\ p \in s .. buffer.len + 1
  BY SkipType DEF BufferOK
<1>2. ASSUME NEW x \in s .. buffer.len, x \notin stops PROVE CharAt(x) \in Blanks
  <2>1. Passed(s, x)
    BY <1>2
  <2>2. ~ InComment(s, x)
    <3>1. ASSUME NEW y \in s .. x PROVE CharAt(y) # ";"
      <4>1. y \in 1 .. buffer.len
        BY <1>1
      <4>2. QED BY <4>1, PlainChar
    <3>2. QED BY <3>1 DEF InComment
  <2>3. QED BY <2>1, <2>2 DEF Passed
<1>3. CASE stops = {}
  <2>1. p = buffer.len + 1
    BY <1>3 DEF Skip
  <2>2. QED BY <1>1, <1>2, <1>3, <2>1
<1>4. CASE stops # {}
  <2>1. stops \in SUBSET Nat
    BY <1>1
  <2>2. \E q \in stops : \A x \in stops : q <= x
    BY <1>4, <2>1, Least
  <2>3. p \in stops /\ \A x \in stops : p <= x
    BY <1>4, <2>2 DEF Skip
  <2>4. CharAt(p) \notin Blanks
    BY <2>3 DEF Passed
  <2>5. ASSUME NEW x \in s .. p - 1 PROVE CharAt(x) \in Blanks
    <3>1. x \in s .. buffer.len /\ x < p
      BY <1>1
    <3>2. x \notin stops
      BY <2>3, <3>1
    <3>3. QED BY <1>2, <3>1, <3>2
  <2>6. QED BY <1>1, <2>4, <2>5
<1>5. QED BY <1>3, <1>4

\* How far an atom that starts at p has been read after n characters.
AtomScan(t, p, n) ==
    /\ t \in ScanStates(p)
    /\ \A x \in p .. t.next - 1 : CharAt(x) \notin Parentheses \cup Blanks
    /\ \/ t.mode = "plain" /\ t.next = p + n /\ t.len = n + 1
       \/ AtEnd(t.next)
       \/ t.mode = "ended" /\ CharAt(t.next) \in Parentheses \cup Blanks

LEMMA AtomStep ==
    ASSUME BufferOK, Plain, NEW p \in 1 .. buffer.len, CharAt(p) \notin Parentheses \cup Blanks,
           NEW n \in Nat, NEW t, AtomScan(t, p, n)
    PROVE  AtomScan(Scan(t), p, n + 1)
<1>1. /\ t \in ScanStates(p) /\ t.next \in p .. buffer.len + 1 /\ buffer.len \in Nat /\ t.len \in Int
      /\ \A x \in p .. t.next - 1 : CharAt(x) \notin Parentheses \cup Blanks
  BY DEF AtomScan, ScanStates, BufferOK
<1>2. CASE AtEnd(t.next) \/ t.mode = "ended"
  <2>1. Scan(t) = t
    BY <1>2 DEF Scan
  <2>2. QED BY <1>2, <2>1 DEF AtomScan
<1>3. CASE ~ AtEnd(t.next) /\ t.mode # "ended"
  <2>1. t.mode = "plain" /\ t.next = p + n /\ t.len = n + 1
    BY <1>3 DEF AtomScan
  <2>2. t.next \in 1 .. buffer.len
    BY <1>1, <1>3 DEF AtEnd
  <2>3. CharAt(t.next) # "\"" /\ CharAt(t.next) # "'" /\ CharAt(t.next) # ";"
    BY <2>2, PlainChar
  <2>4. Scan(t) \in ScanStates(p)
    BY <1>1, ScanType
  <2>5. CASE CharAt(t.next) \in Parentheses \cup Blanks
    <3>1. t.next # p
      BY <2>5
    <3>2. t.len > 1
      BY <1>1, <2>1, <3>1
    <3>3. Scan(t) = [t EXCEPT !.mode = "ended", !.len = t.len - 1, !.next = t.next]
      <4>1. CASE CharAt(t.next) \in Parentheses
        <5>1. ~ (CharAt(t.next) \in Blanks \cup {";"})
          BY <4>1 DEF Parentheses, Blanks
        <5>2. QED BY <1>3, <2>1, <2>3, <3>2, <4>1, <5>1 DEF Scan
      <4>2. CASE CharAt(t.next) \in Blanks
        <5>1. ~ (CharAt(t.next) \in Parentheses) /\ CharAt(t.next) \in Blanks \cup {";"}
          BY <4>2 DEF Parentheses, Blanks
        <5>2. QED BY <1>3, <2>1, <2>3, <4>2, <5>1 DEF Scan
      <4>3. QED BY <2>5, <4>1, <4>2
    <3>4. Scan(t).mode = "ended" /\ Scan(t).next = t.next
      BY <1>1, <3>3 DEF ScanStates
    <3>5. QED BY <1>1, <2>4, <2>5, <3>4 DEF AtomScan
  <2>6. CASE CharAt(t.next) \notin Parentheses \cup Blanks
    <3>1. Scan(t) = [next |-> t.next + 1, len |-> t.len + 1, mode |-> "plain",
                     parens |-> t.parens, prev |-> CharAt(t.next)]
      BY <1>3, <2>1, <2>3, <2>6 DEF Scan
    <3>2. Scan(t).mode = "plain" /\ Scan(t).next = p + (n + 1) /\ Scan(t).len = (n + 1) + 1
      BY <1>1, <2>1, <3>1
    <3>3. \A x \in p .. Scan(t).next - 1 : CharAt(x) \notin Parentheses \cup Blanks
      BY <1>1, <2>1, <2>6, <3>2
    <3>4. QED BY <2>4, <3>2, <3>3 DEF AtomScan
  <2>7. QED BY <2>5, <2>6
<1>4. QED BY <1>2, <1>3

LEMMA AtomEnd ==
    ASSUME BufferOK, Plain, NEW p \in 1 .. buffer.len, CharAt(p) \notin Parentheses \cup Blanks
    PROVE  /\ TokenEnd(p).next \in p + 1 .. buffer.len + 1
           /\ \A x \in p .. TokenEnd(p).next - 1 : CharAt(x) \notin Parentheses \cup Blanks
           /\ AtEnd(TokenEnd(p).next) \/ CharAt(TokenEnd(p).next) \in Parentheses \cup Blanks
<1>1. PICK f : ScansFrom(f, p) /\ Scanned(p) = f[buffer.len] /\ \A n \in Nat : f[n] \in ScanStates(p)
  BY Scans
<1>2. buffer.len \in Nat
  BY DEF BufferOK
<1> DEFINE N == {n \in Nat : AtomScan(f[n], p, n)}
<1>3. 0 \in N
  <2>1. f[0] = Begun(p)
    BY <1>1 DEF ScansFrom
  <2>2. f[0].mode = "plain" /\ f[0].next = p + 0 /\ f[0].len = 0 + 1
    BY <2>1 DEF Begun
  <2>3. QED BY <1>1, <2>2 DEF AtomScan
<1>4. ASSUME NEW n \in N PROVE n + 1 \in N
  <2>1. f[n + 1] = Scan(f[n])
    <3>1. n + 1 \in Nat /\ n + 1 # 0 /\ (n + 1) - 1 = n
      OBVIOUS
    <3>2. QED BY <1>1, <3>1 DEF ScansFrom
  <2>2. AtomScan(Scan(f[n]), p, n + 1)
    BY AtomStep
  <2>3. QED BY <2>1, <2>2
<1> HIDE DEF N
<1>5. N = Nat
  BY <1>3, <1>4, Induction DEF N
<1> DEFINE t == TokenEnd(p)
<1>6. AtomScan(t, p, buffer.len)
  BY <1>1, <1>2, <1>5 DEF N, TokenEnd
<1> HIDE DEF t
<1>7. t.next \in p .. buffer.len + 1 /\ \A x \in p .. t.next - 1 : CharAt(x) \notin Parentheses \cup Blanks
  BY <1>6 DEF AtomScan, ScanStates
<1>8. AtEnd(t.next) \/ CharAt(t.next) \in Parentheses \cup Blanks
  <2>1. CASE t.next = p + buffer.len
    BY <1>2, <2>1 DEF AtEnd
  <2>2. CASE t.next # p + buffer.len
    BY <1>6, <2>2 DEF AtomScan
  <2>3. QED BY <2>1, <2>2
<1>9. t.next # p
  BY <1>2, <1>8 DEF AtEnd
<1>10. QED BY <1>2, <1>7, <1>8, <1>9 DEF t

-----------------------------------------------------------------------------
(* Each step of the reader keeps the counts.                               *)

LEMMA ReadNext ==
    ASSUME NEW S, NEW q \in Seq(S), NEW e \in S
    PROVE  /\ e.token = <<")">> => ReadOf(Append(q, e)) = ReadOf(q)
           /\ e.token # <<")">> => Cardinality(ReadOf(Append(q, e))) = Cardinality(ReadOf(q)) + 1
<1> DEFINE r == Append(q, e)
<1>1. /\ Len(q) \in Nat /\ DOMAIN q = 1 .. Len(q) /\ DOMAIN r = 1 .. Len(q) + 1
      /\ r[Len(q) + 1] = e /\ \A n \in 1 .. Len(q) : r[n] = q[n]
  OBVIOUS
<1> HIDE DEF r
<1>2. e.token = <<")">> => ReadOf(r) = ReadOf(q)
  BY <1>1 DEF ReadOf
<1>3. ASSUME e.token # <<")">> PROVE Cardinality(ReadOf(r)) = Cardinality(ReadOf(q)) + 1
  <2>1. ReadOf(r) = ReadOf(q) \cup {Len(q) + 1}
    BY <1>1, <1>3 DEF ReadOf
  <2>2. IsFiniteSet(ReadOf(q)) /\ Len(q) + 1 \notin ReadOf(q)
    <3>1. IsFiniteSet(1 .. Len(q))
      BY <1>1, FS_Interval
    <3>2. ReadOf(q) \subseteq 1 .. Len(q)
      BY <1>1 DEF ReadOf
    <3>3. QED BY <1>1, <3>1, <3>2, FS_Subset
  <2>3. QED BY <2>1, <2>2, FS_AddElement
<1>4. QED BY <1>2, <1>3 DEF r

\* What is counted in a text does not change while it is read.
LEMMA SameCounts ==
    ASSUME UNCHANGED buffer
    PROVE  /\ Plain' = Plain
           /\ \A x : Wanted(x)' = Wanted(x) /\ Starts(x)' = Starts(x) /\ Due(x)' = Due(x) /\ Level(x)' = Level(x)
<1>1. \A x : CharAt(x)' = CharAt(x)
  BY SameText
<1>2. Plain' = Plain
  BY <1>1 DEF Plain
<1>3. \A c, x : Count(c, x)' = Count(c, x)
  BY <1>1 DEF Count
<1>4. \A x : Wanted(x)' = Wanted(x) /\ Level(x)' = Level(x)
  BY <1>3 DEF Wanted, Level
<1>5. \A x : Starts(x)' = Starts(x)
  BY <1>1 DEF Starts
<1>6. \A x : Due(x)' = Due(x)
  BY <1>4, <1>5 DEF Due
<1>7. QED BY <1>2, <1>4, <1>5, <1>6

\* The counts after a step that has read to z.
LEMMA CountsAt ==
    ASSUME UNCHANGED buffer, NEW z \in 1 .. buffer.len + 1, stream' = z,
           Cardinality(ReadOf(nodes')) = Cardinality(Due(z)),
           depth' > 0 => AtEnd(z) \/ (Wanted(z - 1) /\ depth' = Level(z - 1)),
           depth' = 0 => \A x \in z .. buffer.len : ~ Wanted(x),
           \/ z = 1 \/ AtEnd(z)
           \/ CharAt(z - 1) \in Parentheses \cup Blanks \/ CharAt(z) \in Parentheses \cup Blanks
    PROVE  CountsFit'
<1>1. /\ Due(z)' = Due(z) /\ Wanted(z - 1)' = Wanted(z - 1) /\ Level(z - 1)' = Level(z - 1)
      /\ \A x : Wanted(x)' = Wanted(x)
  BY SameCounts
<1>2. AtEnd(z)' = AtEnd(z) /\ CharAt(z)' = CharAt(z) /\ CharAt(z - 1)' = CharAt(z - 1)
  BY SameText
<1>3. /\ Due(stream)' = Due(z) /\ Wanted(stream - 1)' = Wanted(z - 1) /\ Level(stream - 1)' = Level(z - 1)
      /\ AtEnd(stream)' = AtEnd(z) /\ CharAt(stream)' = CharAt(z) /\ CharAt(stream - 1)' = CharAt(z - 1)
  BY <1>1, <1>2
<1>4. ReadOf(nodes)' = ReadOf(nodes') /\ buffer' = buffer
  BY DEF ReadOf
<1>5. QED BY <1>1, <1>3, <1>4 DEF CountsFit

LEMMA CountStarts ==
    ASSUME NEW filename, NEW text \in Texts, NEW beyond \in Texts, StartReading(filename, text, beyond)
    PROVE  CountOK'
<1>1. stream' = 1 /\ nodes' = <<>> /\ depth' = 1 /\ buffer'.len \in Nat
  BY DEF StartReading, Texts
<1>2. Cardinality({}) = 0
  BY FS_EmptySet
<1>3. ReadOf(nodes)' = {} /\ Due(stream)' = {}
  BY <1>1 DEF ReadOf, Due
<1>4. Wanted(stream - 1)'
  BY <1>1 DEF Wanted
<1>5. Level(stream - 1)' = 1
  <2>1. \A c : Count(c, stream - 1)' = Cardinality({})
    BY <1>1 DEF Count
  <2>2. QED BY <1>2, <2>1 DEF Level
<1>6. CountsFit'
  BY <1>1, <1>3, <1>4, <1>5 DEF CountsFit
<1>7. QED BY <1>1, <1>6 DEF CountOK

\* Before a token: only blanks have been passed since the one before it.
LEMMA BeforeToken ==
    ASSUME ReaderOK, CountOK, Plain, NEW p, p = Skip(stream), depth > 0, ~ AtEnd(p)
    PROVE  /\ p \in 1 .. buffer.len /\ buffer.len \in Nat /\ ~ (CharAt(p) \in Blanks)
           /\ Due(p) = Due(stream) /\ Wanted(p - 1) /\ depth = Level(p - 1)
           /\ p > 1 => CharAt(p - 1) \in Parentheses \cup Blanks \/ CharAt(p) \in Parentheses \cup Blanks
<1> DEFINE s == stream
<1>1. BufferOK /\ CountsFit /\ s \in 1 .. buffer.len + 1 /\ buffer.len \in Nat
  BY DEF ReaderOK, BufferOK, CountOK
<1>2. /\ p \in s .. buffer.len + 1 /\ \A x \in s .. p - 1 : CharAt(x) \in Blanks
      /\ p <= buffer.len => ~ (CharAt(p) \in Blanks)
  BY <1>1, PlainSkip
<1>3. p \in s .. buffer.len /\ s \in Nat /\ s >= 1
  BY <1>1, <1>2 DEF AtEnd
<1>4. ~ AtEnd(s)
  BY <1>1, <1>3 DEF AtEnd
<1>5. /\ Wanted(s - 1) /\ depth = Level(s - 1)
      /\ s = 1 \/ CharAt(s - 1) \in Parentheses \cup Blanks \/ CharAt(s) \in Parentheses \cup Blanks
  BY <1>1, <1>4 DEF CountsFit
<1> HIDE DEF s
<1>6. Wanted(p - 1) /\ Level(p - 1) = Level(s - 1)
  <2>1. s - 1 \in Nat /\ p - 1 \in Nat /\ s - 1 <= p - 1
    BY <1>3
  <2>2. ASSUME NEW y \in (s - 1) + 1 .. p - 1 PROVE ~ (CharAt(y) \in Parentheses)
    <3>1. CharAt(y) \in Blanks
      BY <1>2, <1>3
    <3>2. QED BY <3>1 DEF Blanks, Parentheses
  <2>3. QED BY <1>5, <2>1, <2>2, LevelSame
<1>7. Due(p) = Due(s)
  <2>1. ASSUME NEW x \in s .. p - 1 PROVE ~ Starts(x)
    <3>1. CharAt(x) \in Blanks
      BY <1>2
    <3>2. CharAt(x) # "("
      BY <3>1 DEF Blanks
    <3>3. QED BY <3>1, <3>2 DEF Starts
  <2>2. QED BY <1>3, <2>1, DueSame
<1>8. p > 1 => CharAt(p - 1) \in Parentheses \cup Blanks \/ CharAt(p) \in Parentheses \cup Blanks
  <2>1. CASE p = s
    BY <1>5, <2>1
  <2>2. CASE p # s
    <3>1. p - 1 \in s .. p - 1
      BY <1>3, <2>2
    <3>2. QED BY <1>2, <3>1
  <2>3. QED BY <2>1, <2>2
<1>9. QED BY <1>1, <1>2, <1>3, <1>5, <1>6, <1>7, <1>8 DEF s

\* What a parenthesis does to the level.
LEMMA LevelNext ==
    ASSUME NEW p \in Nat \ {0}, Wanted(p - 1), Level(p - 1) >= 1
    PROVE  /\ CharAt(p) = "(" => Level(p) = Level(p - 1) + 1 /\ Wanted(p)
           /\ CharAt(p) = ")" => Level(p) = Level(p - 1) - 1
           /\ CharAt(p) = ")" /\ Level(p) >= 1 => Wanted(p)
           /\ CharAt(p) = ")" /\ Level(p) < 1 => \A x \in Nat : x >= p => ~ Wanted(x)
<1> DEFINE o(x) == Count("(", x)
           c(x) == Count(")", x)
           q == p - 1
<1>1. q \in Nat /\ q + 1 = p /\ q <= p
  OBVIOUS
<1>2. o(q) \in Nat /\ c(q) \in Nat /\ o(p) \in Nat /\ c(p) \in Nat
  BY CountType
<1>3. CharAt(p) = "(" => o(p) = o(q) + 1 /\ c(p) = c(q)
  <2>1. ASSUME CharAt(p) = "(" PROVE o(p) = o(q) + 1 /\ c(p) = c(q)
    <3>1. Count("(", q + 1) = Count("(", q) + 1
      BY <1>1, <2>1, CountNext
    <3>2. \A y \in q + 1 .. p : CharAt(y) # ")"
      BY <2>1
    <3>3. QED BY <1>1, <3>1, <3>2, CountSame
  <2>2. QED BY <2>1
<1>4. CharAt(p) = ")" => c(p) = c(q) + 1 /\ o(p) = o(q)
  <2>1. ASSUME CharAt(p) = ")" PROVE c(p) = c(q) + 1 /\ o(p) = o(q)
    <3>1. Count(")", q + 1) = Count(")", q) + 1
      BY <1>1, <2>1, CountNext
    <3>2. \A y \in q + 1 .. p : CharAt(y) # "("
      BY <2>1
    <3>3. QED BY <1>1, <3>1, <3>2, CountSame
  <2>2. QED BY <2>1
<1>5. Level(p) = 1 + o(p) - c(p) /\ Level(q) = 1 + o(q) - c(q) /\ Level(q) >= 1
  BY DEF Level
<1>6. c(p) <= o(p) => Wanted(p)
  <2>1. \A y \in 1 .. p : y \in 1 .. q \/ y = p
    OBVIOUS
  <2>2. \A y \in 1 .. q : c(y) <= o(y)
    BY DEF Wanted
  <2>3. QED BY <2>1, <2>2 DEF Wanted
<1>7. c(p) > o(p) => \A x \in Nat : x >= p => ~ Wanted(x)
  <2>1. ASSUME c(p) > o(p), NEW x \in Nat, x >= p, Wanted(x) PROVE FALSE
    <3>1. c(p) <= o(p)
      BY <2>1 DEF Wanted
    <3> HIDE DEF o, c
    <3>2. QED BY <1>2, <2>1, <3>1
  <2>2. QED BY <2>1
<1> HIDE DEF o, c, q
<1>8. CharAt(p) = "(" => Level(p) = Level(q) + 1 /\ Wanted(p)
  BY <1>2, <1>3, <1>5, <1>6
<1>9. CharAt(p) = ")" => Level(p) = Level(q) - 1
  BY <1>2, <1>4, <1>5
<1>10. Level(p) >= 1 => Wanted(p)
  BY <1>2, <1>5, <1>6
<1>11. Level(p) < 1 => \A x \in Nat : x >= p => ~ Wanted(x)
  BY <1>2, <1>5, <1>7
<1>12. QED BY <1>8, <1>9, <1>10, <1>11 DEF q
LEMMA TokenCounted ==
    ASSUME ReaderOK, CountOK, ReadToken
    PROVE  CountOK'
<1> DEFINE node == create_node(TokenText(Skip(stream)), line_num + Newlines(stream, Skip(stream)))
<1>1. PICK p : p = Skip(stream)
  OBVIOUS
<1>2. PICK z : z = TokenEnd(p).next
  OBVIOUS
<1>3. /\ BufferOK /\ buffer.len \in Nat /\ stream \in 1 .. buffer.len + 1
      /\ depth \in Nat \ {0} /\ ~ AtEnd(p) /\ nodes \in Seq(ReaderNodes)
  BY <1>1 DEF ReaderOK, BufferOK, CountOK, ReadToken
<1>4. /\ stream' = z /\ UNCHANGED buffer
      /\ nodes' = (IF Kept(node) THEN Append(nodes, node) ELSE nodes)
      /\ depth' = IF node.token = <<"(">> THEN depth + 1 ELSE IF node.token = <<")">> THEN depth - 1 ELSE depth
  BY <1>1, <1>2 DEF ReadToken
<1>5. p \in stream .. buffer.len /\ p \in 1 .. buffer.len
  <2>1. p \in stream .. buffer.len + 1
    BY <1>1, <1>3, SkipType
  <2>2. QED BY <1>3, <2>1 DEF AtEnd
<1>6. z \in p .. buffer.len + 1 /\ z \in 1 .. buffer.len + 1
  BY <1>2, <1>3, <1>5, TokenEndType
<1>7. node.token = TokenText(p) /\ node \in ReaderNodes
  <2>1. TokenText(p) \in Texts
    BY <1>3, <1>5, TokenTextType
  <2>2. Newlines(stream, p) \in Nat
    <3>1. stream \in Int /\ p \in Int
      BY <1>3, <1>5
    <3>2. QED BY <3>1, NewlinesType
  <2>3. line_num + Newlines(stream, p) \in Int /\ cur_filename_index \in Int
    BY <2>2 DEF ReaderOK
  <2>4. QED BY <1>1, <1>3, <2>1, <2>3 DEF create_node, ReaderNodes
<1> HIDE DEF node
<1>8. SUFFICES ASSUME Plain PROVE CountsFit'
  <2>1. Plain' = Plain /\ buffer' = buffer
    BY <1>4, SameCounts
  <2>2. QED BY <1>4, <1>6, <2>1 DEF CountOK
<1>9. /\ ~ (CharAt(p) \in Blanks) /\ Due(p) = Due(stream) /\ Wanted(p - 1) /\ depth = Level(p - 1)
      /\ p > 1 => CharAt(p - 1) \in Parentheses \cup Blanks \/ CharAt(p) \in Parentheses \cup Blanks
  <2>1. depth > 0
    BY <1>3
  <2>2. QED BY <1>1, <1>3, <1>8, <2>1, BeforeToken
<1>10. Cardinality(ReadOf(nodes)) = Cardinality(Due(p))
  BY <1>8, <1>9 DEF CountOK, CountsFit
<1>11. p - 1 \in Nat /\ p \in Nat \ {0} /\ Level(p - 1) >= 1
  BY <1>3, <1>5, <1>9
<1>12. CASE CharAt(p) = "("
  <2>1. z = p + 1 /\ node.token = <<"(">>
    BY <1>2, <1>3, <1>5, <1>7, <1>12, ParenthesisScan, ParenthesisToken DEF Parentheses
  <2>2. Kept(node) /\ node.token # <<")">>
    <3>1. node.token # <<")">>
      BY <2>1
    <3>2. QED BY <3>1 DEF Kept
  <2>3. nodes' = Append(nodes, node) /\ depth' = depth + 1
    BY <1>4, <2>1, <2>2
  <2>4. Cardinality(ReadOf(nodes')) = Cardinality(ReadOf(nodes)) + 1
    BY <1>3, <1>7, <2>2, <2>3, ReadNext
  <2>5. Level(p) = Level(p - 1) + 1 /\ Wanted(p)
    BY <1>9, <1>11, <1>12, LevelNext
  <2>6. Starts(p)
    BY <1>12 DEF Starts
  <2>7. Cardinality(Due(z)) = Cardinality(Due(p)) + 1
    BY <1>11, <2>1, <2>5, <2>6, DueNext
  <2>8. z - 1 = p
    BY <1>11, <2>1
  <2>9. CharAt(z - 1) \in Parentheses \cup Blanks
    BY <1>12, <2>8 DEF Parentheses
  <2>10. depth' > 0 /\ depth' = Level(z - 1) /\ depth' # 0 /\ Wanted(z - 1)
    BY <1>3, <1>9, <2>3, <2>5, <2>8
  <2>11. QED BY <1>4, <1>6, <1>10, <2>4, <2>7, <2>9, <2>10, CountsAt
<1>13. CASE CharAt(p) = ")"
  <2>1. z = p + 1 /\ node.token = <<")">>
    BY <1>2, <1>3, <1>5, <1>7, <1>13, ParenthesisScan, ParenthesisToken DEF Parentheses
  <2>2. depth' = depth - 1
    BY <1>4, <2>1
  <2>3. ReadOf(nodes') = ReadOf(nodes)
    <3>1. ReadOf(Append(nodes, node)) = ReadOf(nodes)
      BY <1>3, <1>7, <2>1, ReadNext
    <3>2. QED BY <1>4, <3>1
  <2>4. ~ Starts(p)
    BY <1>13 DEF Starts, Parentheses
  <2>5. Due(z) = Due(p)
    <3>1. p \in Nat /\ z \in Nat /\ p <= z /\ \A x \in p .. z - 1 : x = p
      BY <1>11, <2>1
    <3>2. QED BY <2>4, <3>1, DueSame
  <2>6. z - 1 = p
    BY <1>11, <2>1
  <2>7. CharAt(z - 1) \in Parentheses \cup Blanks
    BY <1>13, <2>6 DEF Parentheses
  <2>8. depth' = Level(p)
    BY <1>9, <1>11, <1>13, <2>2, LevelNext
  <2>9. depth' > 0 => Wanted(z - 1) /\ depth' = Level(z - 1)
    <3>1. ASSUME depth' > 0 PROVE Wanted(p)
      <4>1. Level(p) >= 1
        BY <1>3, <2>2, <2>8, <3>1
      <4>2. QED BY <1>9, <1>11, <1>13, <4>1, LevelNext
    <3>2. QED BY <2>6, <2>8, <3>1
  <2>10. depth' = 0 => \A x \in z .. buffer.len : ~ Wanted(x)
    <3>1. ASSUME depth' = 0, NEW x \in z .. buffer.len PROVE ~ Wanted(x)
      <4>1. Level(p) < 1
        BY <2>8, <3>1
      <4>2. x \in Nat /\ x >= p
        BY <1>3, <1>11, <2>1, <3>1
      <4>3. QED BY <1>9, <1>11, <1>13, <4>1, <4>2, LevelNext
    <3>2. QED BY <3>1
  <2>11. QED BY <1>4, <1>6, <1>10, <2>3, <2>5, <2>7, <2>9, <2>10, CountsAt
<1>14. CASE ~ (CharAt(p) \in Parentheses)
  <2>1. ~ (CharAt(p) \in Parentheses \cup Blanks)
    BY <1>9, <1>14
  <2>2. /\ z \in p + 1 .. buffer.len + 1
        /\ \A x \in p .. z - 1 : ~ (CharAt(x) \in Parentheses \cup Blanks)
        /\ AtEnd(z) \/ CharAt(z) \in Parentheses \cup Blanks
    BY <1>2, <1>3, <1>5, <1>8, <2>1, AtomEnd
  <2>3. node.token # <<"(">> /\ node.token # <<")">>
    <3>1. ASSUME NEW c \in Parentheses, node.token = <<c>> PROVE FALSE
      <4>1. CharAt(p) = c
        BY <1>3, <1>5, <1>7, <3>1, OneCharacter
      <4>2. QED BY <1>14, <4>1
    <3>2. QED BY <3>1 DEF Parentheses
  <2>4. nodes' = Append(nodes, node) /\ depth' = depth
    BY <1>4, <2>3 DEF Kept
  <2>5. Cardinality(ReadOf(nodes')) = Cardinality(ReadOf(nodes)) + 1
    BY <1>3, <1>7, <2>3, <2>4, ReadNext
  <2>6. Starts(p)
    BY <1>9, <2>1 DEF Starts
  <2>7. ASSUME NEW x \in p + 1 .. z - 1 PROVE ~ Starts(x)
    <3>1. x - 1 \in p .. z - 1 /\ x \in p .. z - 1 /\ x > 1
      BY <1>3, <1>5, <1>6
    <3>2. ~ (CharAt(x) \in Parentheses \cup Blanks) /\ ~ (CharAt(x - 1) \in Parentheses \cup Blanks)
      BY <2>2, <3>1
    <3>3. QED BY <3>1, <3>2 DEF Starts, Parentheses
  <2>8. ASSUME NEW w \in p .. z - 1 PROVE Level(w) = Level(p - 1) /\ Wanted(w)
    <3>1. w \in Nat /\ p - 1 <= w
      BY <1>3, <1>5
    <3>2. ASSUME NEW y \in (p - 1) + 1 .. w PROVE CharAt(y) \notin Parentheses
      <4>1. y \in p .. z - 1
        BY <1>3, <1>5, <1>6
      <4>2. QED BY <2>2, <4>1
    <3>3. QED BY <1>9, <1>11, <3>1, <3>2, LevelSame
  <2>9. p \in p .. z - 1 /\ z - 1 \in p .. z - 1 /\ z \in Nat /\ p < z
    BY <1>3, <1>5, <2>2
  <2>10. Cardinality(Due(z)) = Cardinality(Due(p)) + 1
    BY <1>11, <2>6, <2>7, <2>8, <2>9, DueNext
  <2>11. depth' > 0 /\ depth' # 0 /\ depth' = Level(z - 1) /\ Wanted(z - 1)
    BY <1>3, <1>9, <2>4, <2>8, <2>9
  <2>12. QED BY <1>4, <1>6, <1>10, <2>2, <2>5, <2>10, <2>11, CountsAt
<1>15. QED BY <1>12, <1>13, <1>14 DEF Parentheses

LEMMA ReturnCounted ==
    ASSUME ReaderOK, CountOK, Return
    PROVE  CountOK'
<1>1. PICK z : z = Skip(stream)
  OBVIOUS
<1>2. /\ BufferOK /\ buffer.len \in Nat /\ stream \in 1 .. buffer.len + 1 /\ AtEnd(z)
      /\ stream' = z /\ UNCHANGED <<buffer, nodes>>
  BY <1>1 DEF ReaderOK, BufferOK, CountOK, Return
<1>3. z \in stream .. buffer.len + 1 /\ z \in 1 .. buffer.len + 1
  BY <1>1, <1>2, SkipType
<1>4. SUFFICES ASSUME Plain PROVE CountsFit'
  <2>1. Plain' = Plain /\ buffer' = buffer
    BY <1>2, SameCounts
  <2>2. QED BY <1>2, <1>3, <2>1 DEF CountOK
<1>5. Due(z) = Due(stream)
  <2>1. ASSUME NEW x \in stream .. z - 1 PROVE ~ Starts(x)
    <3>1. CharAt(x) \in Blanks
      BY <1>1, <1>2, <1>4, <2>1, PlainSkip
    <3>2. CharAt(x) # "("
      BY <3>1 DEF Blanks
    <3>3. QED BY <3>1, <3>2 DEF Starts
  <2>2. stream \in Nat /\ z \in Nat /\ stream <= z
    BY <1>2, <1>3
  <2>3. QED BY <2>1, <2>2, DueSame
<1>6. Cardinality(ReadOf(nodes')) = Cardinality(Due(z))
  BY <1>2, <1>4, <1>5 DEF CountOK, CountsFit
<1>7. \A x \in z .. buffer.len : ~ Wanted(x)
  BY <1>2, <1>3 DEF AtEnd
<1>8. QED BY <1>2, <1>3, <1>6, <1>7, CountsAt

LEMMA CountKept ==
    ASSUME CountOK, UNCHANGED streamVars
    PROVE  CountOK'
<1>1. stream' = stream /\ nodes' = nodes /\ depth' = depth /\ buffer' = buffer
  BY DEF streamVars
<1>2. Plain' = Plain /\ stream \in 1 .. buffer.len + 1
  BY <1>1, SameCounts DEF CountOK
<1>3. ASSUME CountsFit PROVE CountsFit'
  BY <1>1, <1>2, <1>3, CountsAt DEF CountsFit
<1>4. QED BY <1>1, <1>2, <1>3 DEF CountOK

-----------------------------------------------------------------------------

LEMMA CountStarted ==
    ASSUME Init
    PROVE  CountOK
<1>1. stream = 1 /\ nodes = <<>> /\ depth = 0 /\ buffer.len = 0
  BY DEF Init, ReaderInit
<1>2. ReadOf(nodes) = {} /\ Due(stream) = {}
  BY <1>1 DEF ReadOf, Due
<1>3. QED BY <1>1, <1>2 DEF CountOK, CountsFit

\* A program is read from a text that the host gives or from one of its files.
LEMMA ReadCalls ==
    ASSUME eng_read_string \/ eng_read_file \/ ImportFound, IInv
    PROVE  \/ UNCHANGED streamVars
           \/ \E filename : \E text, beyond \in Texts : StartReading(filename, text, beyond)
<1>1. CASE eng_read_string
  <2>1. Argument \in Texts
    <3>1. PICK c \in HostCalls(calls) : c.name \in Texts /\ calls' = Append(calls, c)
      BY <1>1 DEF eng_read_string, Calls
    <3>2. Argument = c.name
      <4>1. calls \in Seq(Range(calls))
        BY DEF IInv, FatesOK
      <4>2. Last(Append(calls, c)) = c
        BY <4>1, AppendSeq
      <4>3. QED BY <3>1, <4>2 DEF Argument
    <3>3. QED BY <3>1, <3>2
  <2>2. <<>> \in Texts
    BY DEF Texts
  <2>3. StartReading(Argument, Argument, <<>>)
    BY <1>1 DEF eng_read_string, reader_read_string
  <2>4. PICK text : text = Argument
    OBVIOUS
  <2>5. QED BY <2>1, <2>2, <2>3, <2>4
<1>2. ASSUME NEW filename \in DOMAIN SourceFiles, reader_read_file(filename)
      PROVE  \E text, beyond \in Texts : StartReading(filename, text, beyond)
  BY <1>2, EngineAssumption DEF reader_read_file
<1>3. CASE eng_read_file
  <2>1. CASE UNCHANGED readerVars
    BY <2>1 DEF readerVars
  <2>2. CASE Argument \in DOMAIN SourceFiles /\ reader_read_file(Argument)
    <3>1. PICK filename : filename = Argument
      OBVIOUS
    <3>2. QED BY <1>2, <2>2, <3>1
  <2>3. QED BY <1>3, <2>1, <2>2 DEF eng_read_file
<1>4. CASE ImportFound
  <2>1. CASE UNCHANGED readerVars
    BY <2>1 DEF readerVars
  <2>2. CASE found # NotFound /\ reader_read_file(Path(found))
    <3>1. Path(found) \in DOMAIN SourceFiles
      BY <2>2, EngineAssumption DEF IInv, FoundOK
    <3>2. QED BY <1>2, <2>2, <3>1
  <2>3. QED BY <1>4, <2>1, <2>2 DEF ImportFound
<1>5. QED BY <1>1, <1>3, <1>4

LEMMA CountInvariance == Spec => []CountOK
<1>1. Init => CountOK
  BY CountStarted
<1>2. IInv /\ CountOK /\ [Next]_vars => CountOK'
  <2> SUFFICES ASSUME IInv, CountOK, [Next]_vars PROVE CountOK'
    OBVIOUS
  <2>1. ReaderOK
    BY DEF IInv
  <2>2. CASE UNCHANGED streamVars
    BY <2>2, CountKept
  <2>3. CASE eng_read_string \/ eng_read_file \/ ImportFound
    BY <2>2, <2>3, ReadCalls, CountStarts
  <2>4. CASE Invoke
    BY <2>1, <2>4, TokenCounted, ReturnCounted DEF Invoke
  <2>5. CASE semblis_init \/ eng_read_default_config \/ eng_read_config_file
             \/ AddOutputFunc \/ AddSearchDir \/ RemSearchDir \/ Import \/ semblis_shutdown
    <3>1. UNCHANGED streamVars
      BY <2>5 DEF semblis_init, eng_read_default_config, eng_read_config_file, AddOutputFunc, AddSearchDir,
         RemSearchDir, Import, semblis_shutdown, destroy_filenames, readerVars
    <3>2. QED BY <2>2, <3>1
  <2>6. CASE ReadLine \/ NextSection \/ process_core_property \/ process_library_property \/ EndConfig
             \/ EvalInit \/ Classify \/ Rest \/ UNCHANGED vars
    <3>1. UNCHANGED streamVars
      BY <2>6 DEF ReadLine, NextSection, process_core_property, process_library_property, Include, Definition,
         LibraryProperty, EndConfig, EvalInit, Classify, Rest, vars, readerVars
    <3>2. QED BY <2>2, <3>1
  <2>7. QED BY <2>3, <2>4, <2>5, <2>6 DEF Next, Call, Work
<1>3. QED BY <1>1, <1>2, EngineInvariance, PTL DEF Spec

\* Of a text without quotes and comments, whatever its parentheses, all that
\* stands before the first parenthesis too many has its node.
THEOREM NothingLostCorrect == Spec => []NothingLost
<1>1. IInv /\ CountOK => NothingLost
  <2> SUFFICES ASSUME IInv, CountOK, HasRead, Plain
               PROVE  Cardinality({n \in DOMAIN nodes : nodes[n].token # <<")">>})
                          = Cardinality({x \in 1 .. buffer.len : Starts(x) /\ Wanted(x)})
    BY DEF NothingLost
  <2>1. depth = 0
    BY DEF IInv, ReaderOK, FatesOK, HasRead
  <2>2. /\ stream \in 1 .. buffer.len + 1 /\ buffer.len \in Nat
        /\ Cardinality(ReadOf(nodes)) = Cardinality(Due(stream))
        /\ \A x \in stream .. buffer.len : ~ Wanted(x)
    BY <2>1 DEF CountOK, CountsFit, IInv, ReaderOK, BufferOK
  <2>3. Due(stream) = {x \in 1 .. buffer.len : Starts(x) /\ Wanted(x)}
    BY <2>2 DEF Due
  <2>4. QED BY <2>2, <2>3 DEF ReadOf
<1>2. QED BY <1>1, CountInvariance, EngineInvariance, PTL
=============================================================================
