------------------------------ MODULE MCEngine ------------------------------
(***************************************************************************)
(* Sessions for TLC: every short text, written programs, configurations    *)
(* with includes, good and ill written, and search directories.            *)
(***************************************************************************)
EXTENDS Sessions, FiniteSetsExt

Made(op, name, spelled, means, lines) ==
    [op |-> op, name |-> name, spelled |-> spelled, means |-> means, lines |-> lines]
Plainly(op, name) == Made(op, name, FALSE, <<>>, <<>>)
Boot == Plainly("semblis_init", <<>>)

-----------------------------------------------------------------------------
(* Programs.                                                                *)

Number1 == Atom(<<"1">>, NumberNode(<<1, 0>>))
Decimal == Atom(<<"-", "1", ".", "5">>, NumberNode(<<-15, 1>>))
Name == Atom(<<"a">>, TextNode("variable", <<"a">>))
Minus == Atom(<<"-">>, TextNode("variable", <<"-">>))
Phrase == Atom(<<"\"", "a", ")", ";", "\"">>, TextNode("string", <<"a", ")", ";">>))
QuotedText == Atom(<<"\"", "\\", "\"", " ", "\"">>, TextNode("string", <<"\"", " ">>))
Symbol == Atom(<<"'", "a">>, TextNode("symbol", <<"a">>))
Code == Atom(<<"'", "(", "a", " ", "(", ")", ")">>, TextNode("symbol", <<"(", "a", " ", "(", ")", ")">>))
Atoms == {Number1, Decimal, Name, Minus, Phrase, QuotedText, Symbol, Code}
Items == Atoms \cup {Sublist(<<>>)}

Programs ==
    {<<a>> : a \in Items} \cup {<<Sublist(<<a, b>>)>> : a, b \in Items}
      \cup {<<Sublist(<<a, Sublist(<<b, Sublist(<<Name>>)>>), Name>>), a>> : a, b \in {Name, Phrase, Code, Sublist(<<>>)}}

Separators ==
    {<<>>, <<"\t", " ">>, <<"\n">>, <<" ", ";", ")", "\n">>, <<"\n", ";", "(", "\"", "\n", " ", ";", ";", "\n", "\n">>}

Written(items, sep) == Joined(Tokens(items), sep)
Spelled(op, name, items, sep) == Made(op, name, TRUE, Meant(items, 1), NodeLines(Tokens(items), sep))
SpelledText(items, sep) == Spelled("eng_read_string", Written(items, sep), items, sep)

\* A file ends with a newline, unless its last atom or list has a mark at its end.
SpelledFiles(items, sep) ==
    LET text == Written(items, sep)
        ends == {<<"\n">>} \cup (IF Last(text) \in {")", "\""} THEN {<<>>} ELSE {})
    IN  {Spelled("eng_read_file", <<"file">> \o text \o end, items, sep) : end \in ends}
SpelledReads ==
    {SpelledText(items, sep) : items \in Programs, sep \in Separators}
      \cup UNION {SpelledFiles(items, sep) : items \in Programs, sep \in {<<>>, <<"\n">>}}

Alphabet == {"a", "\"", "'", "(", ")", "\n", ";", "\\"}
ShortTexts == UNION {[1..n -> Alphabet] : n \in 0..3} \cup [1..5 -> {"a", "(", ")"}]
ShortReads ==
    {Plainly("eng_read_string", text) : text \in ShortTexts}
      \cup {Plainly("eng_read_file", <<"file">> \o text) : text \in UNION {[1..n -> Alphabet] : n \in 0..2}}

\* A program after another, whose lines and name must not be its own.
Before == Plainly("eng_read_string", <<"(", "\n", "a">>)
Missing == Plainly("eng_read_file", <<"none">>)
Stop == Plainly("semblis_shutdown", <<>>)

-----------------------------------------------------------------------------
(* Search directories.                                                      *)

Lib == <<"lib">>
Own == <<"own">>
MCDirs == {Lib, Own}
MCFiles == {<<"a">>, <<"b">>}
MCHas == (Lib :> MCFiles) @@ (Own :> {<<"a">>})
DirCalls ==
    {Plainly("eng_add_search_dir", d) : d \in MCDirs} \cup {Plainly("eng_rem_search_dir", d) : d \in MCDirs}
Imports == {Plainly("import", f) : f \in MCFiles}

MCSourceFiles ==
    [p \in {Path(<<d, f>>) : d \in MCDirs, f \in MCFiles} |-> <<"(", "a", ")">>]
      @@ [n \in {r.name : r \in {s \in SpelledReads \cup ShortReads : s.op = "eng_read_file"}} |-> Tail(n)]
MCGarbage == {<<>>, <<"a">>, <<")">>}

\* Another session: the program in file a is one number, and nothing follows it.
UnendedFiles == [p \in {Path(<<d, f>>) : d \in MCDirs, f \in MCFiles} |-> Written(<<Number1>>, <<>>)]
NoConfigFiles == <<>>
UnendedCalls(made) ==
    CASE made = <<>> -> {Boot}
      [] made = <<Boot>> -> {Plainly("eng_add_search_dir", Lib)}
      [] OTHER -> {Spelled("import", <<"a">>, <<Number1>>, <<>>)}

-----------------------------------------------------------------------------
(* Configurations.                                                          *)

MCLibraries == (<<"plugin.so">> :> {<<"f">>, <<"g">>}) @@ (<<"other.so">> :> {<<"f">>})
MCNumerals == ("100000" :> 100000) @@ ("4096" :> 4096) @@ ("12" :> 12)
MCDefault == <<"semblis.cfg">>

Core == <<Remark(<<"about", " ", "it">>), Header("SemblisCore"),
          Assign("BlocksUntilGarbageCollection", <<"100000">>),
          Assign("EnvironmentsUntilGarbageCollection", <<"12">>),
          Assign("ShowEngineStats", <<"No">>), Remark(<<"x", "=", "y">>),
          Assign("ShowGarbageCollectionStats", <<"T">>),
          Assign("StandardOutputFunction", <<"custom">>),
          Assign("KillWhenErrorHit", <<"yes">>)>>
Plugin == <<Header("LibraryDefinition"), Assign("Module", <<"str">>), Assign("File", <<"plugin.so">>),
            Assign("Definition", <<"+", ",", " ", "f">>), Assign("Definition", <<"num", " ", ",", "g">>),
            Assign("Definition", <<"alone">>), Assign("Definition", <<"gone", ",", "h">>)>>
Other == <<Header("LibraryDefinition"), Assign("File", <<"other.so">>), Assign("Module", <<"None">>),
           Assign("Definition", <<"num", ",", "f">>), Assign("Unknown", <<"12">>)>>
Switch == <<Header("SemblisCore"), Assign("KillWhenErrorHit", <<"false">>),
            Assign("ErrorOutputFunction", <<"custom">>), Assign("EnvironmentsUntilGarbageCollection", <<"4096">>),
            Header("Elsewhere"), Assign("KillWhenErrorHit", <<"y">>)>>
Includes(names) == <<Header("LibraryDefinition")>> \o [n \in DOMAIN names |-> Assign("Include", <<names[n]>>)]

\* Ill written: no header, a module that is gone, and a name that is empty.
NoHeader == <<Assign("KillWhenErrorHit", <<"No">>)>>
LateDefinition == <<Header("LibraryDefinition"), Assign("Include", <<"plugin.cfg">>),
                    Assign("Definition", <<"late", ",", "f">>)>>
NoName == Plugin \o <<Assign("Definition", <<"f", ",", " ">>)>>
NoValue == <<Header("SemblisCore"), Assign("ShowEngineStats", <<>>), Assign("KillWhenErrorHit", <<"No">>),
             Remark(<<>>), Assign("ErrorOutputFunction", <<"custom">>)>>

MCConfigLines ==
    (<<"plugin.cfg">> :> Plugin) @@ (<<"other.cfg">> :> Other) @@ (<<"switch.cfg">> :> Switch)
      @@ (<<"both.cfg">> :> Includes(<<"other.cfg", "plugin.cfg">>) \o Other)
      @@ (<<"noheader.cfg">> :> NoHeader) @@ (<<"late.cfg">> :> LateDefinition)
      @@ (<<"noname.cfg">> :> NoName) @@ (<<"novalue.cfg">> :> NoValue)
      @@ (MCDefault :> Core \o Includes(<<"plugin.cfg", "switch.cfg", "missing.cfg">>))
Loosely == {<<"plugin.cfg">>, <<"switch.cfg">>, MCDefault}
MCConfigFiles ==
    FoldSet(LAMBDA name, files : (name :> ConfigText(MCConfigLines[name], name \in Loosely)) @@ files,
            <<>>, DOMAIN MCConfigLines)

ConfigCalls == {Plainly("eng_read_config_file", name) : name \in DOMAIN MCConfigLines \ {MCDefault}}
                 \cup {Plainly("eng_read_default_config", <<>>)}
Custom == Plainly("eng_add_output_func", <<"custom">>)

-----------------------------------------------------------------------------
(* The host: it may add its output function before or after it starts the   *)
(* engine, and then reads once or twice, or configures once or twice, or    *)
(* changes its directories five times and imports.                          *)

MCHostCalls(made) ==
    LET n == Len(made)
        since == {made[k] : k \in {k \in 1..n : \E b \in 1..(k - 1) : made[b] = Boot}}
    IN  CASE n = 0 -> {Boot, Custom}
          [] made = <<Custom>> -> {Boot}
          [] since = {} /\ Custom \in ToSet(made) -> ConfigCalls
          [] since = {} -> SpelledReads \cup ShortReads \cup DirCalls \cup Imports \cup ConfigCalls \cup {Before, Custom, Stop}
          [] since = {Before} -> IF n = 2 THEN SpelledReads \cup {Before, Missing} ELSE {Missing}
          [] since = {Custom} -> ConfigCalls
          [] since # {} /\ since \subseteq DirCalls -> IF n < 6 THEN DirCalls \cup Imports ELSE Imports
          [] since # {} /\ since \subseteq ConfigCalls \cup {Custom} /\ n < 4 -> ConfigCalls
          [] Missing \in since -> {Stop}
          [] OTHER -> {}
=============================================================================
