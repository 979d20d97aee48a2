------------------------------ MODULE Sessions ------------------------------
(***************************************************************************)
(* What the engine makes of a session, compared with what the authors of   *)
(* its programs and configurations meant by them.                          *)
(***************************************************************************)
EXTENDS Engine, Writing

CONSTANT ConfigLines   \* what the authors of ConfigFiles wrote, line by line

\* However a program is spaced and commented, what is read is what its author
\* meant, and every node says the line it stands on, whatever was read before
\* (reader.c, classifier.c).  It may stand in a text, or in a file that does not
\* end with a name, a number or a plain symbol: to such an atom the reader adds
\* what lies behind the buffer, so a newline must end the file.
ReadsAsSpelled ==
    HasRead /\ call.spelled =>
        /\ program = call.means
        /\ [n \in DOMAIN nodes |-> nodes[n].line_num] = call.lines

-----------------------------------------------------------------------------
(* Configurations.                                                          *)

\* The words that semblis.cfg lists as true, in any case.
TrueWords == {"y", "Y", "yes", "Yes", "YES", "t", "T", "true", "True", "TRUE"}

MeantSetting(st, key, value) ==
    LET word == IF value = <<>> THEN "" ELSE Head(value)
        n == IF word \in DOMAIN atoi THEN atoi[word] ELSE 0
        output == IF word \in st.outputs THEN word ELSE "console"
    IN  CASE key = "BlocksUntilGarbageCollection" -> "max_num_blocks" :> (IF n > MinBlocks THEN n ELSE MinBlocks)
          [] key = "EnvironmentsUntilGarbageCollection" -> "max_num_environments" :> (IF n > MinEnvs THEN n ELSE MinEnvs)
          [] key = "ShowEngineStats" -> "show_engine_stats" :> (word \in TrueWords)
          [] key = "ShowGarbageCollectionStats" -> "show_garbage_collection_stats" :> (word \in TrueWords)
          [] key = "KillWhenErrorHit" -> "kill_if_error" :> (word \in TrueWords)
          [] key = "StandardOutputFunction" -> "output_std_func" :> output
          [] key = "ErrorOutputFunction" -> "output_err_func" :> output
          [] OTHER -> <<>>

\* A file read after state st: each line acts on what the lines before it say,
\* a property that is in no section does nothing, and an Include stands for the
\* lines of the other file.
RECURSIVE ConfigMeaning(_, _), LinesMeaning(_, _)
LineMeaning(s, line) ==
    LET key == line.name[1]
        Defined(words) ==
            IF Len(words) = 2 /\ <<words[2]>> \in Libraries[s.library]
            THEN [s EXCEPT !.functions =
                    ((IF s.module = <<"None">> THEN <<>> ELSE s.module \o <<":">>) \o <<words[1]>>)
                        :> <<s.library, <<words[2]>>>> @@ @]
            ELSE s
    IN  CASE line.kind = "section" -> [s EXCEPT !.section = key]
          [] line.kind = "comment" -> s
          [] line.kind = "property" /\ s.section = "SemblisCore" ->
                 [s EXCEPT !.settings = MeantSetting(s, key, line.value) @@ @]
          [] line.kind = "property" /\ s.section = "LibraryDefinition" ->
                 CASE key = "Include" -> [ConfigMeaning(s, line.value) EXCEPT !.section = s.section]
                   [] key = "Module" -> [s EXCEPT !.module = line.value]
                   [] key = "File" /\ line.value \in DOMAIN Libraries -> [s EXCEPT !.library = line.value]
                   [] key = "Definition" ->
                          Defined(SelectSeq(line.value, LAMBDA w : w \notin Spaces \cup {","}))
                   [] OTHER -> s
          [] OTHER -> s
LinesMeaning(s, lines) ==
    CASE lines = <<>> -> s
      [] s.section = "" /\ lines # <<>> /\ Head(lines).kind = "property" -> LinesMeaning(s, Tail(lines))
      [] OTHER -> LinesMeaning(LineMeaning(s, Head(lines)), Tail(lines))
ConfigMeaning(st, name) ==
    IF name \in DOMAIN ConfigLines THEN LinesMeaning(st, ConfigLines[name]) ELSE st

\* What the calls made so far should have led to.
MeantBy(st, c) ==
    CASE c.op = "eng_add_output_func" -> [st EXCEPT !.outputs = @ \cup {Word(c.name)}]
      [] c.op = "semblis_init" -> ConfigMeaning(st, DefaultConfig)
      [] c.op = "eng_read_default_config" -> ConfigMeaning(st, DefaultConfig)
      [] c.op = "eng_read_config_file" -> ConfigMeaning(st, c.name)
      [] OTHER -> st
NothingYet == [settings |-> Defaults, functions |-> <<>>, library |-> NoLibrary, module |-> <<>>,
               section |-> "", outputs |-> {"console"}]
MeaningOfCalls(made) == FoldLeft(MeantBy, NothingYet, made)

\* Every file that the calls so far may read, directly or by an Include.
RECURSIVE Reads(_, _)
Reads(names, nested) ==
    LET lines == UNION {ToSet(ConfigLines[name]) : name \in names \cap DOMAIN ConfigLines}
        included == {line.value : line \in {l \in lines : l.name = <<"Include">>}}
    IN  IF nested = 0 THEN names ELSE Reads(names \cup included, nested - 1)
SessionFiles == Reads({DefaultConfig} \cup
                      {c.name : c \in {d \in ToSet(calls) : d.op = "eng_read_config_file"}}, 2)
AllWellWritten == \A name \in SessionFiles \cap DOMAIN ConfigLines : WellWritten(ConfigLines[name])

\* After every call the settings and the foreign functions are what the lines of
\* all the configurations say, in order, each Include in its place.
ConfigAsWritten ==
    fate = "idle" /\ AllWellWritten =>
        LET meant == MeaningOfCalls(calls)
        IN  settings = meant.settings /\ functions = meant.functions

\* The evaluator runs with what the default configuration and its includes say.
EvaluatorConfigured ==
    fate = "idle" /\ AllWellWritten =>
        \A n \in DOMAIN calls : calls[n].op = "semblis_init" =>
            LET meant == MeaningOfCalls(SubSeq(calls, 1, n)).settings
            IN  /\ eval_settings.max_num_blocks = meant.max_num_blocks
                /\ eval_settings.max_num_environments = meant.max_num_environments
                /\ eval_settings.kill_if_error = meant.kill_if_error

\* Well-written files never lead to the failing assert, to a section of a
\* destroyed Config, or to a freed module name.
NothingUndefined == fate \in {"aborted", "undefined"} => ~AllWellWritten
=============================================================================
