------------------------------- MODULE Engine -------------------------------
(***************************************************************************)
(* engine.c: a host starts the engine, has it read configurations and      *)
(* programs, sets its search directories and shuts it down.  It composes   *)
(* the reader, the configuration, the library loader and the search        *)
(* directories; what is read is evaluated by module Evaluator.             *)
(***************************************************************************)
EXTENDS Reader, Classifier, Config, LibLoader, SearchDirs

CONSTANTS HostCalls(_),  \* what the host may call, [op, name, ...], after some calls
          SourceFiles,   \* the text of each file a program can be read from; they
                         \* contain what can be opened in the directories
          ConfigFiles,   \* the text of each configuration file
          DefaultConfig,
          Garbage,       \* what may lie behind the buffer of a file
          atoi           \* the words that are numerals, and their values

Texts == Seq(STRING)

Path(hit) == hit[1] \o <<"/">> \o hit[2]

ASSUME EngineAssumption ==
    /\ \A name \in DOMAIN SourceFiles : SourceFiles[name] \in Texts
    /\ \A name \in DOMAIN ConfigFiles : ConfigFiles[name] \in Texts
    /\ \A text \in Garbage : text \in Texts
    /\ \A word \in DOMAIN atoi : atoi[word] \in Int
    /\ \A name \in Dirs \cup Files : name \in Texts
    /\ \A dir \in Dirs : \A file \in Files \cap Has[dir] : Path(<<dir, file>>) \in DOMAIN SourceFiles

VARIABLES calls,    \* the calls the host has made
          fate,     \* "off", "booting", "idle", "in call", "reading", "found",
                    \* "aborted", "undefined" or "shut down"
          jobs,     \* the configurations being read, each included by the one before
          settings,        \* engine.c's variables
          eval_settings,   \* what the evaluator and its tables keep of them
          output_functions,
          program   \* what was read last, classified

engineVars == <<calls, fate, jobs, settings, eval_settings, output_functions, program>>
vars == <<engineVars, readerVars, configVars, libVars, dirVars>>

call == Last(calls)

MinBlocks == 50000
MinEnvs == 2048
Defaults ==
    [max_num_blocks |-> MinBlocks, max_num_environments |-> MinEnvs, show_engine_stats |-> TRUE,
     show_garbage_collection_stats |-> FALSE, output_std_func |-> "console",
     output_err_func |-> "console", kill_if_error |-> TRUE]

\* eval_init keeps the sizes of the tables and kill_if_error; what else eng_get_prop
\* tells is asked for again each time.
KeptSettings == {"max_num_blocks", "max_num_environments", "kill_if_error"}
KeptBy(all) == [key \in KeptSettings |-> all[key]]

Init ==
    /\ calls = <<>>
    /\ fate = "off" /\ jobs = <<>>
    /\ settings = Defaults
    /\ eval_settings = [max_num_blocks |-> 0, max_num_environments |-> 0, kill_if_error |-> FALSE]
    /\ output_functions = <<>> /\ program = <<>>
    /\ ReaderInit /\ ConfigInit /\ LibInit /\ DirsInit

\* The host calls op, with a text or a name; it makes no other call while one is running.
Calls(op) ==
    /\ fate \in {"off", "idle"}
    /\ \E c \in HostCalls(calls) : c.op = op /\ c.name \in Texts /\ calls' = Append(calls, c)
Argument == Last(calls').name
Fate(f) == fate' = f /\ UNCHANGED calls

-----------------------------------------------------------------------------
(* Values.                                                                  *)

Word(value) == FoldLeft(LAMBDA text, w : text \o w, "", value)
\* Fault: the smallest size allowed is not looked at.
AtLeastUnchecked(least, value) ==
    IF value # <<>> /\ Head(value) \in DOMAIN atoi THEN atoi[Head(value)] ELSE 0

\* atoi, and the smallest size allowed.
AtLeast(least, value) ==
    LET n == IF value # <<>> /\ Head(value) \in DOMAIN atoi THEN atoi[Head(value)] ELSE 0
    IN  IF n < least THEN least ELSE n

\* Fault: the case of one letter is missing from the switch.
true_accept_words(value) == Len(Word(value)) \in {3, 4} /\ SubSeq(Word(value), 1, 1) \in {"t", "T", "y", "Y"}

\* The cases of the switch fall through: a longer word's first letter decides too.
true_accept(value) == Len(Word(value)) \in {1, 3, 4} /\ SubSeq(Word(value), 1, 1) \in {"t", "T", "y", "Y"}

get_output_func(value) ==
    IF Contains(output_functions, Word(value)) THEN Word(value) ELSE "console"

trim(value) ==
    LET kept == {n \in DOMAIN value : value[n] \notin Spaces}
    IN  IF kept = {} THEN <<>>
        ELSE SubSeq(value, CHOOSE n \in kept : \A x \in kept : n <= x, CHOOSE n \in kept : \A x \in kept : x <= n)
Split(value) ==
    LET commas == SelectSeq([n \in DOMAIN value |-> n], LAMBDA n : value[n] = ",")
        ends == <<0>> \o commas \o <<Len(value) + 1>>
    IN  [n \in 1..(Len(commas) + 1) |-> trim(SubSeq(value, ends[n] + 1, ends[n + 1] - 1))]

Setting(key, value) ==
    CASE key = <<"BlocksUntilGarbageCollection">> -> [settings EXCEPT !.max_num_blocks = AtLeast(MinBlocks, value)]
      [] key = <<"EnvironmentsUntilGarbageCollection">> ->
             [settings EXCEPT !.max_num_environments = AtLeast(MinEnvs, value)]
      [] key = <<"ShowEngineStats">> -> [settings EXCEPT !.show_engine_stats = true_accept(value)]
      [] key = <<"ShowGarbageCollectionStats">> ->
             [settings EXCEPT !.show_garbage_collection_stats = true_accept(value)]
      [] key = <<"StandardOutputFunction">> -> [settings EXCEPT !.output_std_func = get_output_func(value)]
      [] key = <<"ErrorOutputFunction">> -> [settings EXCEPT !.output_err_func = get_output_func(value)]
      [] key = <<"KillWhenErrorHit">> -> [settings EXCEPT !.kill_if_error = true_accept(value)]
      [] OTHER -> settings

-----------------------------------------------------------------------------
(* Configurations.  A job reads its text to the end, then processes its     *)
(* sections, and is done when sec is past the last.                         *)

Job(conf, name) == [conf |-> conf, name |-> name, fin |-> 1, sec |-> 1, prop |-> 1]
TextOf(name) == IF name \in DOMAIN ConfigFiles THEN ConfigFiles[name] ELSE <<>>

Working == jobs # <<>> /\ fate \in {"booting", "in call"}
job == Last(jobs)
Text == TextOf(job.name)
HasText == Working /\ job.fin <= Len(Text)
CurrentSection == sections[SectionsOf(job.conf)[job.sec]]
InSection == Working /\ ~HasText /\ job.sec <= Len(SectionsOf(job.conf))
Known == CurrentSection.name \in {<<"LibraryDefinition">>, <<"SemblisCore">>}
AtProperty(section) ==
    /\ InSection /\ CurrentSection.name = section /\ job.prop <= Len(CurrentSection.props)
Prop == CurrentSection.props[job.prop]
WithJob(j) == Append(Front(jobs), j)
NextProperty == WithJob([job EXCEPT !.prop = @ + 1])

\* config_main, the first Config, is read again for as long as the engine runs.
MainConfig == 1

\* Fault: the evaluator starts before the configuration is read.
EvalInitFirst ==
    /\ fate = "booting" /\ jobs = <<>>
    /\ eval_settings' = KeptBy(Defaults)
    /\ Fate("idle")
    /\ UNCHANGED <<jobs, settings, output_functions, program, readerVars, configVars, libVars, dirVars>>

semblis_init ==
    /\ fate = "off" /\ Calls("semblis_init") /\ fate' = "booting"
    /\ settings' = Defaults
    /\ output_functions' = Append(output_functions, "console")
    /\ configs' = <<TRUE>>
    /\ jobs' = <<Job(MainConfig, DefaultConfig)>>
    /\ UNCHANGED <<eval_settings, program, sections, prev_section, readerVars, libVars, dirVars>>

\* The last call of semblis_init.
EvalInit ==
    /\ fate = "booting" /\ jobs = <<>>
    /\ eval_settings' = KeptBy(settings)
    /\ Fate("idle")
    /\ UNCHANGED <<jobs, settings, output_functions, program, readerVars, configVars, libVars, dirVars>>

eng_read_default_config ==
    /\ fate = "idle" /\ Calls("eng_read_default_config") /\ fate' = "in call"
    /\ jobs' = <<Job(MainConfig, DefaultConfig)>>
    /\ UNCHANGED <<settings, eval_settings, output_functions, program, readerVars, configVars, libVars, dirVars>>

eng_read_config_file ==
    /\ fate = "idle" /\ Calls("eng_read_config_file") /\ fate' = "in call"
    /\ configs' = Append(configs, TRUE)
    /\ jobs' = <<Job(Len(configs'), Argument)>>
    /\ UNCHANGED <<settings, eval_settings, output_functions, program, sections, prev_section,
                   readerVars, libVars, dirVars>>

ReadLine ==
    LET line == LineAt(Text, job.fin)
    IN  /\ HasText
        /\ IF LineAborts(line) \/ LineUndefined(line)
           THEN /\ Fate(IF LineAborts(line) THEN "aborted" ELSE "undefined")
                /\ UNCHANGED <<jobs, configVars>>
           ELSE /\ Store(line, job.conf)
                /\ jobs' = WithJob([job EXCEPT !.fin = White(Text, line.end)])
                /\ UNCHANGED <<calls, fate>>
        /\ UNCHANGED <<settings, eval_settings, output_functions, program, readerVars, libVars, dirVars>>

\* Fault: the section is not left.
NextSectionSame ==
    /\ InSection /\ (~Known \/ job.prop > Len(CurrentSection.props))
    /\ jobs' = WithJob([job EXCEPT !.prop = 1])
    /\ UNCHANGED <<calls, fate, settings, eval_settings, output_functions, program,
                   readerVars, configVars, libVars, dirVars>>

\* Sections with other names are passed over.
NextSection ==
    /\ InSection /\ (~Known \/ job.prop > Len(CurrentSection.props))
    /\ jobs' = WithJob([job EXCEPT !.sec = @ + 1, !.prop = 1])
    /\ UNCHANGED <<calls, fate, settings, eval_settings, output_functions, program,
                   readerVars, configVars, libVars, dirVars>>

process_core_property ==
    /\ AtProperty(<<"SemblisCore">>)
    /\ settings' = Setting(Prop.key, Prop.value)
    /\ jobs' = NextProperty
    /\ UNCHANGED <<calls, fate, eval_settings, output_functions, program,
                   readerVars, configVars, libVars, dirVars>>

\* The included file is read and processed before the next property.
Include ==
    /\ AtProperty(<<"LibraryDefinition">>) /\ Prop.key = <<"Include">>
    /\ configs' = Append(configs, TRUE)
    /\ jobs' = Append(NextProperty, Job(Len(configs'), Prop.value))
    /\ UNCHANGED <<calls, fate, settings, eval_settings, output_functions, program,
                   sections, prev_section, readerVars, libVars, dirVars>>

\* Splitting puts a NUL for the first comma into the property itself.
CutAtComma ==
    sections' = [sections EXCEPT ![SectionsOf(job.conf)[job.sec]].props[job.prop].value =
                     SubSeq(@, 1, Upto(@, 1, {","}) - 1)]

Definition ==
    LET frags == Split(Prop.value)
        undefined == <<>> \in ToSet(frags) \/ (Len(frags) = 2 /\ ~CanRegister(configs))
    IN  /\ AtProperty(<<"LibraryDefinition">>) /\ Prop.key = <<"Definition">>
        /\ IF undefined THEN Fate("undefined") /\ UNCHANGED <<jobs, sections, libVars>>
           ELSE /\ CutAtComma
                /\ IF Len(frags) = 2 THEN ll_register_foreign_func(frags[1], frags[2])
                   ELSE UNCHANGED libVars
                /\ jobs' = NextProperty
                /\ UNCHANGED <<calls, fate>>
        /\ UNCHANGED <<settings, eval_settings, output_functions, program, prev_section, configs, readerVars, dirVars>>

LibraryProperty ==
    /\ AtProperty(<<"LibraryDefinition">>) /\ Prop.key \notin {<<"Include">>, <<"Definition">>}
    /\ CASE Prop.key = <<"File">>   -> ll_set_library(Prop.value)
         [] Prop.key = <<"Module">> -> ll_set_module_name(Prop.value, job.conf)
         [] OTHER                   -> UNCHANGED libVars
    /\ jobs' = NextProperty
    /\ UNCHANGED <<calls, fate, settings, eval_settings, output_functions, program,
                   readerVars, configVars, dirVars>>

\* A Config is destroyed when it has been processed, but for the main one.
EndConfig ==
    /\ Working /\ ~HasText /\ job.sec > Len(SectionsOf(job.conf))
    /\ configs' = IF job.conf = MainConfig THEN configs ELSE [configs EXCEPT ![job.conf] = FALSE]
    /\ jobs' = Front(jobs)
    /\ IF jobs' = <<>> /\ fate = "in call" THEN Fate("idle") ELSE UNCHANGED <<calls, fate>>
    /\ UNCHANGED <<settings, eval_settings, output_functions, program, sections, prev_section,
                   readerVars, libVars, dirVars>>

process_library_property == Include \/ Definition \/ LibraryProperty

-----------------------------------------------------------------------------
(* The other calls.                                                         *)

NoConfig == UNCHANGED <<jobs, settings, eval_settings, output_functions, configVars, libVars>>

AddOutputFunc ==
    /\ Calls("eng_add_output_func") /\ UNCHANGED fate
    /\ output_functions' = Append(output_functions, Word(Argument))
    /\ UNCHANGED <<jobs, settings, eval_settings, program, readerVars, configVars, libVars, dirVars>>

AddSearchDir ==
    /\ Calls("eng_add_search_dir") /\ Argument \in Dirs /\ UNCHANGED fate
    /\ eng_add_search_dir(Argument)
    /\ NoConfig /\ UNCHANGED <<program, readerVars>>

RemSearchDir ==
    /\ Calls("eng_rem_search_dir") /\ Argument \in Dirs /\ UNCHANGED fate
    /\ eng_rem_search_dir(Argument)
    /\ NoConfig /\ UNCHANGED <<program, readerVars>>

eng_read_string ==
    /\ fate = "idle" /\ Calls("eng_read_string") /\ fate' = "reading"
    /\ reader_read_string(Argument)
    /\ NoConfig /\ UNCHANGED <<program, dirVars>>

reader_read_file(filename) ==
    \E beyond \in Garbage : StartReading(filename, SourceFiles[filename], beyond)

\* A file that cannot be opened is answered with NULL.
eng_read_file ==
    /\ fate = "idle" /\ Calls("eng_read_file")
    /\ IF Argument \in DOMAIN SourceFiles
       THEN fate' = "reading" /\ reader_read_file(Argument) /\ UNCHANGED program
       ELSE fate' = "idle" /\ program' = <<>> /\ UNCHANGED readerVars
    /\ NoConfig /\ UNCHANGED dirVars

\* run_eval_on_file: the first file that opens is read, none is an error.
Import ==
    /\ fate = "idle" /\ Calls("import") /\ Argument \in Files /\ fate' = "found"
    /\ SearchFile(Argument)
    /\ NoConfig /\ UNCHANGED <<program, readerVars>>
ImportFound ==
    /\ fate = "found"
    /\ IF found # NotFound
       THEN Fate("reading") /\ reader_read_file(Path(found)) /\ UNCHANGED program
       ELSE Fate("idle") /\ program' = <<>> /\ UNCHANGED readerVars
    /\ NoConfig /\ UNCHANGED dirVars

\* One step of invoke.
Invoke ==
    /\ fate = "reading" /\ (ReadToken \/ Return)
    /\ NoConfig /\ UNCHANGED <<calls, fate, program, dirVars>>

\* run_post_read.
Classify ==
    /\ fate = "reading" /\ depth = 0
    /\ program' = Classified(nodes)
    /\ Fate("idle")
    /\ NoConfig /\ UNCHANGED <<readerVars, dirVars>>

\* Counters are not reset: the engine cannot be started again.
semblis_shutdown ==
    /\ fate = "idle" /\ Calls("semblis_shutdown") /\ fate' = "shut down"
    /\ configs' = [configs EXCEPT ![MainConfig] = FALSE]
    /\ destroy_filenames
    /\ UNCHANGED <<jobs, settings, eval_settings, output_functions, program,
                   sections, prev_section, libVars, dirVars>>

Call ==
    \/ semblis_init \/ eng_read_default_config \/ eng_read_config_file
    \/ AddOutputFunc \/ AddSearchDir \/ RemSearchDir
    \/ eng_read_string \/ eng_read_file \/ Import \/ semblis_shutdown

\* The steps a call takes by itself.
Work ==
    \/ ReadLine \/ NextSection \/ process_core_property \/ process_library_property \/ EndConfig
    \/ EvalInit \/ ImportFound \/ Invoke \/ Classify

Busy == fate \in {"booting", "in call", "reading", "found"}

\* The host makes no further call, or the program has stopped.
Rest == ~Busy /\ UNCHANGED vars

Next == Call \/ Work \/ Rest

Spec == Init /\ [][Next]_vars
\* Nothing in the engine waits.  This is WF_vars(Work): as there is no deadlock,
\* Work is enabled whenever the engine is busy.
FairSpec == Spec /\ (<>[]Busy => []<><<Work>>_vars)

-----------------------------------------------------------------------------
(* Properties of reading.                                                   *)

\* Every variable has its type, whatever is read.
TypeOK ==
    /\ fate \in {"off", "booting", "idle", "in call", "reading", "found", "aborted", "undefined", "shut down"}
    /\ fate \in {"booting", "in call"} \/ jobs = <<>> \/ fate \in {"aborted", "undefined"}
    /\ \A j \in ToSet(jobs) : j.conf \in DOMAIN configs /\ configs[j.conf]
    /\ prev_section \in 0..Len(sections)
    /\ settings.max_num_blocks >= MinBlocks /\ settings.max_num_environments >= MinEnvs
    /\ depth > 0 => stream \in 1..(buffer.len + 1)
    /\ cur_filename_index \in 0..Len(cur_filename)
    /\ DirTypeOK

\* The last call was a reading, and it has returned.
HasRead == fate = "idle" /\ calls # <<>> /\ call.op \in {"eng_read_string", "eng_read_file", "import"}

\* The source of the last reading.
Source == IF call.op = "import" THEN Path(found) ELSE call.name
From(source, node) ==
    /\ node.filename_index \in DOMAIN cur_filename
    /\ cur_filename[node.filename_index] = source

\* Every node names the source it was read from, whatever was read before it
\* (reader.c, find_filename_index_by_name).
SourcesNamed == HasRead /\ program # <<>> => \A n \in DOMAIN nodes : From(Source, nodes[n])

\* A list without any node in it would crash reader_to_data: one is left only
\* where the text ends at once after an opening parenthesis.
Childless(n) ==
    nodes[n].token = <<"(">> /\ (n < Len(nodes) => nodes[n + 1].depth <= nodes[n].depth)
ChildlessOnlyAtEnd ==
    HasRead =>
        \A n \in DOMAIN nodes :
            Childless(n) =>
                /\ n = Len(nodes)
                /\ \E x \in 1..buffer.len : CharAt(x) = "(" /\ AtEnd(Skip(x + 1))

\* In a text without quotes and comments, all that comes before the first
\* parenthesis too many is read: nothing else is silently dropped.
Plain == \A x \in 1..buffer.len : CharAt(x) \notin {"\"", "'", ";", "\\"}
Count(c, x) == Cardinality({y \in 1..x : CharAt(y) = c})
Wanted(x) == \A y \in 1..x : Count(")", y) <= Count("(", y)
Starts(x) == \/ CharAt(x) = "("
             \/ /\ CharAt(x) \notin Parentheses \cup Blanks
                /\ x > 1 => CharAt(x - 1) \in Parentheses \cup Blanks
NothingLost ==
    HasRead /\ program # <<>> /\ Plain =>
        Cardinality({n \in DOMAIN nodes : nodes[n].token # <<")">>})
            = Cardinality({x \in 1..buffer.len : Starts(x) /\ Wanted(x)})

\* Every call returns, unless the program has stopped.
CallsReturn == []<>~Busy
=============================================================================
