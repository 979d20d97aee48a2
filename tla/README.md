# A TLA+ model of Semblis

Semblis is an embeddable Lisp in C: a reader, an explicit-control evaluator in
the style of SICP (`eval.c`), data cells and environments with a mark-and-sweep
collector (`data.c`, `environment.c`, `gc.c`), primitives, and an engine that
loads configuration files and plugins. It is single threaded. What is hard in
it is not interleaving of threads but of the evaluator and the collector: a
collection can start inside any allocation, and every register and stack entry
must be right at that moment. Elsewhere it is state that outlives its purpose:
positions one character too far, globals that the next file inherits, tables
that are rebuilt while they are being filled, environments that are replaced
while they are in use.

## The system

| part | source (`src/src/libsemblis` unless said) | state | operations | talks to |
|---|---|---|---|---|
| cells | `data.c` | `BlockList`, `BlocksInUse`, `MaxNumBlocks`, a saved search spot | `data_create`, `data_create_no_gc`, `data_destroy`, marking | starts the collector when the table is full; `eval_set_error` for error cells |
| environments | `environment.c` | `EnvironmentList`, `EnvironmentsInUse`, a saved spot, a hash table and a parent in each | `env_create`, `env_get`, `env_set`, marking | same |
| collector | `gc.c` | marks | `gc_run`, `gc_run_with_env` | asks the evaluator for roots (callback `eval_gather_gc`) |
| evaluator | `eval.c` | registers, a typed stack of 10000 entries, `have_error`, `error_value` | `eval` (about 30 labels), `run_eval_on_string`, `run_eval_on_file` | cells, environments, primitives; calls itself through the reader |
| primitives | `core_prims.c`, `include/macros.h` | the table of functions | 19 functions | cells |
| conversions | `utils.c` | static buffers | `reader_to_data`, buffer growth, character sets | cells |
| reader, classifier | `reader.c`, `classifier.c` | stream, line, names of files | text to typed nodes | |
| hash table | `hashtable.c` | slots, length, capacity | put, get, rebuild | environments, primitives |
| engine | `engine.c`, `config.c`, `lib_loader.c`, `search_dir.c` | properties, sections, loaded libraries, search directories | start, stop, configuration, `Include` | everything |
| plugins | `src/plugins` | a saved copy of the global environment (EnvRestore) | save, restore; functions on strings | cells, environments, `eval_set_new_pointers` |
| output | `output.c`, `logger.c`, `pretty_printer.c` | | printing | |

What makes each part correct:

- *Memory*: nothing reachable is freed, at any step of a collection; everything
  else is freed by the next one; the counters agree with the tables; the
  program gives up only when there really is no room; a collection ends.
- *Evaluator*: the value is the one the program means, whenever collections
  happen; each label pops what was pushed for it; what is reported to the
  collector is complete; the first error ends the evaluation; the registers
  come back; tail calls use no stack.
- *Hash table*: a finite map; probing ends; a key is copied and freed once.
- *Reader, classifier*: a program is read as its author spelled it, however it
  is spaced and commented, if no file ends with an atom; every node knows its line (`ReadsAsSpelled`) and its
  source (`SourcesNamed`); nothing but what follows a parenthesis too many is
  dropped (`NothingLost`).
- *Engine, configuration, loader*: settings and foreign functions are what the
  lines of all files say, in order, an Include standing for the lines of the
  other file; the evaluator starts with them; well-written files never lead to
  the assertion, a freed section or a freed module name.
- *Search directories*: a list, searched from the newest entry.
- *EnvRestore*: the restored environments are those that were saved, sharing
  included; an evaluation in progress goes on in the new ones.

## Modules

| module | what it is |
|---|---|
| `ObjectGraph` | reachability in a graph of objects |
| `ManagedHeap` | abstract: objects are made, linked, rooted and dropped, and only inaccessible ones are reclaimed |
| `HashMap` | abstract: a finite map from texts to pointers |
| `Hashtable` | `hashtable.c`: open addressing and rebuilding, one probe at a time |
| `DirList` | abstract: a list of directories |
| `SearchDirs` | `search_dir.c` and the search an import makes |
| `Classifier` | `classifier.c`: what a token is |
| `Reader` | `reader.c`: text to trees of nodes, one token at a time; a tree is kept flat, in the order of the text, with the `depth` of each node |
| `Config` | `config.c`: lines to sections and properties |
| `LibLoader` | `lib_loader.c`: the library and the module of the next definitions |
| `Engine` | `engine.c`, composing the five above: the host's calls and the steps they take |
| `Writing` | how programs and configurations are written and what is meant; it translates no code |
| `Sessions` | what a session should lead to, by what its author wrote, compared with `Engine` |
| `Collector` | `data.c`, `environment.c`, `gc.c`: tables, counters, the unmark / mark / sweep phases one call of the recursion at a time |
| `CollectorProofs`, `HashtableProofs`, `SearchDirsProofs` | the theorems of these components |
| `NaturalProofs` | what the other proofs need of the natural numbers: least elements, induction over a set, iterating a function |
| `EngineProofs` | the theorems about `Engine`, which are also about `Reader`, `Config`, `LibLoader` and `SearchDirs` inside it |
| `EvaluatorProofs` | type correctness of `Evaluator` with `EnvRestore`, `CorePrims` and `Machine` |
| `FramesProofs` | the frames on the evaluator's stack, and the registers that come back |
| `ErrorsProofs` | the addresses the evaluator holds, and where its errors may be |
| `Machine` | registers, typed stack, cells, environments, what an allocation may do |
| `CorePrims` | the primitives as functions from arguments to outcomes (cells created, pointer returned) |
| `EnvRestore` | `EnvRestore.cpp` and `eval_set_new_pointers`: saving, restoring one allocation at a time, redirecting |
| `Evaluator` | `eval`: one action per label, entering, leaving, nesting, errors; the host that asks for one evaluation after another |
| `ReaderToData` | `reader_to_data`, in the order in which it creates cells |
| `Reference` | what programs mean: a recursive interpreter of trees with no machine at all; it is the specification the evaluator is compared with, and translates no code. Its results are those of `src/include/iamarDocs.h` |
| `MCCollector`, `MCEvaluator`, `MCHashtable`, `MCEngine` | constants for TLC; `MCEvaluator` has the programs, `MCEngine` the texts, files and calls of the host |

`Evaluator` extends `EnvRestore`, that `CorePrims`, and that `Machine`;
`MCEvaluator` puts it beside `Reference`. `Engine` extends the modules of the
reader, the configuration, the loader and the search directories; `Sessions`
puts `Engine` beside `Writing`. What is proved about is kept in modules without
RECURSIVE operators (`Engine` and below); the meanings that are recursive are in
`Writing`, `Sessions` and `Reference`. `Collector` is the memory seen from the
inside, with the evaluator as an environment that behaves; `Machine` is the memory seen from the evaluator:
an allocation may or may not collect, and a collection frees what cannot be
reached from `Roots`. That this is what a collection does is `Precise`,
proved for `Collector`. Whether the evaluator behaves as `Collector` assumes
is what `NothingDangles` checks.

### Correspondence

*Collector.* Slot i of `BlockList` is the object i, slot j of `EnvironmentList`
is `MaxNumBlocks + j`; `live` are the slots that are not NULL. `kids` abstracts
car, cdr, args, code, env, parent and bindings to a set. `marked` is the field
of that name. `DataCreate` and `EnvCreate` stop at the point where
`insert_block` and `env_create` look for room; `Premark`, `Unmark`, `Mark`,
`Sweep`, `CheckRoom` and `Insert` are the rest, in the order of the code. `work`
holds the recursive calls still to be made; they are made in any order where
the C code goes depth first, which does not change the final marks. Roots
grow and shrink as the evaluator's registers and stack would.

*Evaluator.* `pc` is the label, `reg` the C statics (without `proc_prim`, which
is computed from `proc`). A pointer is an address that is never used again, so
a dangling one is visible; a continuation code is a small integer, and
neither the registers nor the stack know which of the two they hold, as in C.
The order of reads, pushes, pops and allocations inside a label is kept
where a collection can tell the difference: a collection sees the registers as
they are at the allocation. A batch of cells made by one C function carries a
number j, the cell at which the table was full; the cells made before it are
lost if nothing refers to them. `Defined` lists what C takes for granted (a
pointer followed is good, a divisor is not 0, a text is where one is read);
where it fails the behaviour stops in `undefined`, since anything may follow.
Continuation code `JUMP_EV_SEQUENCE` is never stored by the code and leads to no
label (`LabelOf`).

*EnvRestore.* `stored.envs` are the copied environments, keyed by the address of
the original as `store_visited` is; the data in them are copied as trees by the
code, which the model represents by the cells as they were at the save
(`stored.cells`), of which only what those environments lead to is looked at.
`restoring.made` is `restore_visited`. The C recursion of a restore is written
out as tasks (`todo`) with the values its callers hold (`held`), so that each
allocation is a step at which a collection may come: neither is reported to it;
`walk` are the pending calls of the redirection. `GlobalEnv` is a variable since a restore replaces
it, and a root. The redirection is one step per call of
`rec_set_new_pointers_data`; that it ends is not taken for granted.

*Hashtable.* The table in use and the one a rebuild fills are values with
capacity, length and elements; `at` is the slot a put or get looks at, `i` the
rebuild's index. `copies` counts the allocated copies of each key.

*Reader, Engine.* `stream` is a position in `buffer`, `depth` the number of calls
of `invoke` that have not returned; `nodes` are all nodes in the order in which
`create_node` makes them, each with the depth of its call, which determines the
`next` and `child` pointers. `Scan` is one turn of the loop of `consume_token`.
A file is followed in memory by something (`Garbage`), a text
by NUL. `jobs` is the recursion of `config_read_config` and `process_sections`
through Include; `settings` are the variables of `engine.c`, `eval_settings` the
copies that `eval_init` makes of three of them. A configuration is a sequence of words,
blanks and marks; a destroyed `Config` is one whose flag in `configs` is FALSE.

*SearchDirs.* The table keeps its length; `Hole` is NULL. `Listed` maps it to
the list of `DirList`.

Operators whose comment begins with "Fault" are variants of the definition
that follows them, for the mutation runs; the specification does not use them.

## Runs

| run | bounds | shows |
|---|---|---|
| `collector` | 2 cells, 2 environments | the six invariants of `Collector` |
| `collector_envs` | 1 cell, 3 environments | chains and cycles of environments; `Collector` implements `ManagedHeap` |
| `collector_code` | 1 cell, 2 environments, 1 program cell | stale marks of cells that are in no table; every collection ends |
| `evaluator_grammar` | 3135 programs, `kill_if_error` on | evaluator against `Reference`, frames, roots, errors |
| `evaluator_scripts` | sessions chosen by hand, `kill_if_error` off, stack of 45 | the same for closures, recursion, macros, nesting, import, save and restore; registers restored; tail calls; termination |
| `hashtable` | 5 keys, 2 values, from 2 slots to 8 | a map; probing ends; keys owned; calls return |
| `engine` | about 1800 texts, 9 configurations, 6 calls about directories | reading, configuring, searching |

Two cells and two environments are enough for every kind of edge: cell to cell,
cell to environment, environment to cell and parent, and cycles through each;
with 0 free slots left every allocation collects, with and without success. The
proofs lift the bound. In the grammar, an expression whose value is observable
is put at each position of each form (test, branch, operator, operand, body,
value to store), alone or beside a second one, and acts on the variable x,
which is read afterwards: an environment, argument list or continuation mixed
up by a wrong pop or a lost cell changes the answer. The grammar has no loops;
the scripts do. A stack of 45 entries is what the deepest script needs and one
more; a loop that used stack would exceed it.

The hashes of the five keys collide in every size of the table, wrap around its
end, and part when it doubles; five keys force two rebuilds, and a put of an old
key one that replaces. A host of `engine` reads after other readings (lines,
names), includes files from included files, and configures before and after an
output function is added. Texts are all words of up to 3 characters over 8, all
of 5 over an atom and the parentheses, and every program of up to two atoms of
eight kinds, in lists and in each other, with five ways of spacing and
commenting. `WellWritten` is what an author must do to stay clear of the
hazards of the configuration files: a header first, no empty value or comment,
a module in the file of a definition, after any Include, and a library. Ill
written files are read too: they show that the condition is needed, and that
they lead to nothing but what is listed.

The programs with a restore save once or twice, change and add variables,
restore while arguments, operands, closures and nested evaluations are in
progress, and restore twice. `WalkBound` (40 pending calls) is far above
the 25 that suffice for every restore that ends; beyond it the C stack counts
as overflowed. Two scripts reach that: a second restore of one save, when the
save has a function, and a closure that is met a second time (among the
registers and the stack) when its new environment has a function. The
redirection then enters the new environment, which is not an old one, finds the
function there, enters its environment, and so on (`eval.c:630`). A restore in
these scripts does not meet a collection (`RestoreCollects` is off): what
happens then is of the same kind as the run `list_collected`.

Each session in `evaluator_scripts` is finite, so are the addresses. TLC
explores both outcomes of every allocation, so a program with n allocations has
up to 2^n histories that differ in what was freed.

Five runs end in a violation, each a place where the code does not do what its
own documentation or comment says (`findings` in `PROJECT.json`); each has one
program, so that the trace is that of the finding:

- `error_flag`: calling something that is not a procedure leaves `have_error`
  set; the next evaluation returns the old error.
- `error_unwind`: an error inside an argument list leaves its frames, and the
  caller's registers are restored from them.
- `freed_result`: a text that is one atom evaluates to the cell that was freed.
- `list_collected`: a collection inside `list` frees the first part of the list.
  (A quoted list, `'(1 2)`, read by `symbol_to_data`, goes wrong in the same way,
  and so does `(env:restore)`; no run contains them.)
- `unended_file`: a file that ends right after an atom; the atom gets a character
  from behind the buffer.

`Reference` gives the values that the documentation promises. Where the code
gives another no script of the passing runs goes, and no run shows it:

| program | documented in `src/include/iamarDocs.h` | code |
|---|---|---|
| `(and 1 2)` | true (391, 394) | 2, the last operand |
| `(and nil (set x 3))`, `(or 1 (set x 3))` | the second operand is not evaluated (386, 364) | it is |
| `(= 1 "lib")`, two lists | nil, or true if they are the same (662) | an error |
| `(eval 1)`, `(eval (+ 1 2))` | the value (575) | an error |
| `(set x 1)`, x unknown | creates no variable (597) | creates it |
| `(- 2)` | the first number (`- 'numbers'`) | -2 |

The documentation says of many forms that they return nothing (`define`, `set`
and `import`, but also `lambda` and `if`, whose values every program uses):
there, and for what it leaves open (`begin`, macros, texts given to `eval`, the
number and the type of arguments), `Reference` follows the code.

The passing runs stay away from these programs: the grammar has no `list`, no
quoted list, no `and`, no `=`, no evaluation of a text that is an atom, and its
nested evaluations do not fail; the scripts compare values of one kind or with
nil, use `and` only where its value is nil and no operand after that one does
anything, and give `-` two numbers or more and `mod` positive ones. The scripts that fail are evaluated
alone and with nothing but their own frames, and `RegistersRestored` speaks of
evaluations without an error. The files of `engine` whose reading is compared
with what they mean end with a newline, a parenthesis or a quote; other short
files are read too, with all that may lie behind them, and `NothingLost` and
`ChildlessOnlyAtEnd` hold of them.

Deadlock is not checked where the system stops for good: `exit(1)` when a table
is full, and a host that has asked everything.

### Fairness

`Collector!FairSpec` has weak fairness of `Collect`: once `gc_run` is called it
is a sequence of loops without waiting. `Evaluator!FairSpec` says that `eval`,
while it runs, takes steps: it is a loop of gotos that never blocks. The host
is never obliged to ask. `Hashtable!FairSpec` has weak fairness of `Work`, the
steps of a call that was made. `Engine!FairSpec` is weak fairness of `Work`,
written out: whenever the engine is busy one of its steps is possible.

## Proofs

`CollectorProofs` proves, for all capacities and any set of program cells:
`Typing`, `CountsAreExact`, `NeverDangling`, `NeverTouchesFreed`,
`ExactCollection`, `ExitsOnlyWhenFull`, and `Refinement` (every step of
`Collector` is a step of `ManagedHeap` or a stutter). The assumptions are those
of `Collector`: positive capacities, and program cells that are not table slots.

None of the invariants is inductive alone. `Inductive` adds what each phase of
a collection knows: while unmarking, an object of index below `idx` that is
still marked is owed by `work`; while marking, what is marked is closed under
`Calls` except for what `work` and `todo` still owe, so that an empty `work`
and `todo` make the marked objects a closed set that contains the roots, hence
all that is reachable; conversely only reachable objects are ever marked, which
makes the sweep exact. Live objects point to live objects or program cells
outside the sweep, and during it reachable ones do. The module begins with the
lemmas on reachability these rest on (a closed set that contains the roots
contains what they reach; linking to something reachable adds nothing). The
counters follow from cardinalities of sets that differ by one slot.

`HashtableProofs` proves the five invariants of `Hashtable` and `ImplementsMap`,
for any keys, any hash and any capacity that is a power of two (assumed since
the code masks the hash). `IInv` adds to them what a call in progress knows:
the slots between the home of the key and the one looked at hold other keys
(so the first empty slot is where the key belongs, and no gap opens before an
entry); the new table holds exactly the entries the rebuild has passed
(`Moved`), so that replacing the old one changes nothing seen from outside; and
the load bound between calls, from which an empty slot follows by counting, and
that a rebuild never starts another one.

`SearchDirsProofs` proves that holes are always behind the directories
(`HolesAtTheEnd`) and that the table is a list (`TableIsAList`), for any
directories and files. The inductive invariant `Inv` says which entries are
directories by their number, `Used`; each operation moves that number by one.
First and last entries exist since every set of numbers has a least one
(`NaturalProofs!Least`).

`EvaluatorProofs` proves `TypeCorrect`: whatever the programs, texts, files and
stack depth are, and whichever allocations collect, the variables of
`Evaluator` keep their types. That is more than a formality here: the types say
that no address is both a cell and an environment, that none is one that malloc
may still return (so that no new object replaces an old one, in the middle of a
batch that collects or of a restore either), that program cells are never
collected, that the relative addresses in a batch have become real ones, and
that `eval` is left exactly when no C caller waits for it, the host's call being
the outermost. `Inv` adds that the script is one of `Scripts`. There is one
lemma for each outcome a primitive can have, one for each way a label may
allocate, and one for each action. The assumption on the constants
(`EvaluatorAssumption`) is what `reader_to_data` gives: cells that refer to each
other and to what is always there, none of them an error or a closure; the runs
evaluate it.

`FramesProofs` proves what holds the machine together, for all programs:

- `FramesCorrect`: `FramesMatch` always holds;
- `SavedRestored`: `eval` returns to the host with the registers it was called
  with and an empty stack (`SaveRestoreBalanced`);
- `RegistersCorrect`: with `kill_if_error` off the same is true for as long as
  `have_error` is not set (`RegistersRestored`).

`FramesMatch` follows the chain of continuations from the label reached down to
the host: each continuation code says which kinds of entry lie under it
and where among them the next code is. It is not inductive as it stands, since
it does not say that the label is the one the continuation led to, nor what
is under the frame of an evaluation that has not begun to return. `FrameInv`
adds both (`Expected`), and that the nine entries at the bottom are the registers
of the host (`Founded`). The central lemmas say that a chain only depends on the
entries under its top (so that pushing leaves what is below alone), that a
continuation with its frame pushed on a chain is a chain, and that popping
the frame of a continuation leaves one; each action is then a number of pops
and pushes. A restore replaces environments in the stack, which changes no kind
and no continuation (`SameBelow`).

The first two theorems have the hypothesis `[](NoAbort /\ StackNeverFull)`, the
third `[]StackNeverFull`. Neither can be dropped: the code violates both
conclusions without them. An error leaves `eval` with the frames of all that is
in progress on the stack (the run `error_unwind` shows what follows), and
`push_stack` drops what does not fit, after which every pop takes an entry too
deep. Since these are safety properties, the theorems say that no step can go
wrong before the first abort or the first full stack. The scripts reach states
under both hypotheses with every label and every frame, and
`evaluator_scripts` checks that a stack of 45 entries is not filled by them.
`RegistersCorrect` needs no such hypothesis about errors: it shows that
an error cell is never made without setting the flag (`ErrorsNoticed`), so that
an abort before it is set is impossible.

`ErrorsProofs` proves, for all programs:

- `AddressesIssued`: nothing the evaluator holds (registers, stack entries,
  cells, bindings, the values and environments of a pending restore) is an
  address that malloc has not returned yet;
- `ErrorsCorrect`: with `kill_if_error` on, `ErrorsNeverBound`, until an error
  ends an evaluation.

The first is shown for any set of addresses that has the constants and those of
the objects the step creates (`StepHolds`): whatever an action stores, it found
in a register, on the stack, in a cell or a binding, or has just created. It is what makes
a new object private to the call that makes it, which no type says.

The second looks as if it were about `JUMP_TO_CONTINUE` alone, which
compares the value with the error. But an error is a value before anybody looks
at it: an operator that has no value stays in `proc` and on the stack while its
operands are evaluated, and they may define, call, import and evaluate
texts before the call is found out. `ErrorInv` says what is true then: `Tidy`, no
cell and no binding refers to any error in memory, and `error_value` is the last
error or its freed cell; `Waiting`, the labels that can be reached with an
error outstanding (none that stores `val`), `apply` only with the error of an
unknown variable as the procedure, which is neither a primitive nor a closure;
`ErrorsFlagged`, no error is in memory when the flag is not set, so that
`AddressesIssued` gives `Tidy` anew; and that no copy `env:save` made has an
error, so that a restore makes none. A step either notices its errors, makes one error and nothing
that refers to it (`CleanBatch`), or leaves the memory tidy.

The hypotheses are those of a careful caller: with `kill_if_error` off an error is a value
like others, and after an abort the frames of what was in progress are
taken for those of the next evaluation (`error_unwind`), with the errors in them.
As the properties are safety properties, the theorem says that no step up to the
first abort binds an error.

`EngineProofs` proves, for any texts, files, directories, configurations and
calls of the host, and any memory behind the buffer of a file:

- `EngineTypeCorrect`: `TypeOK`, by which no configuration is destroyed while
  it, or one that it includes, is read, and no configured size is below the
  smallest allowed;
- `SourcesCorrect`: every node of a reading names its source (`SourcesNamed`);
- `ChildlessCorrect`: a list without nodes, at which `reader_to_data` would crash,
  is left only where the text ends right after its parenthesis;
- `NothingLostCorrect`: in a text without quotes and comments as many nodes are
  made as there are characters that start one before the first parenthesis too
  many (`NothingLost`);
- `EngineDirsAreAList`: readings, configurations and imports in between leave the
  search directories a list (`ImplementsDirList`).

The inductive invariant `IInv` has a part for each piece of state. `TreeOK` says
that what follows an opening parenthesis is deeper; for the last node it needs
`LastOpen`: the reader is right behind that parenthesis, or it has found that
only the end of the text follows. Without it the next token could come from an
outer call and leave the list empty. `ConfigsOK` orders the pending
configurations by age: an included one is always younger, so the one that ends
is none of those still pending. `SourceOK` fixes the source while a text is
read, and that names are only added at the end of the table is what keeps old
indices valid. `FatesOK` says which calls may have something pending. The
assumption on the constants (`EngineAssumption`) says that the files and
directories are texts, and that what a directory is said to contain can be read
there; the run `engine` evaluates it. TLC checked `IInv` and `CountOK` on that
run before they were proved.

`NothingLost` speaks of the end of a reading. `CountOK` says it at every step:
the nodes made are as many as the starts passed; `depth` is one more than the
parentheses open before `stream`, until the end or a parenthesis too many;
after that nothing more is wanted; and `stream` is never inside an atom (the
character before it, or the one at it, is a blank or a parenthesis), without
which the rest of an atom would be counted as a second one. A step passes
blanks (`PlainSkip`), where no token starts, and then either a parenthesis, which is
a token by itself even at the end of a text, where the length counted is
one too many (`ParenthesisScan`), or an atom up to the next blank or parenthesis
(`AtomEnd`, by induction over the turns of the loop). That an atom's token is
never taken for a parenthesis, whatever lies behind the buffer, is
`OneCharacter`.

### Only model-checked

- Termination: of a collection, of probing, of evaluations and of the engine's
  calls. Liveness under fairness is out of the prover's reach.
- `ResultIsMeaning`, `RestoredAsSaved`, `ReadsAsSpelled`, `ConfigAsWritten`,
  `EvaluatorConfigured` and `NothingUndefined` compare the code with a recursive
  meaning of data, or with what follows from how it is written. That needs
  induction over data, which the provers cannot instantiate, and RECURSIVE
  operators, which they do not take.
- `NothingDangles` is not true of all programs (the run `list_collected` refutes
  it), so that a theorem would need to say which programs are meant.
  `ErrorsNeverBound` is only model-checked beyond the first abort.
- `StackNeverFull` is a statement about given programs.

## Not modelled

In the evaluator texts are names: no character sets, no conversion buffers, no
formatting of errors. Numbers are integers, without overflow; `/`, `int` and
`random` are left out, `display` and `newline` only print. The C stack of the
recursion of marking is unbounded. Line and file numbers are left out there, and
checked in the reader. `eval(NULL)` is modelled; a `)` alone, whose root is the
shared nil cell, is not. The environments of the evaluator are functions: that
a hash table is one is what `Hashtable` shows.

`EnvRestore`: bindings are restored in one order, addresses are never used
again (an old environment in `store_visited` whose memory has a new
tenant would be redirected by mistake), and the texts that `destroy_objs`
leaks are left out. Two things the model shows and no property forbids:
restored environments keep the parent of the original, so a closure made inside
a function still sees the old globals, and that parent may be freed; and
an activation in progress is searched, but its own parent is not redirected
(`eval.c:629`).

Engine: the growing of buffers, words longer than their buffers, headers that
never end, configurations that include themselves, a start after a shutdown
(counters and saved spots are not reset; nothing in the repository does it),
statistics and output. `dlopen`, `dlsym` and the file system are constants.

The string plugin consists of functions from texts to texts without state, and
printing, logging and the build tools change no state that another part reads:
none has a behaviour worth a model.

## Plan

1. *Done*: memory management with proofs; evaluator with its reference; hash
   table with proofs; search directories with proofs; reader, classifier,
   configuration, loader and engine; saving and restoring environments.
2. *Done*: type correctness of the evaluator, the frames on its stack and the
   registers that come back, proved for all programs; the engine's types, the
   sources and the number of nodes, lists without nodes and the directories,
   proved for all texts and calls.
3. Shutdown and start again, with the counters that are not reset.
4. Collections during a restore beside the list that is collected, and addresses
   that are used again.
5. *Done*: addresses and errors of the evaluator (`ErrorsProofs`).

Runs are kept few: a new one replaces or joins an old one when both ask the
same question.
