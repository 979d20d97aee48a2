----------------------------- MODULE LibLoader ------------------------------
(***************************************************************************)
(* lib_loader.c: the library and the module that the next definitions are  *)
(* for, and the table of foreign functions they make.                      *)
(***************************************************************************)
EXTENDS Sequences, TLC

CONSTANTS Libraries,   \* the symbols in each library that can be opened
          NoLibrary    \* the handle of a LibLoader fresh from malloc

VARIABLES loaded_libs,
          prev_handle,   \* the library opened last
          mod_name,      \* a pointer into a property: [text, conf]
          functions      \* what each registered name calls: <<library, symbol>>

libVars == <<loaded_libs, prev_handle, mod_name, functions>>

NoModule == [text |-> <<>>, conf |-> 0]

ll_create == loaded_libs = <<>> /\ prev_handle = NoLibrary /\ mod_name = NoModule

LibInit == ll_create /\ functions = <<>>

\* A library that cannot be opened leaves the handle as it was.
ll_set_library(filename) ==
    /\ IF filename \in DOMAIN Libraries
       THEN loaded_libs' = Append(loaded_libs, filename) /\ prev_handle' = filename
       ELSE UNCHANGED <<loaded_libs, prev_handle>>
    /\ UNCHANGED <<mod_name, functions>>

ll_set_module_name(text, conf) ==
    /\ mod_name' = [text |-> text, conf |-> conf]
    /\ UNCHANGED <<loaded_libs, prev_handle, functions>>

Prefixed(lisp_func) ==
    IF mod_name.text = <<"None">> THEN lisp_func ELSE mod_name.text \o <<":">> \o lisp_func

\* The pointers it follows must be set, and the property not freed.
CanRegister(configs) ==
    prev_handle # NoLibrary /\ mod_name.conf # 0 /\ configs[mod_name.conf]

ll_register_foreign_func(lisp_func, c_func) ==
    /\ functions' = IF c_func \in Libraries[prev_handle]
                    THEN Prefixed(lisp_func) :> <<prev_handle, c_func>> @@ functions
                    ELSE functions
    /\ UNCHANGED <<loaded_libs, prev_handle, mod_name>>
=============================================================================
