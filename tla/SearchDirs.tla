----------------------------- MODULE SearchDirs -----------------------------
(***************************************************************************)
(* search_dir.c, and the search that an import makes (eval.c).  The table  *)
(* keeps its length: removing leaves a hole (NULL), adding fills one.      *)
(***************************************************************************)
EXTENDS Integers, Sequences

CONSTANTS Dirs, Files,
          Has,        \* Has[d]: the files that can be opened in directory d
          Hole, NotFound

ASSUME HoleAssumption == Hole \notin Dirs

VARIABLES search_dirs,   \* of length search_dirs_num
          found          \* the file the last search found: <<directory, file>>

dirVars == <<search_dirs, found>>

DirsInit == search_dirs = <<>> /\ found = NotFound

\* The first entry of a table that holds x.
IsFirst(k, table, x) ==
    k \in DOMAIN table /\ table[k] = x /\ \A i \in 1..(k - 1) : table[i] # x
Holds(table, x) == \E k \in DOMAIN table : table[k] = x
FirstOf(table, x) == CHOOSE k \in DOMAIN table : IsFirst(k, table, x)

eng_add_search_dir(dir) ==
    /\ search_dirs' = IF Holds(search_dirs, Hole) THEN [search_dirs EXCEPT ![FirstOf(search_dirs, Hole)] = dir]
                      ELSE Append(search_dirs, dir)
    /\ UNCHANGED found

\* Fault: the entries after the removed one do not move.
eng_rem_search_dir_in_place(dir) ==
    /\ search_dirs' = IF Holds(search_dirs, dir) THEN [search_dirs EXCEPT ![FirstOf(search_dirs, dir)] = Hole] ELSE search_dirs
    /\ UNCHANGED found

eng_rem_search_dir(dir) ==
    /\ search_dirs' =
          IF Holds(search_dirs, dir)
          THEN [i \in DOMAIN search_dirs |->
                  IF i < FirstOf(search_dirs, dir) THEN search_dirs[i]
                  ELSE IF i < Len(search_dirs) THEN search_dirs[i + 1] ELSE Hole]
          ELSE search_dirs
    /\ UNCHANGED found

\* From the last entry to the first: the file may be opened in entry k.
Opens(k, file) == search_dirs[k] # Hole /\ file \in Has[search_dirs[k]]
SearchFile(file) ==
    LET hits == {k \in DOMAIN search_dirs : Opens(k, file)}
    IN  /\ found' = IF hits = {} THEN NotFound
                    ELSE <<search_dirs[CHOOSE k \in hits : \A i \in hits : i <= k], file>>
        /\ UNCHANGED search_dirs

DirsNext ==
    \/ \E dir \in Dirs : eng_add_search_dir(dir) \/ eng_rem_search_dir(dir)
    \/ \E file \in Files : SearchFile(file)

DirsSpec == DirsInit /\ [][DirsNext]_dirVars

-----------------------------------------------------------------------------
\* All entries before the first hole are directories and all others are holes:
\* a hole is never between two directories.
DirTypeOK == search_dirs \in Seq(Dirs \cup {Hole})
Packed == \A i, j \in DOMAIN search_dirs : i < j /\ search_dirs[j] # Hole => search_dirs[i] # Hole

\* The list that a table stands for: its entries up to the first hole.
Used(table) == IF Holds(table, Hole) THEN FirstOf(table, Hole) - 1 ELSE Len(table)
Listed(table) == [i \in 1..Used(table) |-> table[i]]

D == INSTANCE DirList WITH dirs <- Listed(search_dirs)

\* Filling holes and moving entries back, the table behaves as a list: the order
\* of search is the order of the calls of eng_add_search_dir.
ImplementsDirList == D!Spec
=============================================================================
