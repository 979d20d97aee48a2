------------------------------- MODULE DirList ------------------------------
(***************************************************************************)
(* What search_dir.c promises: a list of directories, oldest first, that   *)
(* an import searches from the newest to the oldest.                       *)
(***************************************************************************)
EXTENDS Integers, Sequences

CONSTANTS Dirs, Files,
          Has,        \* Has[d]: the files in directory d
          NotFound

VARIABLES dirs, found

listVars == <<dirs, found>>

Init == dirs = <<>> /\ found = NotFound

Add(dir) == dirs' = Append(dirs, dir) /\ UNCHANGED found

\* The oldest entry of the directory goes, the others keep their order.
IsFirst(k, dir) == /\ k \in DOMAIN dirs /\ dirs[k] = dir
                   /\ \A i \in 1..(k - 1) : dirs[i] # dir
Remove(dir) ==
    /\ \E k \in DOMAIN dirs :
          /\ IsFirst(k, dir)
          /\ dirs' = [i \in 1..(Len(dirs) - 1) |-> IF i < k THEN dirs[i] ELSE dirs[i + 1]]
    /\ UNCHANGED found

IsNewest(k, file) == /\ k \in DOMAIN dirs /\ file \in Has[dirs[k]]
                     /\ \A i \in DOMAIN dirs : i > k => file \notin Has[dirs[i]]
Lookup(file) ==
    /\ \/ \E k \in DOMAIN dirs : IsNewest(k, file) /\ found' = <<dirs[k], file>>
       \/ (\A k \in DOMAIN dirs : file \notin Has[dirs[k]]) /\ found' = NotFound
    /\ UNCHANGED dirs

Next ==
    \/ \E dir \in Dirs : Add(dir) \/ Remove(dir)
    \/ \E file \in Files : Lookup(file)

Spec == Init /\ [][Next]_listVars
=============================================================================
