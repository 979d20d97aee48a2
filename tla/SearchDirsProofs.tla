--------------------------- MODULE SearchDirsProofs --------------------------
(***************************************************************************)
(* Proofs about SearchDirs, for any directories and files: the holes stay  *)
(* at the end of the table, and the table behaves as a list.               *)
(***************************************************************************)
EXTENDS SearchDirs, NaturalProofs

Tables == Seq(Dirs \cup {Hole})

\* The entries 1 to n of the table are directories, the others are holes.
PackedTo(table, n) ==
    /\ n \in 0..Len(table)
    /\ \A i \in 1..Len(table) : table[i] # Hole <=> i <= n

Inv == DirTypeOK /\ PackedTo(search_dirs, Used(search_dirs))

-----------------------------------------------------------------------------
(* First and last entries.                                                 *)

LEMMA Greatest ==
    ASSUME NEW n \in Nat, NEW H \in SUBSET (1..n), H # {}
    PROVE  \E m \in H : \A k \in H : k <= m
<1> DEFINE G == {n - k : k \in H}
<1>1. G \in SUBSET Nat /\ G # {}
  <2>1. \A k \in H : n - k \in Nat
    OBVIOUS
  <2>2. PICK k \in H : TRUE
    OBVIOUS
  <2>3. n - k \in G
    BY <2>2
  <2>4. G \subseteq Nat
    BY <2>1
  <2>5. QED BY <2>3, <2>4
<1>2. PICK g \in G : \A d \in G : g <= d
  BY <1>1, Least
<1>3. PICK m \in H : g = n - m
  OBVIOUS
<1>4. \A k \in H : n - m <= n - k
  BY <1>2, <1>3
<1>5. QED BY <1>4

LEMMA FirstExists ==
    ASSUME NEW table \in Tables, NEW x, Holds(table, x)
    PROVE  IsFirst(FirstOf(table, x), table, x)
<1> DEFINE H == {k \in DOMAIN table : table[k] = x}
<1>1. H \in SUBSET Nat /\ H # {}
  BY DEF Holds, Tables
<1>2. PICK m \in H : \A k \in H : m <= k
  BY <1>1, Least
<1>3. IsFirst(m, table, x)
  BY <1>2 DEF IsFirst, Tables
<1>4. QED BY <1>3 DEF FirstOf

LEMMA FirstIsOne ==
    ASSUME NEW table \in Tables, NEW x, NEW k, IsFirst(k, table, x)
    PROVE  Holds(table, x) /\ FirstOf(table, x) = k
<1>1. \A j \in DOMAIN table : IsFirst(j, table, x) => j = k
  BY DEF IsFirst, Tables
<1>2. k \in DOMAIN table
  BY DEF IsFirst
<1>3. QED BY <1>1, <1>2 DEF FirstOf, Holds, IsFirst

-----------------------------------------------------------------------------
(* What a table stands for.                                                *)

LEMMA UsedIs ==
    ASSUME NEW table \in Tables, NEW n, PackedTo(table, n)
    PROVE  Used(table) = n
<1>1. CASE n = Len(table)
  <2>1. ~ Holds(table, Hole)
    BY <1>1 DEF PackedTo, Holds, Tables
  <2>2. QED BY <1>1, <2>1 DEF Used
<1>2. CASE n < Len(table)
  <2>1. IsFirst(n + 1, table, Hole)
    BY <1>2 DEF PackedTo, IsFirst, Tables
  <2>2. Holds(table, Hole) /\ FirstOf(table, Hole) = n + 1
    BY <2>1, FirstIsOne
  <2>3. QED BY <2>2 DEF Used, PackedTo
<1>3. QED BY <1>1, <1>2 DEF PackedTo, Tables

\* A packed table with a hole has its first one after the entries in use.
LEMMA FirstHole ==
    ASSUME NEW table \in Tables, PackedTo(table, Used(table)), Holds(table, Hole)
    PROVE  FirstOf(table, Hole) = Used(table) + 1 /\ Used(table) < Len(table)
<1>1. IsFirst(FirstOf(table, Hole), table, Hole)
  BY FirstExists
<1>2. QED BY <1>1 DEF Used, IsFirst, Tables

LEMMA NoHole ==
    ASSUME NEW table \in Tables, ~ Holds(table, Hole)
    PROVE  Used(table) = Len(table)
BY DEF Used

-----------------------------------------------------------------------------
(* The operations.                                                         *)

LEMMA Added ==
    ASSUME NEW dir \in Dirs, Inv, eng_add_search_dir(dir)
    PROVE  Inv' /\ Listed(search_dirs)' = Append(Listed(search_dirs), dir)
<1> DEFINE n == Used(search_dirs)
<1> USE HoleAssumption
<1>1. search_dirs \in Tables /\ n \in 0..Len(search_dirs)
  BY DEF Inv, DirTypeOK, Tables, PackedTo
<1>2. search_dirs' \in Tables /\ PackedTo(search_dirs', n + 1) /\ search_dirs'[n + 1] = dir
      /\ \A i \in 1..n : search_dirs'[i] = search_dirs[i]
  <2>1. CASE Holds(search_dirs, Hole)
    <3>1. n < Len(search_dirs) /\ search_dirs' = [search_dirs EXCEPT ![n + 1] = dir]
      BY <2>1, <1>1, FirstHole DEF Inv, eng_add_search_dir
    <3>2. QED BY <3>1, <1>1 DEF Inv, PackedTo, Tables
  <2>2. CASE ~ Holds(search_dirs, Hole)
    <3>1. n = Len(search_dirs) /\ search_dirs' = Append(search_dirs, dir)
      BY <2>2, <1>1, NoHole DEF eng_add_search_dir
    <3>2. QED BY <3>1, <1>1 DEF Inv, PackedTo, Tables
  <2>3. QED BY <2>1, <2>2
<1>3. Used(search_dirs') = n + 1
  BY <1>2, UsedIs
<1>4. Listed(search_dirs') = Append(Listed(search_dirs), dir)
  BY <1>1, <1>2, <1>3 DEF Listed
<1>5. QED BY <1>2, <1>3, <1>4 DEF Inv, DirTypeOK, Tables

LEMMA Removed ==
    ASSUME NEW dir \in Dirs, Inv, eng_rem_search_dir(dir)
    PROVE  Inv' /\ (D!Remove(dir) \/ Listed(search_dirs)' = Listed(search_dirs))
<1> DEFINE n == Used(search_dirs)
           k == FirstOf(search_dirs, dir)
<1> USE HoleAssumption
<1>1. search_dirs \in Tables /\ n \in 0..Len(search_dirs)
  BY DEF Inv, DirTypeOK, Tables, PackedTo
<1>2. CASE ~ Holds(search_dirs, dir)
  BY <1>2 DEF eng_rem_search_dir, Inv, DirTypeOK, PackedTo, Used, Holds, FirstOf, IsFirst, Listed
<1>3. CASE Holds(search_dirs, dir)
  <2>1. IsFirst(k, search_dirs, dir)
    BY <1>1, <1>3, FirstExists
  <2>2. k \in 1..n
    BY <2>1, <1>1 DEF IsFirst, Inv, PackedTo, Tables
  <2>3. search_dirs' = [i \in 1..Len(search_dirs) |->
                          IF i < k THEN search_dirs[i]
                          ELSE IF i < Len(search_dirs) THEN search_dirs[i + 1] ELSE Hole]
    BY <1>1, <1>3 DEF eng_rem_search_dir, Tables
  <2>4. search_dirs' \in Tables /\ PackedTo(search_dirs', n - 1)
    <3>1. \A i \in 1..Len(search_dirs) : search_dirs[i] \in Dirs \cup {Hole}
      BY <1>1 DEF Tables
    <3>2. search_dirs' \in Tables /\ Len(search_dirs') = Len(search_dirs)
      BY <2>3, <3>1, <1>1 DEF Tables
    <3>3. \A i \in 1..Len(search_dirs) : search_dirs[i] # Hole <=> i <= n
      BY DEF Inv, PackedTo
    <3>4. ASSUME NEW i \in 1..Len(search_dirs) PROVE search_dirs'[i] # Hole <=> i <= n - 1
      BY <2>2, <2>3, <3>3, <1>1
    <3>5. QED BY <2>2, <3>2, <3>4, <1>1 DEF PackedTo
  <2>5. Used(search_dirs') = n - 1
    BY <2>4, UsedIs
  <2>6. Listed(search_dirs') =
            [i \in 1..(n - 1) |-> IF i < k THEN search_dirs[i] ELSE search_dirs[i + 1]]
    <3>1. Listed(search_dirs') = [i \in 1..(n - 1) |-> search_dirs'[i]]
      BY <2>5 DEF Listed
    <3>2. \A i \in 1..(n - 1) : search_dirs'[i] = IF i < k THEN search_dirs[i] ELSE search_dirs[i + 1]
      BY <2>2, <2>3, <1>1
    <3>3. QED BY <3>1, <3>2
  <2>7. Listed(search_dirs) = [i \in 1..n |-> search_dirs[i]] /\ Len(Listed(search_dirs)) = n
    BY <1>1 DEF Listed
  <2>8. D!IsFirst(k, dir)
    <3>1. k \in Nat /\ k <= n /\ search_dirs[k] = dir /\ \A i \in 1..(k - 1) : search_dirs[i] # dir
      BY <2>1, <2>2 DEF IsFirst
    <3>2. QED BY <3>1, <2>2, <2>7, <1>1 DEF D!IsFirst
  <2>9. Listed(search_dirs') = [i \in 1..(Len(Listed(search_dirs)) - 1) |->
            IF i < k THEN Listed(search_dirs)[i] ELSE Listed(search_dirs)[i + 1]]
    BY <2>2, <2>6, <2>7, <1>1
  <2>10. D!Remove(dir)
    <3>1. k \in DOMAIN Listed(search_dirs)
      BY <2>2, <2>7
    <3>2. QED BY <3>1, <2>8, <2>9 DEF D!Remove, eng_rem_search_dir
  <2>11. QED BY <2>4, <2>5, <2>10 DEF Inv, DirTypeOK, Tables
<1>4. QED BY <1>2, <1>3

LEMMA Searched ==
    ASSUME NEW file \in Files, Inv, SearchFile(file)
    PROVE  Inv' /\ D!Lookup(file)
<1> DEFINE n == Used(search_dirs)
           hits == {k \in DOMAIN search_dirs : Opens(k, file)}
<1>1. search_dirs \in Tables /\ n \in 0..Len(search_dirs)
  BY DEF Inv, DirTypeOK, Tables, PackedTo
<1>2. UNCHANGED search_dirs
  BY DEF SearchFile
<1>3. Inv' /\ Listed(search_dirs)' = Listed(search_dirs)
  BY <1>2 DEF Inv, DirTypeOK, PackedTo, Used, Holds, FirstOf, IsFirst, Listed
<1>4. DOMAIN Listed(search_dirs) = 1..n /\ \A k \in 1..n : Listed(search_dirs)[k] = search_dirs[k]
  BY DEF Listed
<1>5. hits = {k \in 1..n : file \in Has[Listed(search_dirs)[k]]}
  BY <1>1, <1>4 DEF Inv, PackedTo, Opens, Tables
<1>6. CASE hits = {}
  BY <1>3, <1>4, <1>5, <1>6 DEF SearchFile, D!Lookup
<1>7. CASE hits # {}
  <2> DEFINE last == CHOOSE k \in hits : \A i \in hits : i <= k
  <2>1. last \in hits /\ \A i \in hits : i <= last
    <3>1. n \in Nat /\ hits \in SUBSET (1..n)
      BY <1>1, <1>5
    <3>2. \E k \in hits : \A i \in hits : i <= k
      BY <3>1, <1>7, Greatest
    <3>3. QED BY <3>2
  <2>2. found' = <<search_dirs[last], file>>
    BY <1>7 DEF SearchFile
  <2>3. D!IsNewest(last, file)
    BY <2>1, <1>1, <1>4, <1>5 DEF D!IsNewest
  <2>4. last \in DOMAIN Listed(search_dirs) /\ found' = <<Listed(search_dirs)[last], file>>
    BY <2>1, <2>2, <1>4, <1>5
  <2>5. QED BY <2>3, <2>4, <1>3 DEF D!Lookup
<1>8. QED BY <1>3, <1>6, <1>7

-----------------------------------------------------------------------------

LEMMA Stuttering ==
    ASSUME Inv, UNCHANGED dirVars
    PROVE  Inv' /\ UNCHANGED D!listVars
BY DEF dirVars, Inv, DirTypeOK, PackedTo, Used, Holds, FirstOf, IsFirst, Listed, D!listVars

LEMMA Start ==
    ASSUME DirsInit
    PROVE  Inv /\ D!Init
<1>1. search_dirs \in Tables /\ PackedTo(search_dirs, 0)
  BY DEF DirsInit, Tables, PackedTo
<1>2. Used(search_dirs) = 0
  BY <1>1, UsedIs
<1>3. Listed(search_dirs) = <<>>
  BY <1>2 DEF Listed
<1>4. QED BY <1>1, <1>2, <1>3 DEF Inv, DirTypeOK, Tables, D!Init, DirsInit

LEMMA Invariance == DirsSpec => []Inv
<1>1. DirsInit => Inv
  BY Start
<1>2. Inv /\ [DirsNext]_dirVars => Inv'
  BY Added, Removed, Searched, Stuttering DEF DirsNext
<1>3. QED BY <1>1, <1>2, PTL DEF DirsSpec

\* The entries in use stay together at the front of the table, so a free entry
\* is never searched before a directory.
THEOREM HolesAtTheEnd == DirsSpec => []Packed
<1>1. Inv => Packed
  BY DEF Inv, DirTypeOK, PackedTo, Packed
<1>2. QED BY <1>1, Invariance, PTL

\* Adding, removing and searching are those of a list: the table implements
\* DirList.
THEOREM TableIsAList == DirsSpec => ImplementsDirList
<1>1. DirsInit => D!Init
  BY Start
<1>2. Inv /\ [DirsNext]_dirVars => [D!Next]_D!listVars
  <2> SUFFICES ASSUME Inv, [DirsNext]_dirVars PROVE [D!Next]_D!listVars
    OBVIOUS
  <2>1. ASSUME NEW dir \in Dirs, eng_add_search_dir(dir) PROVE D!Add(dir)
    BY <2>1, Added DEF D!Add, eng_add_search_dir
  <2>2. ASSUME NEW dir \in Dirs, eng_rem_search_dir(dir) PROVE D!Remove(dir) \/ UNCHANGED D!listVars
    BY <2>2, Removed DEF D!listVars, eng_rem_search_dir
  <2>3. ASSUME NEW file \in Files, SearchFile(file) PROVE D!Lookup(file)
    BY <2>3, Searched
  <2>4. QED BY <2>1, <2>2, <2>3, Stuttering DEF DirsNext, D!Next
<1>3. QED BY <1>1, <1>2, Invariance, PTL DEF DirsSpec, ImplementsDirList, D!Spec
=============================================================================
