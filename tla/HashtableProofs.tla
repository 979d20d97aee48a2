--------------------------- MODULE HashtableProofs ---------------------------
(***************************************************************************)
(* Proofs about Hashtable, for any set of keys, any hash and any initial   *)
(* capacity: the invariants, and that the table implements a map.          *)
(***************************************************************************)
EXTENDS Hashtable, FiniteSetTheorems, TLAPS

\* What every put keeps of a table, and what probing for k up to s has shown.
Sound(t) == IsTable(t) /\ NoGaps(t) /\ NoTwins(t) /\ t.length = Cardinality(Occupied(t))
PassedOver(t, k, s) ==
    \A x \in Slots(t) :
        Passed(Home(k, t), x, s) => t.elements[x].key # Absent /\ t.elements[x].key # k

\* The new table holds the entries that the rebuild has passed in the old one.
Moved ==
    /\ new_hashtable.capacity = 2 * hashtable.capacity
    /\ new_hashtable.length <= i
    /\ \A s \in Occupied(new_hashtable) :
           \E x \in 0..(i - 1) : hashtable.elements[x] = new_hashtable.elements[s]
    /\ \A x \in 0..(i - 1) : hashtable.elements[x].key # Absent =>
           \E s \in Slots(new_hashtable) : new_hashtable.elements[s] = hashtable.elements[x]

IInv ==
    /\ TypeOK
    /\ Sound(hashtable) /\ Sound(new_hashtable)
    /\ Probing => PassedOver(Target, key, at)
    /\ pc \in {"idle", "put", "get"} => ~TooFull(hashtable)
    /\ pc = "put" => value \in Values
    /\ pc \in {"idle", "put", "get"} => i = 0
    /\ pc \in {"rebuild", "move"} => Moved
    /\ pc = "move" => /\ i < hashtable.capacity
                      /\ hashtable.elements[i] = [key |-> key, value |-> value]
    /\ NoNestedRebuild
    /\ KeysOwned

-----------------------------------------------------------------------------
(* Tables.                                                                  *)

LEMMA HomeIsSlot ==
    ASSUME NEW t, IsTable(t), t.capacity > 0, NEW k \in Keys
    PROVE  Home(k, t) \in Slots(t)
BY HashAssumption DEF IsTable, Home, Slots

LEMMA AfterIsSlot ==
    ASSUME NEW t, IsTable(t), NEW s \in Slots(t)
    PROVE  After(s, t) \in Slots(t)
BY DEF IsTable, After, Slots

\* Two slots that are not on each other's way from h are the same.
LEMMA WaysMeet ==
    ASSUME NEW h \in Int, NEW s \in Int, NEW x \in Int, ~Passed(h, x, s), ~Passed(h, s, x)
    PROVE  s = x
BY DEF Passed

\* One more slot is passed, unless the probe is back where it began.
LEMMA PassOne ==
    ASSUME NEW t, IsTable(t), NEW k \in Keys, NEW s \in Slots(t), t.capacity > 0,
           PassedOver(t, k, s), t.elements[s].key # Absent, t.elements[s].key # k
    PROVE  PassedOver(t, k, After(s, t))
<1> DEFINE h == Home(k, t)
<1>1. h \in Slots(t)
  BY HomeIsSlot
<1>2. \A x \in Slots(t) : Passed(h, x, After(s, t)) => Passed(h, x, s) \/ x = s
  <2> HIDE DEF h
  <2> QED  BY <1>1 DEF Passed, After, Slots, IsTable
<1> QED  BY <1>2 DEF PassedOver

LEMMA StartOfProbe ==
    ASSUME NEW t, IsTable(t), t.capacity > 0, NEW k \in Keys
    PROVE  PassedOver(t, k, Home(k, t))
<1> DEFINE h == Home(k, t)
<1>1. h \in Slots(t)
  BY HomeIsSlot
<1>2. \A x \in Slots(t) : ~Passed(h, x, h)
  <2> HIDE DEF h
  <2> QED  BY <1>1 DEF Passed, Slots, IsTable
<1> QED  BY <1>2 DEF PassedOver

LEMMA OccupiedFinite ==
    ASSUME NEW t, IsTable(t)
    PROVE  /\ IsFiniteSet(Slots(t)) /\ Cardinality(Slots(t)) = t.capacity
           /\ IsFiniteSet(Occupied(t)) /\ Cardinality(Occupied(t)) \in Nat
           /\ Cardinality(Occupied(t)) <= t.capacity
<1>1. IsFiniteSet(Slots(t)) /\ Cardinality(Slots(t)) = t.capacity
  <2>1. 0 \in Int /\ t.capacity - 1 \in Int /\ t.capacity \in Nat
    BY DEF IsTable
  <2>2. /\ IsFiniteSet(0..(t.capacity - 1))
        /\ Cardinality(0..(t.capacity - 1)) =
               IF 0 > t.capacity - 1 THEN 0 ELSE (t.capacity - 1) - 0 + 1
    BY <2>1, FS_Interval
  <2> QED  BY <2>1, <2>2 DEF Slots
<1>2. Occupied(t) \subseteq Slots(t)
  BY DEF Occupied
<1> QED  BY <1>1, <1>2, FS_Subset, FS_CardinalityType

LEMMA NewTableSound ==
    ASSUME NEW n \in Nat
    PROVE  /\ Sound(NewTable(n)) /\ NewTable(n).capacity = n /\ NewTable(n).length = 0
           /\ Occupied(NewTable(n)) = {} /\ \A k \in Keys : ~Holds(NewTable(n), k)
<1> DEFINE t == NewTable(n)
<1>1. t.capacity = n /\ t.length = 0 /\ \A s \in Slots(t) : t.elements[s] = NoEntry
  BY DEF NewTable, Slots
<1>2. IsTable(t)
  BY DEF NewTable, IsTable, Slots, Entries, NoEntry
<1>3. Occupied(t) = {}
  BY <1>1 DEF Occupied, NoEntry
<1>4. \A k \in Keys : ~Holds(t, k)
  BY <1>1, KeysAssumption DEF Holds, NoEntry
<1>5. Cardinality(Occupied(t)) = 0
  BY <1>3, FS_EmptySet
<1> HIDE DEF t
<1>6. NoGaps(t) /\ NoTwins(t)
  BY <1>3 DEF NoGaps, NoTwins
<1> QED  BY <1>1, <1>2, <1>3, <1>4, <1>5, <1>6 DEF Sound, t

\* A slot is left as long as the table is not at its limit.
LEMMA EmptySlot ==
    ASSUME NEW t, Sound(t), t.length < t.capacity
    PROVE  \E s \in Slots(t) : t.elements[s].key = Absent
<1> SUFFICES ASSUME \A s \in Slots(t) : t.elements[s].key # Absent  PROVE FALSE
  OBVIOUS
<1>1. Occupied(t) = Slots(t)
  BY DEF Occupied
<1> QED  BY <1>1, OccupiedFinite DEF Sound, IsTable

\* An empty slot that a probe for k reaches says that k is nowhere.
LEMMA MissIsAbsence ==
    ASSUME NEW t, Sound(t), t.capacity > 0, NEW k \in Keys, NEW s \in Slots(t),
           PassedOver(t, k, s), t.elements[s].key = Absent
    PROVE  ~Holds(t, k)
<1> SUFFICES ASSUME NEW x \in Slots(t), t.elements[x].key = k  PROVE FALSE
  BY DEF Holds
<1>1. ~Passed(Home(k, t), x, s)
  BY DEF PassedOver
<1>2. x \in Occupied(t)
  BY KeysAssumption DEF Occupied
<1>3. ~Passed(Home(k, t), s, x)
  BY <1>2 DEF Sound, NoGaps
<1>4. x = s
  BY <1>1, <1>3, WaysMeet, HomeIsSlot DEF Slots, Sound, IsTable
<1> QED  BY <1>4, KeysAssumption

\* At the slot where a probe for k stops, and nowhere else, k may be.
LEMMA OnlyThere ==
    ASSUME NEW t, Sound(t), t.capacity > 0, NEW k \in Keys, NEW s \in Slots(t),
           PassedOver(t, k, s), t.elements[s].key = Absent \/ t.elements[s].key = k,
           NEW x \in Slots(t), t.elements[x].key = k
    PROVE  x = s
<1>1. CASE t.elements[s].key = Absent
  BY <1>1, MissIsAbsence DEF Holds
<1>2. CASE t.elements[s].key = k
  BY <1>2, KeysAssumption DEF Sound, NoTwins, Occupied
<1> QED  BY <1>1, <1>2

\* The value of a key is the value in any slot that holds it.
LEMMA SlotValue ==
    ASSUME NEW t, Sound(t), NEW s \in Slots(t), t.elements[s].key \in Keys
    PROVE  ContentsOf(t)[t.elements[s].key] = t.elements[s].value
<1> DEFINE k == t.elements[s].key
           c == SlotOf(t, k)
<1>1. c \in Slots(t) /\ t.elements[c].key = k
  BY DEF SlotOf
<1>2. c = s
  BY <1>1, KeysAssumption DEF Sound, NoTwins, Occupied
<1> QED  BY <1>2 DEF ContentsOf, Holds

-----------------------------------------------------------------------------
(* What a put leaves.                                                       *)

LEMMA StoredShape ==
    ASSUME NEW t, IsTable(t), NEW s \in Slots(t), NEW k \in Keys, NEW v \in Values \cup {Absent},
           NEW r, r = Stored(t, s, k, v)
    PROVE  /\ IsTable(r) /\ r.capacity = t.capacity /\ Slots(r) = Slots(t)
           /\ \A x \in Slots(t) : r.elements[x] = IF x = s THEN [key |-> k, value |-> v] ELSE t.elements[x]
           /\ r.length = IF t.elements[s].key = k THEN t.length ELSE t.length + 1
           /\ \A j \in Keys : Home(j, r) = Home(j, t)
<1>1. r = [capacity |-> t.capacity,
           length |-> IF t.elements[s].key = k THEN t.length ELSE t.length + 1,
           elements |-> [t.elements EXCEPT ![s] = [key |-> k, value |-> v]]]
  <2>1. t = [capacity |-> t.capacity, length |-> t.length, elements |-> t.elements]
    BY DEF IsTable
  <2> QED  BY <2>1 DEF Stored
<1>2. r.capacity = t.capacity /\ Slots(r) = Slots(t)
  BY <1>1 DEF Slots
<1>3. [key |-> k, value |-> v] \in Entries
  BY DEF Entries
<1>4. r.elements \in [Slots(t) -> Entries]
  BY <1>1, <1>3 DEF IsTable
<1> QED  BY <1>1, <1>2, <1>4 DEF IsTable, Home

LEMMA StoredSound ==
    ASSUME NEW t, Sound(t), t.capacity > 0, NEW s \in Slots(t), NEW k \in Keys,
           NEW v \in Values \cup {Absent},
           PassedOver(t, k, s), t.elements[s].key = Absent \/ t.elements[s].key = k,
           NEW r, r = Stored(t, s, k, v)
    PROVE  Sound(r) /\ r.capacity = t.capacity
<1>0. /\ IsTable(t) /\ NoGaps(t) /\ NoTwins(t) /\ t.length = Cardinality(Occupied(t))
      /\ IsTable(r) /\ r.capacity = t.capacity /\ Slots(r) = Slots(t)
      /\ \A x \in Slots(t) : r.elements[x] = IF x = s THEN [key |-> k, value |-> v] ELSE t.elements[x]
      /\ r.length = IF t.elements[s].key = k THEN t.length ELSE t.length + 1
      /\ \A j \in Keys : Home(j, r) = Home(j, t)
  BY StoredShape DEF Sound
<1>1. \A x \in Slots(t) : r.elements[x].key = IF x = s THEN k ELSE t.elements[x].key
  BY <1>0
<1>2. Occupied(r) = Occupied(t) \cup {s}
  BY <1>0, <1>1, KeysAssumption DEF Occupied
<1>3. NoTwins(r)
  <2> SUFFICES ASSUME NEW x \in Occupied(r), NEW y \in Occupied(r),
                      r.elements[x].key = r.elements[y].key
               PROVE  x = y
    BY DEF NoTwins
  <2>1. x \in Slots(t) /\ y \in Slots(t)
    BY <1>0 DEF Occupied
  <2>2. CASE x # s /\ y # s
    BY <2>1, <2>2, <1>0, <1>1, <1>2 DEF NoTwins
  <2>3. CASE x = s /\ y # s
    <3>1. t.elements[y].key = k
      BY <2>1, <2>3, <1>1
    <3> QED  BY <3>1, <2>1, <2>3, OnlyThere
  <2>4. CASE x # s /\ y = s
    <3>1. t.elements[x].key = k
      BY <2>1, <2>4, <1>1
    <3> QED  BY <3>1, <2>1, <2>4, OnlyThere
  <2> QED  BY <2>2, <2>3, <2>4
<1>4. NoGaps(r)
  <2> SUFFICES ASSUME NEW x \in Occupied(r), NEW y \in Slots(r),
                      Passed(Home(r.elements[x].key, r), y, x)
               PROVE  r.elements[y].key # Absent
    BY DEF NoGaps
  <2>1. x \in Slots(t) /\ y \in Slots(t)
    BY <1>0 DEF Occupied
  <2>2. CASE x = s
    <3>1. Passed(Home(k, t), y, s)
      BY <1>0, <2>1, <2>2, <1>1
    <3>2. t.elements[y].key # Absent
      BY <3>1, <2>1 DEF PassedOver
    <3> QED  BY <3>2, <2>1, <1>1, KeysAssumption
  <2>3. CASE x # s
    <3>1. x \in Occupied(t) /\ r.elements[x].key = t.elements[x].key
      BY <2>1, <2>3, <1>1, <1>2
    <3>2. t.elements[x].key \in Keys
      BY <1>0, <3>1, <2>1 DEF Occupied, IsTable, Entries
    <3>3. Passed(Home(t.elements[x].key, t), y, x)
      BY <1>0, <3>1, <3>2
    <3>4. t.elements[y].key # Absent
      BY <1>0, <3>1, <3>3, <2>1 DEF NoGaps
    <3> QED  BY <3>4, <2>1, <1>1, KeysAssumption
  <2> QED  BY <2>2, <2>3
<1>5. r.length = Cardinality(Occupied(r))
  <2>1. CASE t.elements[s].key = k
    <3>1. Occupied(r) = Occupied(t)
      BY <2>1, <1>2, KeysAssumption DEF Occupied
    <3> QED  BY <1>0, <3>1, <2>1
  <2>2. CASE t.elements[s].key # k
    <3>1. s \notin Occupied(t)
      BY <2>2 DEF Occupied
    <3>2. Cardinality(Occupied(r)) = Cardinality(Occupied(t)) + 1
      <4>1. Occupied(r) = Occupied(t) \cup {s}
        BY <1>2
      <4>2. IsFiniteSet(Occupied(t))
        BY <1>0, OccupiedFinite
      <4> QED  BY <3>1, <4>1, <4>2, FS_AddElement
    <3> QED  BY <1>0, <3>2, <2>2
  <2> QED  BY <2>1, <2>2
<1> QED  BY <1>0, <1>3, <1>4, <1>5 DEF Sound

LEMMA StoredContents ==
    ASSUME NEW t, Sound(t), t.capacity > 0, NEW s \in Slots(t), NEW k \in Keys,
           NEW v \in Values \cup {Absent},
           PassedOver(t, k, s), t.elements[s].key = Absent \/ t.elements[s].key = k,
           NEW r, r = Stored(t, s, k, v)
    PROVE  /\ ContentsOf(r) = [ContentsOf(t) EXCEPT ![k] = v]
           /\ \A j \in Keys : Holds(r, j) <=> Holds(t, j) \/ j = k
           /\ Holds(t, k) <=> t.elements[s].key = k
<1>0. /\ Slots(r) = Slots(t)
      /\ \A x \in Slots(t) : r.elements[x] = IF x = s THEN [key |-> k, value |-> v] ELSE t.elements[x]
  BY StoredShape DEF Sound
<1>1. Sound(r)
  BY StoredSound
<1>2. Holds(t, k) <=> t.elements[s].key = k
  BY OnlyThere, KeysAssumption DEF Holds
<1>3. \A j \in Keys : Holds(r, j) <=> Holds(t, j) \/ j = k
  BY <1>0, KeysAssumption DEF Holds
<1>4. ASSUME NEW j \in Keys
      PROVE  ContentsOf(r)[j] = [ContentsOf(t) EXCEPT ![k] = v][j]
  <2>1. CASE j = k
    <3>1. ContentsOf(r)[k] = r.elements[s].value
      BY <1>0, <1>1, SlotValue
    <3> QED  BY <1>0, <2>1, <3>1 DEF ContentsOf
  <2>2. CASE j # k /\ Holds(t, j)
    <3>1. PICK x \in Slots(t) : t.elements[x].key = j
      BY <2>2 DEF Holds
    <3>2. x # s
      BY <2>2, <3>1, KeysAssumption
    <3>3. ContentsOf(t)[j] = t.elements[x].value
      BY <3>1, SlotValue
    <3>4. ContentsOf(r)[j] = r.elements[x].value
      BY <1>0, <1>1, <3>1, <3>2, SlotValue
    <3> QED  BY <1>0, <2>2, <3>2, <3>3, <3>4 DEF ContentsOf
  <2>3. CASE j # k /\ ~Holds(t, j)
    <3>1. ~Holds(r, j)
      BY <1>3, <2>3
    <3> QED  BY <2>3, <3>1 DEF ContentsOf
  <2> QED  BY <2>1, <2>2, <2>3
<1> QED  BY <1>2, <1>3, <1>4 DEF ContentsOf

-----------------------------------------------------------------------------
(* The invariant, one action at a time.                                     *)

LEMMA InitInv == Init => IInv
<1> SUFFICES ASSUME Init  PROVE IInv
  OBVIOUS
<1>1. Sound(hashtable) /\ hashtable.capacity = InitialCapacity /\ hashtable.length = 0
  BY NewTableSound, CapacityAssumption DEF Init
<1>2. Sound(new_hashtable)
  BY NewTableSound DEF Init, NoTable
<1>3. KeysOwned
  BY NewTableSound, CapacityAssumption DEF Init, KeysOwned
<1>4. TypeOK
  BY <1>1, <1>2, CapacityAssumption DEF Init, TypeOK, Sound, Probing
<1> QED  BY <1>1, <1>2, <1>3, <1>4, CapacityAssumption DEF Init, IInv, Probing, TooFull, NoNestedRebuild

LEMMA CallInv ==
    ASSUME IInv, NEW k \in Keys, (\E v \in Values : Put(k, v)) \/ Get(k)
    PROVE  IInv'
<1>1. /\ hashtable' = hashtable /\ new_hashtable' = new_hashtable /\ copies' = copies /\ i' = i
      /\ pc = "idle" /\ pc' \in {"put", "get"} /\ key' = k /\ at' = Home(k, hashtable)
      /\ value' \in Values \cup {Absent} /\ (pc' = "put" => value' \in Values)
  BY DEF Put, Get, IInv, TypeOK
<1>2. Sound(hashtable) /\ hashtable.capacity > 0 /\ IsTable(hashtable)
  BY DEF IInv, TypeOK
<1>3. Target' = hashtable /\ key' \in Keys /\ at' \in Slots(hashtable)
      /\ PassedOver(hashtable, key', at')
  BY <1>1, <1>2, HomeIsSlot, StartOfProbe DEF Target
<1>4. TypeOK'
  BY <1>1, <1>3 DEF IInv, TypeOK, Probing
<1>5. (Sound(hashtable) /\ Sound(new_hashtable))' /\ KeysOwned'
  BY <1>1 DEF IInv, KeysOwned
<1> QED  BY <1>1, <1>3, <1>4, <1>5 DEF IInv, Probing, TooFull, NoNestedRebuild

\* The table that a call probes is sound, and so is what it has seen of it.
LEMMA TargetGood ==
    ASSUME IInv, Probing
    PROVE  /\ Sound(Target) /\ Target.capacity > 0 /\ IsTable(Target)
           /\ key \in Keys /\ at \in Slots(Target) /\ PassedOver(Target, key, at)
           /\ value \in Values \cup {Absent}
<1>1. IsTable(hashtable) /\ hashtable.capacity > 0 /\ hashtable.capacity \in Nat
  BY DEF IInv, TypeOK, IsTable
<1>2. Target.capacity > 0
  <2>1. CASE pc = "move"
    <3>1. new_hashtable.capacity = 2 * hashtable.capacity
      BY <2>1 DEF IInv, Moved
    <3> QED  BY <1>1, <2>1, <3>1 DEF Target
  <2>2. CASE pc # "move"
    BY <1>1, <2>2 DEF Target
  <2> QED  BY <2>1, <2>2
<1>3. Sound(Target)
  BY DEF IInv, Target
<1> QED  BY <1>2, <1>3 DEF IInv, TypeOK, Sound

LEMMA ProbeInv == ASSUME IInv, Probe  PROVE IInv'
<1>1. UNCHANGED <<hashtable, new_hashtable, copies, pc, key, value, i, answer>>
      /\ at' = After(at, Target) /\ Probing
  BY DEF Probe
<1>2. /\ Sound(Target) /\ Target.capacity > 0 /\ IsTable(Target)
      /\ key \in Keys /\ at \in Slots(Target) /\ PassedOver(Target, key, at)
  BY <1>1, TargetGood
<1>3. Target' = Target /\ Probing'
  BY <1>1 DEF Target, Probing
<1>4. at' \in Slots(Target) /\ PassedOver(Target, key, at')
  BY <1>1, <1>2, PassOne, AfterIsSlot DEF Probe, KeyAt
<1>5. TypeOK'
  BY <1>1, <1>3, <1>4 DEF IInv, TypeOK
<1>6. (pc \in {"rebuild", "move"} => Moved)' /\ KeysOwned'
  BY <1>1 DEF IInv, Moved, KeysOwned
<1> QED  BY <1>1, <1>3, <1>4, <1>5, <1>6 DEF IInv, TooFull, NoNestedRebuild

LEMMA GetInv == ASSUME IInv, GetDone  PROVE IInv'
<1>1. UNCHANGED <<hashtable, new_hashtable, copies>> /\ pc = "get" /\ Return
  BY DEF GetDone
<1>2. TypeOK'
  BY <1>1 DEF IInv, TypeOK, Return, Probing, IsTable
<1>3. KeysOwned' /\ (Sound(hashtable) /\ Sound(new_hashtable))'
  BY <1>1 DEF IInv, KeysOwned
<1> QED  BY <1>1, <1>2, <1>3 DEF IInv, Return, Probing, TooFull, NoNestedRebuild

\* What a probing call may rely on when it stops.
LEMMA Stopped ==
    ASSUME IInv, Probing, KeyAt = Absent \/ KeyAt = key
    PROVE  /\ Sound(Target) /\ Target.capacity > 0 /\ IsTable(Target)
           /\ key \in Keys /\ at \in Slots(Target) /\ PassedOver(Target, key, at)
           /\ Target.elements[at].key = Absent \/ Target.elements[at].key = key
           /\ value \in Values \cup {Absent}
BY TargetGood DEF KeyAt

LEMMA PutInv == ASSUME IInv, PutStore  PROVE IInv'
<1>0. PICK t : t = Stored(hashtable, at, key, value)
  OBVIOUS
<1>1. Target = hashtable /\ Probing /\ pc = "put"
  BY DEF PutStore, Target, Probing
<1>2. /\ Sound(hashtable) /\ hashtable.capacity > 0 /\ IsTable(hashtable)
      /\ key \in Keys /\ at \in Slots(hashtable) /\ PassedOver(hashtable, key, at)
      /\ hashtable.elements[at].key = Absent \/ hashtable.elements[at].key = key
      /\ value \in Values \cup {Absent}
  BY <1>1, Stopped DEF PutStore
<1>3. Sound(t) /\ t.capacity = hashtable.capacity
  BY <1>0, <1>2, StoredSound
<1>4. t.capacity = hashtable.capacity
  BY <1>3
<1>5. /\ \A j \in Keys : Holds(t, j) <=> Holds(hashtable, j) \/ j = key
      /\ Holds(hashtable, key) <=> hashtable.elements[at].key = key
  BY <1>0, <1>2, StoredContents
<1>6. hashtable' = t /\ copies' = [copies EXCEPT ![key] = IF KeyAt = key THEN @ - 1 + 1 ELSE @ + 1]
  BY <1>0 DEF PutStore
<1>7. copies \in [Keys -> Int] /\ KeysOwned
  BY DEF IInv, TypeOK
<1>8. KeysOwned' /\ copies' \in [Keys -> Int]
  <2>1. KeyAt = hashtable.elements[at].key
    BY <1>1 DEF KeyAt
  <2>2. copies' = [copies EXCEPT ![key] = IF KeyAt = key THEN copies[key] - 1 + 1 ELSE copies[key] + 1]
    BY <1>6
  <2>3. copies' \in [Keys -> Int]
    BY <2>2, <1>7, <1>2
  <2>4. ASSUME NEW j \in Keys
        PROVE  copies'[j] = IF Holds(t, j) THEN 1 ELSE 0
    BY <1>2, <1>5, <1>7, <2>1, <2>2 DEF KeysOwned
  <2> QED  BY <2>3, <2>4, <1>6 DEF KeysOwned
<1>9. CASE TooFull(t)
  <2>1. /\ new_hashtable' = Doubled(t) /\ pc' = "rebuild" /\ i' = 0
        /\ key' = Absent /\ value' = Absent
    BY <1>0, <1>9 DEF PutStore
  <2>2. t.capacity \in Nat /\ 2 * t.capacity \in Nat
    BY <1>3 DEF Sound, IsTable
  <2>3. /\ Sound(new_hashtable') /\ new_hashtable'.capacity = 2 * t.capacity
        /\ new_hashtable'.length = 0 /\ Occupied(new_hashtable') = {}
    BY <2>1, <2>2, NewTableSound DEF Doubled
  <2>4. Moved'
    BY <1>6, <2>1, <2>3 DEF Moved
  <2>5. TypeOK'
    BY <1>2, <1>3, <1>4, <1>6, <1>8, <2>1, <2>2, <2>3 DEF TypeOK, Probing, Sound
  <2> QED  BY <1>3, <1>6, <1>8, <2>1, <2>3, <2>4, <2>5 DEF IInv, Probing, NoNestedRebuild
<1>10. CASE ~TooFull(t)
  <2>1. new_hashtable' = new_hashtable /\ Return
    BY <1>0, <1>10 DEF PutStore
  <2>2. TypeOK'
    <3>1. hashtable.capacity \in Nat /\ IsTable(new_hashtable)
      BY <1>2 DEF IsTable, IInv, TypeOK
    <3>2. pc' = "idle" /\ value' = Absent /\ i' = 0
      BY <2>1 DEF Return
    <3>3. hashtable'.capacity = hashtable.capacity /\ IsTable(hashtable')
      BY <1>3, <1>6 DEF Sound
    <3> QED  BY <1>2, <1>8, <2>1, <3>1, <3>2, <3>3 DEF TypeOK, Probing
  <2> QED  BY <1>3, <1>6, <1>8, <1>10, <2>1, <2>2 DEF IInv, Probing, NoNestedRebuild, Return
<1> QED  BY <1>9, <1>10

LEMMA RebuildSkipInv == ASSUME IInv, RebuildSkip  PROVE IInv'
<1>1. /\ UNCHANGED <<hashtable, new_hashtable, copies, pc, key, value, at, answer>>
      /\ pc = "rebuild" /\ i < hashtable.capacity /\ i' = i + 1
      /\ hashtable.elements[i].key = Absent
  BY DEF RebuildSkip
<1>2. TypeOK'
  BY <1>1 DEF IInv, TypeOK, Probing, IsTable
<1>3. Moved'
  <2>1. Moved /\ i \in Nat /\ new_hashtable.length \in Nat
    BY <1>1 DEF IInv, TypeOK, IsTable
  <2>2. \A x \in 0..(i' - 1) : x \in 0..(i - 1) \/ x = i
    BY <1>1, <2>1
  <2>3. \A x \in 0..(i - 1) : x \in 0..(i' - 1)
    BY <1>1, <2>1
  <2>4. new_hashtable.length <= i'
    BY <1>1, <2>1 DEF Moved
  <2> QED  BY <1>1, <2>1, <2>2, <2>3, <2>4 DEF Moved
<1> QED  BY <1>1, <1>2, <1>3 DEF IInv, Probing, KeysOwned, NoNestedRebuild

LEMMA RebuildPutInv == ASSUME IInv, RebuildPut  PROVE IInv'
<1> DEFINE e == hashtable.elements[i]
<1>1. /\ UNCHANGED <<hashtable, new_hashtable, copies, i, answer>>
      /\ pc = "rebuild" /\ i < hashtable.capacity /\ e.key # Absent
      /\ pc' = "move" /\ key' = e.key /\ value' = e.value /\ at' = Home(e.key, new_hashtable)
  BY DEF RebuildPut
<1>2. e \in Entries /\ e.key \in Keys /\ e.value \in Values \cup {Absent}
      /\ e = [key |-> e.key, value |-> e.value]
  <2>1. i \in Slots(hashtable)
    BY <1>1 DEF IInv, TypeOK, IsTable, Slots
  <2>2. e \in Entries
    BY <2>1 DEF IInv, TypeOK, IsTable
  <2> QED  BY <1>1, <2>2 DEF Entries
<1> HIDE DEF e
<1>3. Moved /\ Sound(new_hashtable) /\ IsTable(new_hashtable) /\ new_hashtable.capacity > 0
  BY <1>1 DEF IInv, TypeOK, Moved, IsTable
<1>4. at' \in Slots(new_hashtable) /\ PassedOver(new_hashtable, key', at')
  BY <1>1, <1>2, <1>3, HomeIsSlot, StartOfProbe
<1>5. Target' = new_hashtable /\ Probing'
  BY <1>1 DEF Target, Probing
<1>6. TypeOK'
  BY <1>1, <1>2, <1>4, <1>5 DEF IInv, TypeOK
<1>7. Moved' /\ KeysOwned'
  BY <1>1, <1>3 DEF IInv, Moved, KeysOwned
<1>8. hashtable'.elements[i'] = [key |-> key', value |-> value'] /\ i' < hashtable'.capacity
  BY <1>1, <1>2 DEF e
<1> QED  BY <1>1, <1>4, <1>5, <1>6, <1>7, <1>8 DEF IInv, NoNestedRebuild

LEMMA MoveInv == ASSUME IInv, MoveStore  PROVE IInv'
<1> DEFINE old == hashtable.elements
           n == new_hashtable
<1>0. PICK t : t = Stored(n, at, key, value)
  OBVIOUS
<1>1. Target = n /\ Probing /\ pc = "move"
  BY DEF MoveStore, Target, Probing
<1>2. /\ Sound(n) /\ n.capacity > 0 /\ IsTable(n)
      /\ key \in Keys /\ at \in Slots(n) /\ PassedOver(n, key, at)
      /\ n.elements[at].key = Absent \/ n.elements[at].key = key
      /\ value \in Values \cup {Absent}
  BY <1>1, Stopped DEF MoveStore
<1>3. /\ Moved /\ i < hashtable.capacity /\ old[i] = [key |-> key, value |-> value]
      /\ i \in Nat /\ hashtable.capacity \in Nat /\ Sound(hashtable) /\ n.length \in Nat
  BY <1>1, <1>2 DEF IInv, TypeOK, IsTable
<1>4. n.elements[at].key = Absent
  <2> SUFFICES ASSUME n.elements[at].key = key  PROVE FALSE
    BY <1>2
  <2>1. at \in Occupied(n)
    BY <1>2, KeysAssumption DEF Occupied
  <2>2. PICK x \in 0..(i - 1) : old[x] = n.elements[at]
    BY <1>3, <2>1 DEF Moved
  <2>3. x \in Slots(hashtable) /\ i \in Slots(hashtable) /\ x # i
    BY <1>3 DEF Slots
  <2>4. old[x].key = key /\ old[i].key = key
    BY <1>3, <2>2
  <2> QED  BY <1>2, <1>3, <2>3, <2>4, KeysAssumption DEF Sound, NoTwins, Occupied
<1>5. Sound(t) /\ t.capacity = n.capacity
  BY <1>0, <1>2, StoredSound
<1>6. /\ IsTable(t) /\ Slots(t) = Slots(n) /\ t.length = n.length + 1
      /\ \A x \in Slots(n) :
             t.elements[x] = IF x = at THEN [key |-> key, value |-> value] ELSE n.elements[x]
  <2>1. key # Absent
    BY <1>2, KeysAssumption
  <2> QED  BY <1>0, <1>2, <1>4, <2>1, StoredShape
<1>7. /\ new_hashtable' = t /\ copies' = [copies EXCEPT ![key] = IF KeyAt = key THEN @ - 1 ELSE @]
      /\ i' = i + 1 /\ key' = Absent /\ value' = Absent /\ UNCHANGED hashtable
      /\ pc' = IF TooFull(t) THEN "nested rebuild" ELSE "rebuild"
  BY <1>0 DEF MoveStore
<1>8. copies' = copies
  <2>1. KeyAt # key
    BY <1>1, <1>2, <1>4, KeysAssumption DEF KeyAt
  <2> QED  BY <1>7, <2>1 DEF IInv, TypeOK
<1>9. ~TooFull(t)
  <2>1. n.capacity = 2 * hashtable.capacity /\ n.length <= i
    BY <1>3 DEF Moved
  <2>2. t.length <= hashtable.capacity
    BY <1>3, <1>6, <2>1
  <2>3. t.capacity = 2 * hashtable.capacity /\ t.length \in Nat
    BY <1>3, <1>5, <1>6, <2>1
  <2> HIDE DEF old
  <2> QED  BY <1>3, <2>2, <2>3 DEF TooFull
<1>10. i' = i + 1 /\ i \in Nat /\ i < hashtable.capacity /\ hashtable.capacity \in Nat
  BY <1>3, <1>7
<1>11. Moved'
  <2>1. t.length <= i' /\ t.capacity = 2 * hashtable.capacity
    BY <1>3, <1>5, <1>6, <1>10 DEF Moved
  <2>2. ASSUME NEW s \in Occupied(t)
        PROVE  \E x \in 0..(i' - 1) : old[x] = t.elements[s]
    <3>1. s \in Slots(n)
      BY <1>6 DEF Occupied
    <3>2. CASE s = at
      <4>1. i \in 0..(i' - 1) /\ old[i] = t.elements[s]
        BY <1>3, <1>6, <1>10, <3>1, <3>2
      <4> QED  BY <4>1
    <3>3. CASE s # at
      <4>1. s \in Occupied(n) /\ t.elements[s] = n.elements[s]
        BY <1>6, <3>1, <3>3 DEF Occupied
      <4>2. PICK x \in 0..(i - 1) : old[x] = n.elements[s]
        BY <1>3, <4>1 DEF Moved
      <4>3. x \in 0..(i' - 1)
        BY <1>10
      <4> QED  BY <4>1, <4>2, <4>3
    <3> QED  BY <3>2, <3>3
  <2>3. ASSUME NEW x \in 0..(i' - 1), old[x].key # Absent
        PROVE  \E s \in Slots(t) : t.elements[s] = old[x]
    <3>1. CASE x = i
      BY <1>2, <1>3, <1>6, <3>1
    <3>2. CASE x # i
      <4>1. x \in 0..(i - 1)
        BY <1>10, <3>2
      <4>2. PICK s \in Slots(n) : n.elements[s] = old[x]
        BY <1>3, <2>3, <4>1 DEF Moved
      <4>3. s # at
        BY <1>4, <2>3, <4>2
      <4> QED  BY <1>6, <4>2, <4>3
    <3> QED  BY <3>1, <3>2
  <2> QED  BY <1>7, <2>1, <2>2, <2>3 DEF Moved
<1>12. TypeOK'
  <2>1. i' \in 0..hashtable.capacity
    BY <1>10
  <2> QED  BY <1>6, <1>7, <1>8, <1>9, <2>1 DEF IInv, TypeOK, Probing
<1>13. KeysOwned'
  BY <1>7, <1>8 DEF IInv, KeysOwned
<1> QED  BY <1>3, <1>5, <1>7, <1>9, <1>11, <1>12, <1>13 DEF IInv, Probing, NoNestedRebuild

\* When every slot has been passed, the new table stands for the same map.
LEMMA AllMoved ==
    ASSUME IInv, pc = "rebuild", i = hashtable.capacity
    PROVE  /\ \A k \in Keys : Holds(new_hashtable, k) <=> Holds(hashtable, k)
           /\ ContentsOf(new_hashtable) = ContentsOf(hashtable)
<1> DEFINE n == new_hashtable
<1>1. /\ Moved /\ Sound(n) /\ Sound(hashtable) /\ hashtable.capacity \in Nat
      /\ 0..(i - 1) = Slots(hashtable)
  BY DEF IInv, TypeOK, IsTable, Slots
<1>2. ASSUME NEW k \in Keys, NEW s \in Slots(n), n.elements[s].key = k
      PROVE  \E x \in Slots(hashtable) : hashtable.elements[x] = n.elements[s]
  BY <1>1, <1>2, KeysAssumption DEF Moved, Occupied
<1>3. ASSUME NEW k \in Keys, NEW x \in Slots(hashtable), hashtable.elements[x].key = k
      PROVE  \E s \in Slots(n) : n.elements[s] = hashtable.elements[x]
  BY <1>1, <1>3, KeysAssumption DEF Moved
<1>4. \A k \in Keys : Holds(n, k) <=> Holds(hashtable, k)
  <2>1. ASSUME NEW k \in Keys, Holds(n, k)  PROVE Holds(hashtable, k)
    BY <1>2, <2>1 DEF Holds
  <2>2. ASSUME NEW k \in Keys, Holds(hashtable, k)  PROVE Holds(n, k)
    BY <1>3, <2>2 DEF Holds
  <2> QED  BY <2>1, <2>2
<1>5. ASSUME NEW k \in Keys  PROVE ContentsOf(n)[k] = ContentsOf(hashtable)[k]
  <2>1. CASE Holds(n, k)
    <3>1. PICK s \in Slots(n) : n.elements[s].key = k
      BY <2>1 DEF Holds
    <3>2. PICK x \in Slots(hashtable) : hashtable.elements[x] = n.elements[s]
      BY <1>2, <3>1
    <3>3. ContentsOf(n)[k] = n.elements[s].value
      BY <1>1, <3>1, SlotValue
    <3>4. ContentsOf(hashtable)[k] = hashtable.elements[x].value
      BY <1>1, <3>1, <3>2, SlotValue
    <3> QED  BY <3>2, <3>3, <3>4
  <2>2. CASE ~Holds(n, k)
    BY <1>4, <2>2 DEF ContentsOf
  <2> QED  BY <2>1, <2>2
<1> QED  BY <1>4, <1>5 DEF ContentsOf

LEMMA RebuildDoneInv == ASSUME IInv, RebuildDone  PROVE IInv'
<1>1. /\ pc = "rebuild" /\ i = hashtable.capacity /\ hashtable' = new_hashtable
      /\ new_hashtable' = NoTable /\ Return /\ UNCHANGED copies
  BY DEF RebuildDone
<1>2. /\ Moved /\ Sound(new_hashtable) /\ IsTable(new_hashtable)
      /\ new_hashtable.capacity \in Nat /\ new_hashtable.length \in Nat
      /\ hashtable.capacity \in Nat /\ hashtable.capacity > 0
  BY <1>1 DEF IInv, TypeOK, IsTable
<1>3. new_hashtable.capacity > 0 /\ ~TooFull(new_hashtable)
  BY <1>1, <1>2 DEF Moved, TooFull
<1>4. Sound(NoTable) /\ IsTable(NoTable)
  BY NewTableSound DEF NoTable, Sound
<1>5. KeysOwned'
  BY <1>1, AllMoved DEF IInv, KeysOwned
<1>6. TypeOK'
  BY <1>1, <1>2, <1>3, <1>4 DEF IInv, TypeOK, Probing, Return
<1> QED  BY <1>1, <1>2, <1>3, <1>4, <1>5, <1>6 DEF IInv, Probing, NoNestedRebuild, Return

LEMMA DestroyInv == ASSUME IInv, Destroy  PROVE IInv'
<1>1. /\ pc = "idle" /\ hashtable' = NewTable(InitialCapacity)
      /\ UNCHANGED <<new_hashtable, pc, key, value, at, i>>
      /\ copies' = [k \in Keys |->
             copies[k] - Cardinality({s \in Slots(hashtable) : hashtable.elements[s].key = k})]
  BY DEF Destroy
<1>2. /\ Sound(hashtable') /\ hashtable'.capacity = InitialCapacity /\ hashtable'.length = 0
      /\ \A k \in Keys : ~Holds(hashtable', k)
  BY <1>1, NewTableSound, CapacityAssumption
<1>3. ASSUME NEW k \in Keys  PROVE copies'[k] = 0
  <2> DEFINE S == {s \in Slots(hashtable) : hashtable.elements[s].key = k}
  <2>1. CASE Holds(hashtable, k)
    <3>1. PICK s \in Slots(hashtable) : hashtable.elements[s].key = k
      BY <2>1 DEF Holds
    <3>2. S = {s}
      BY <3>1, KeysAssumption DEF IInv, Sound, NoTwins, Occupied
    <3>3. Cardinality(S) = 1
      BY <3>2, FS_Singleton
    <3> QED  BY <1>1, <2>1, <3>3 DEF IInv, KeysOwned
  <2>2. CASE ~Holds(hashtable, k)
    <3>1. S = {}
      BY <2>2 DEF Holds
    <3>2. Cardinality(S) = 0
      BY <3>1, FS_EmptySet
    <3> QED  BY <1>1, <2>2, <3>2 DEF IInv, KeysOwned
  <2> QED  BY <2>1, <2>2
<1>4. KeysOwned' /\ copies' \in [Keys -> Int]
  <2>1. copies' = [k \in Keys |-> 0]
    BY <1>1, <1>3
  <2> QED  BY <1>2, <2>1 DEF KeysOwned
<1>5. (pc = "idle" => i = 0)'
  BY <1>1 DEF IInv
<1>6. TypeOK'
  BY <1>1, <1>2, <1>4, <1>5, CapacityAssumption DEF IInv, TypeOK, Probing, Sound
<1> QED  BY <1>1, <1>2, <1>4, <1>6, CapacityAssumption DEF IInv, Probing, TooFull, NoNestedRebuild

LEMMA NextInv == IInv /\ [Next]_tableVars => IInv'
<1> SUFFICES ASSUME IInv, [Next]_tableVars  PROVE IInv'
  OBVIOUS
<1>1. CASE \E k \in Keys, v \in Values : Put(k, v)
  BY <1>1, CallInv
<1>2. CASE \E k \in Keys : Get(k)
  BY <1>2, CallInv
<1>3. CASE Work
  BY <1>3, ProbeInv, GetInv, PutInv, RebuildSkipInv, RebuildPutInv, MoveInv, RebuildDoneInv DEF Work
<1>4. CASE Destroy
  BY <1>4, DestroyInv
<1>5. CASE UNCHANGED tableVars
  BY <1>5 DEF tableVars, IInv, TypeOK, Probing, Target, Moved, TooFull, NoNestedRebuild, KeysOwned
<1> QED  BY <1>1, <1>2, <1>3, <1>4, <1>5 DEF Next

LEMMA Invariance == Spec => []IInv
<1>1. QED  BY InitInv, NextInv, PTL DEF Spec

-----------------------------------------------------------------------------
(* Theorems.                                                                *)

\* Every variable of hashtable.c keeps its type, and slots stay inside the table.
THEOREM TypeCorrect == Spec => []TypeOK
<1>1. IInv => TypeOK
  BY DEF IInv
<1> QED  BY <1>1, Invariance, PTL

\* Probing finds every key, once, in both tables, at every step of a rebuild.
THEOREM Findable == Spec => []KeysFindable
<1>1. IInv => KeysFindable
  BY DEF IInv, KeysFindable, Sound
<1> QED  BY <1>1, Invariance, PTL

\* The doubled table is never rebuilt while it is filled.
THEOREM OneRebuildAtATime == Spec => []NoNestedRebuild
<1>1. IInv => NoNestedRebuild
  BY DEF IInv
<1> QED  BY <1>1, Invariance, PTL

\* A probe always has an empty slot ahead to stop at.
THEOREM ProbesHaveRoom == Spec => []RoomToProbe
<1>1. ASSUME IInv, Probing  PROVE \E s \in Slots(Target) : Target.elements[s].key = Absent
  <2>1. Sound(Target) /\ Target.capacity > 0 /\ IsTable(Target)
    BY <1>1, TargetGood
  <2>2. Target.capacity \in Nat /\ Target.length \in Nat
    BY <2>1 DEF IsTable
  <2>3. Target.length < Target.capacity
    <3>1. CASE pc = "move"
      <4>1. Moved /\ i < hashtable.capacity /\ i \in Nat /\ hashtable.capacity \in Nat
        BY <3>1, <1>1 DEF IInv, TypeOK, IsTable
      <4>2. Target.capacity = 2 * hashtable.capacity /\ Target.length <= i
        BY <3>1, <4>1 DEF Moved, Target
      <4> QED  BY <2>2, <4>1, <4>2
    <3>2. CASE pc # "move"
      <4>1. ~TooFull(Target)
        BY <1>1, <3>2 DEF IInv, Probing, Target
      <4> QED  BY <2>1, <2>2, <4>1 DEF TooFull
    <3> QED  BY <3>1, <3>2
  <2> QED  BY <2>1, <2>3, EmptySlot
<1>2. IInv => RoomToProbe
  BY <1>1 DEF RoomToProbe
<1> QED  BY <1>2, Invariance, PTL

\* One copy of each key in the table, none of any other: no leak, no double free.
THEOREM CopiesOwned == Spec => []KeysOwned
<1>1. IInv => KeysOwned
  BY DEF IInv
<1> QED  BY <1>1, Invariance, PTL

\* The empty table is the empty map.
LEMMA EmptyContents == ASSUME NEW n \in Nat  PROVE ContentsOf(NewTable(n)) = M!EmptyMap
BY NewTableSound DEF ContentsOf, M!EmptyMap

LEMMA StepImplementsMap ==
    ASSUME IInv, [Next]_tableVars
    PROVE  [M!Next]_(M!mapVars)
<1>0. Contents = ContentsOf(hashtable) /\ Contents' = ContentsOf(hashtable')
  BY DEF Contents
<1>1. CASE UNCHANGED <<hashtable, answer>>
  BY <1>0, <1>1 DEF M!mapVars
<1>2. CASE GetDone
  <2>1. /\ pc = "get" /\ Target = hashtable /\ Probing /\ hashtable' = hashtable
        /\ answer' = <<key, IF KeyAt = key THEN hashtable.elements[at].value ELSE Absent>>
    BY <1>2 DEF GetDone, Target, Probing
  <2>2. /\ Sound(hashtable) /\ hashtable.capacity > 0 /\ key \in Keys /\ at \in Slots(hashtable)
        /\ PassedOver(hashtable, key, at) /\ KeyAt = hashtable.elements[at].key
        /\ hashtable.elements[at].key = Absent \/ hashtable.elements[at].key = key
    BY <1>2, <2>1, Stopped DEF GetDone, KeyAt
  <2>3. Contents[key] = IF KeyAt = key THEN hashtable.elements[at].value ELSE Absent
    <3>1. CASE KeyAt = key
      BY <1>0, <2>2, <3>1, SlotValue
    <3>2. CASE KeyAt # key
      <4>1. ~Holds(hashtable, key)
        BY <2>2, <3>2, MissIsAbsence
      <4> QED  BY <1>0, <2>2, <3>2, <4>1 DEF ContentsOf
    <3> QED  BY <3>1, <3>2
  <2>4. M!Get(key)
    BY <1>0, <2>1, <2>3 DEF M!Get
  <2> QED  BY <2>2, <2>4 DEF M!Next
<1>3. CASE PutStore
  <2>1. /\ pc = "put" /\ Target = hashtable /\ Probing /\ answer' = answer
        /\ hashtable' = Stored(hashtable, at, key, value)
    BY <1>3 DEF PutStore, Target, Probing
  <2>2. /\ Sound(hashtable) /\ hashtable.capacity > 0 /\ key \in Keys /\ at \in Slots(hashtable)
        /\ PassedOver(hashtable, key, at)
        /\ hashtable.elements[at].key = Absent \/ hashtable.elements[at].key = key
        /\ value \in Values
    BY <1>3, <2>1, Stopped DEF PutStore, IInv
  <2>3. Contents' = [Contents EXCEPT ![key] = value]
    BY <1>0, <2>1, <2>2, StoredContents
  <2>4. M!Put(key, value)
    BY <2>1, <2>3 DEF M!Put
  <2> QED  BY <2>2, <2>4 DEF M!Next
<1>4. CASE RebuildDone
  <2>1. pc = "rebuild" /\ i = hashtable.capacity /\ hashtable' = new_hashtable /\ answer' = answer
    BY <1>4 DEF RebuildDone
  <2>2. Contents' = Contents
    BY <1>0, <2>1, AllMoved
  <2> QED  BY <2>1, <2>2 DEF M!mapVars
<1>5. CASE Destroy
  <2>1. hashtable' = NewTable(InitialCapacity) /\ answer' = answer
    BY <1>5 DEF Destroy
  <2>2. Contents' = M!EmptyMap
    BY <1>0, <2>1, EmptyContents, CapacityAssumption
  <2> QED  BY <2>1, <2>2 DEF M!Next, M!Clear
<1> QED
  BY <1>1, <1>2, <1>3, <1>4, <1>5
  DEF Next, Work, Put, Get, Probe, RebuildSkip, RebuildPut, MoveStore, tableVars

\* Seen from outside, hashtable.c is a map: whatever collides, wraps or is
\* rebuilt, get returns what was put last.
THEOREM TableImplementsMap == Spec => ImplementsMap
<1>1. Init => M!Init
  BY EmptyContents, CapacityAssumption DEF Init, M!Init, Contents
<1>2. IInv /\ [Next]_tableVars => [M!Next]_(M!mapVars)
  BY StepImplementsMap
<1> QED  BY <1>1, <1>2, Invariance, PTL DEF Spec, ImplementsMap, M!Spec
=============================================================================
