------------------------------ MODULE Hashtable ------------------------------
(***************************************************************************)
(* hashtable.c, one probe at a time: the open-addressing table behind the  *)
(* bindings of every environment and the table of primitives, with         *)
(* HT_COPY_KEY and not HT_COPY_VALUE, as both of them ask for.             *)
(***************************************************************************)
EXTENDS Integers, FiniteSets

CONSTANTS Keys,             \* the texts used as keys
          Values,           \* what they may be bound to
          Hash,             \* the hash of each text
          InitialCapacity,  \* the size given to hashtable_create
          Absent, Nothing   \* NULL, and no answer yet

ASSUME KeysAssumption == Absent \notin Keys /\ Absent \notin Values
ASSUME HashAssumption == Hash \in [Keys -> Nat]
ASSUME CapacityAssumption ==
    InitialCapacity \in Nat \ {0} /\ \E n \in 0..30 : InitialCapacity = 2^n

VARIABLES hashtable,      \* the user's table
          new_hashtable,  \* the table that rebuild_hashtable fills
          copies,   \* how many copies of each key are allocated
          pc,       \* "idle", in "put" or "get", in "rebuild", or in "move":
                    \* the hashtable_put into the new table
          key, value,   \* the arguments of the running call
          at,       \* hash, the slot it looks at
          i,        \* the rebuild's index into the old table
          answer    \* the last answer of hashtable_get

tableVars == <<hashtable, new_hashtable, copies, pc, key, value, at, i, answer>>

Entries == [key : Keys \cup {Absent}, value : Values \cup {Absent}]
NoEntry == [key |-> Absent, value |-> Absent]
NewTable(size) ==
    [capacity |-> size, length |-> 0, elements |-> [s \in 0..(size - 1) |-> NoEntry]]
NoTable == NewTable(0)
\* Fault: the new table is no larger.
DoubledNot(t) == NewTable(t.capacity)
Doubled(t) == NewTable(2 * t.capacity)

Slots(t) == 0..(t.capacity - 1)
Occupied(t) == {s \in Slots(t) : t.elements[s].key # Absent}

\* Fault: a hash is not cut down to the size of the table.
HomeUncut(k, t) == Hash[k]
\* "& (capacity - 1)" is the remainder: every capacity is a power of two.
Home(k, t) == Hash[k] % t.capacity
\* Fault: a probe at the end of the table stays there.
AfterStuck(s, t) == IF s = t.capacity - 1 THEN s ELSE s + 1
After(s, t) == IF s = t.capacity - 1 THEN 0 ELSE s + 1

\* Fault: the load is tested before the new entry is counted.
TooFullLate(t) == 10 * (t.length - 1) > 7 * t.capacity
\* (float)length / capacity > 0.7f
TooFull(t) == 10 * t.length > 7 * t.capacity

\* An entry is put in slot s; the length counts it unless its key was there.
Stored(t, s, k, v) ==
    [t EXCEPT !.elements = [@ EXCEPT ![s] = [key |-> k, value |-> v]],
              !.length = IF t.elements[s].key = k THEN @ ELSE @ + 1]

-----------------------------------------------------------------------------
Init ==
    /\ hashtable = NewTable(InitialCapacity)
    /\ new_hashtable = NoTable
    /\ copies = [k \in Keys |-> 0]
    /\ pc = "idle"
    /\ key = Absent /\ value = Absent /\ at = 0 /\ i = 0
    /\ answer = Nothing

Put(k, v) ==
    /\ pc = "idle"
    /\ pc' = "put" /\ key' = k /\ value' = v
    /\ at' = Home(k, hashtable)
    /\ UNCHANGED <<hashtable, new_hashtable, copies, i, answer>>

Get(k) ==
    /\ pc = "idle"
    /\ pc' = "get" /\ key' = k
    /\ at' = Home(k, hashtable)
    /\ UNCHANGED <<hashtable, new_hashtable, copies, value, i, answer>>

\* The table the running call probes, and the key in the slot it looks at.
Probing == pc \in {"put", "get", "move"}
Target == IF pc = "move" THEN new_hashtable ELSE hashtable
KeyAt == Target.elements[at].key

Return == pc' = "idle" /\ key' = Absent /\ value' = Absent /\ at' = 0 /\ i' = 0

\* The slot holds another key: look at the next one.
Probe ==
    /\ Probing
    /\ KeyAt # Absent /\ KeyAt # key
    /\ at' = After(at, Target)
    /\ UNCHANGED <<hashtable, new_hashtable, copies, pc, key, value, i, answer>>

GetDone ==
    /\ pc = "get" /\ (KeyAt = Absent \/ KeyAt = key)
    /\ answer' = <<key, IF KeyAt = key THEN hashtable.elements[at].value ELSE Absent>>
    /\ Return
    /\ UNCHANGED <<hashtable, new_hashtable, copies>>

\* The copy of the same key is freed and made again, a new key is copied.
PutStore ==
    LET t == Stored(hashtable, at, key, value)
    IN  /\ pc = "put" /\ (KeyAt = Absent \/ KeyAt = key)
        /\ copies' = [copies EXCEPT ![key] = IF KeyAt = key THEN @ - 1 + 1 ELSE @ + 1]
        /\ hashtable' = t
        /\ \/ /\ TooFull(t)
              /\ new_hashtable' = Doubled(t)
              /\ pc' = "rebuild" /\ key' = Absent /\ value' = Absent /\ at' = 0 /\ i' = 0
           \/ /\ ~TooFull(t)
              /\ Return
              /\ UNCHANGED new_hashtable
        /\ UNCHANGED answer

-----------------------------------------------------------------------------
(* rebuild_hashtable.  With _internal_put the pointers move: no key is      *)
(* copied when it is put, none is freed when the old table goes.            *)

RebuildSkip ==
    /\ pc = "rebuild" /\ i < hashtable.capacity
    /\ hashtable.elements[i].key = Absent
    /\ i' = i + 1
    /\ UNCHANGED <<hashtable, new_hashtable, copies, pc, key, value, at, answer>>

\* Fault: an entry keeps its slot in the larger table.
RebuildPutInPlace ==
    LET entry == hashtable.elements[i]
    IN  /\ pc = "rebuild" /\ i < hashtable.capacity
        /\ entry.key # Absent
        /\ pc' = "move" /\ key' = entry.key /\ value' = entry.value
        /\ at' = i
        /\ UNCHANGED <<hashtable, new_hashtable, copies, i, answer>>

RebuildPut ==
    LET entry == hashtable.elements[i]
    IN  /\ pc = "rebuild" /\ i < hashtable.capacity
        /\ entry.key # Absent
        /\ pc' = "move" /\ key' = entry.key /\ value' = entry.value
        /\ at' = Home(entry.key, new_hashtable)
        /\ UNCHANGED <<hashtable, new_hashtable, copies, i, answer>>

\* Fault: the put of a rebuild copies the key, as any other put does.
MoveStoreCopies ==
    LET t == Stored(new_hashtable, at, key, value)
    IN  /\ pc = "move" /\ (KeyAt = Absent \/ KeyAt = key)
        /\ copies' = [copies EXCEPT ![key] = @ + 1]
        /\ new_hashtable' = t
        /\ pc' = IF TooFull(t) THEN "nested rebuild" ELSE "rebuild"
        /\ key' = Absent /\ value' = Absent /\ at' = 0
        /\ i' = i + 1
        /\ UNCHANGED <<hashtable, answer>>

\* A key that was there already would be freed, although it had only moved; a
\* new table that is too full would be rebuilt by this put.
MoveStore ==
    LET t == Stored(new_hashtable, at, key, value)
    IN  /\ pc = "move" /\ (KeyAt = Absent \/ KeyAt = key)
        /\ copies' = [copies EXCEPT ![key] = IF KeyAt = key THEN @ - 1 ELSE @]
        /\ new_hashtable' = t
        /\ pc' = IF TooFull(t) THEN "nested rebuild" ELSE "rebuild"
        /\ key' = Absent /\ value' = Absent /\ at' = 0
        /\ i' = i + 1
        /\ UNCHANGED <<hashtable, answer>>

\* Fault: the rebuild forgets the last slot.
RebuildDoneEarly ==
    /\ pc = "rebuild" /\ i >= hashtable.capacity - 1
    /\ hashtable' = new_hashtable
    /\ new_hashtable' = NoTable
    /\ Return
    /\ UNCHANGED <<copies, answer>>

RebuildDone ==
    /\ pc = "rebuild" /\ i = hashtable.capacity
    /\ hashtable' = new_hashtable
    /\ new_hashtable' = NoTable
    /\ Return
    /\ UNCHANGED <<copies, answer>>

\* hashtable_destroy, as env_free and prims_destroy call it, frees the copy in
\* each slot; the table created in its place is empty.
Destroy ==
    /\ pc = "idle"
    /\ copies' = [k \in Keys |->
           copies[k] - Cardinality({s \in Slots(hashtable) : hashtable.elements[s].key = k})]
    /\ hashtable' = NewTable(InitialCapacity)
    /\ UNCHANGED <<new_hashtable, pc, key, value, at, i, answer>>

\* The steps a running call takes by itself.
Work == Probe \/ GetDone \/ PutStore \/ RebuildSkip \/ RebuildPut \/ MoveStore \/ RebuildDone

Next ==
    \/ \E k \in Keys, v \in Values : Put(k, v)
    \/ \E k \in Keys : Get(k)
    \/ Work
    \/ Destroy

Spec == Init /\ [][Next]_tableVars
\* hashtable.c never waits.
FairSpec == Spec /\ WF_tableVars(Work)

-----------------------------------------------------------------------------
(* Properties.                                                              *)

IsTable(t) ==
    /\ t = [capacity |-> t.capacity, length |-> t.length, elements |-> t.elements]
    /\ t.capacity \in Nat
    /\ t.length \in Nat
    /\ t.elements \in [Slots(t) -> Entries]

\* Every variable has its type: what every function of hashtable.c keeps.
TypeOK ==
    /\ IsTable(hashtable) /\ hashtable.capacity > 0
    /\ IsTable(new_hashtable)
    /\ copies \in [Keys -> Int]
    /\ pc \in {"idle", "put", "get", "rebuild", "move", "nested rebuild"}
    /\ Probing => key \in Keys /\ at \in Slots(Target)
    /\ value \in Values \cup {Absent}
    /\ i \in 0..hashtable.capacity

\* The slots a probe passes on its way from h to s.
Passed(h, x, s) == IF h <= s THEN h <= x /\ x < s ELSE x >= h \/ x < s

NoGaps(t) ==
    \A s \in Occupied(t) : \A x \in Slots(t) :
        Passed(Home(t.elements[s].key, t), x, s) => t.elements[x].key # Absent
NoTwins(t) ==
    \A s, x \in Occupied(t) : t.elements[s].key = t.elements[x].key => s = x

\* A probe that starts where its hash sends it meets every key before an empty
\* slot, and meets it once, in the table in use and in the one being filled.
KeysFindable == \A t \in {hashtable, new_hashtable} : NoGaps(t) /\ NoTwins(t)

\* Whenever hashtable_get or hashtable_put probes, an empty slot is left to
\* stop at: the loops of hashtable.c have no other end.
RoomToProbe == Probing => \E s \in Slots(Target) : Target.elements[s].key = Absent

\* A rebuild never fills the doubled table so far that its puts would rebuild
\* it too, behind the back of the outer rebuild that holds its old address.
NoNestedRebuild == pc # "nested rebuild"

\* The map that a table stands for.
Holds(t, k) == \E s \in Slots(t) : t.elements[s].key = k
SlotOf(t, k) == CHOOSE s \in Slots(t) : t.elements[s].key = k
ContentsOf(t) == [k \in Keys |-> IF Holds(t, k) THEN t.elements[SlotOf(t, k)].value ELSE Absent]
Contents == ContentsOf(hashtable)

\* Exactly one copy of a key is allocated while the table holds it, none when
\* it does not: nothing leaks or is freed twice by replacing, rebuilding and
\* destroying.
KeysOwned == \A k \in Keys : copies[k] = IF Holds(hashtable, k) THEN 1 ELSE 0

M == INSTANCE HashMap WITH map <- Contents

\* Probes, replacements and rebuilds, seen from outside, are the steps of a map:
\* no rebuild loses, changes or resurrects a binding.
ImplementsMap == M!Spec

\* Every call of hashtable_put and hashtable_get returns.
CallsReturn == []<>(pc = "idle")
=============================================================================
