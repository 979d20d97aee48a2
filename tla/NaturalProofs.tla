---------------------------- MODULE NaturalProofs ----------------------------
(***************************************************************************)
(* Facts about natural numbers that the other proofs share: least          *)
(* elements, induction over a set, and functions defined by iteration.     *)
(***************************************************************************)
EXTENDS Integers, FiniteSetTheorems, TLAPS

LEMMA Least ==
    ASSUME NEW H \in SUBSET Nat, H # {}
    PROVE  \E m \in H : \A k \in H : m <= k
<1> DEFINE T == {1..k : k \in H}
<1>1. T \subseteq FiniteSubsetsOf(Nat) /\ T # {}
  <2>1. ASSUME NEW k \in H PROVE 1..k \in SUBSET Nat /\ IsFiniteSet(1..k)
    BY FS_Interval
  <2>2. QED BY <2>1 DEF FiniteSubsetsOf
<1>2. PICK S \in T : \A U \in T : <<U, S>> \notin StrictSubsetOrdering(Nat)
  BY <1>1, FS_StrictSubsetOrderingWellFounded, WFMin
<1>3. PICK m \in H : S = 1..m
  OBVIOUS
<1>4. ASSUME NEW k \in H, k < m PROVE FALSE
  <2>1. 1..k \subseteq 1..m /\ 1..k # 1..m
    <3>1. m \in 1..m /\ m \notin 1..k
      BY <1>4
    <3>2. QED BY <3>1, <1>4
  <2>2. <<1..k, S>> \in StrictSubsetOrdering(Nat)
    BY <2>1, <1>3 DEF StrictSubsetOrdering
  <2>3. QED BY <2>2, <1>2
<1>5. QED BY <1>4

LEMMA Induction ==
    ASSUME NEW N \in SUBSET Nat, 0 \in N, \A n \in N : n + 1 \in N
    PROVE  N = Nat
<1>1. SUFFICES ASSUME Nat \ N # {} PROVE FALSE
  OBVIOUS
<1>2. PICK m \in Nat \ N : \A k \in Nat \ N : m <= k
  BY <1>1, Least
<1>3. m - 1 \in N
  BY <1>2
<1>4. (m - 1) + 1 \in N
  BY <1>3
<1>5. QED BY <1>4

Iterates(f, x, g) == f[0] = x /\ \A n \in Nat : f[n + 1] = g[f[n]]

\* A function may be defined by its first value and a step.
LEMMA Iteration ==
    ASSUME NEW S, NEW x \in S, NEW g \in [S -> S]
    PROVE  \E f \in [Nat -> S] : Iterates(f, x, g)
<1> DEFINE Upto(h, n) == h \in [0 .. n -> S] /\ h[0] = x /\ \A k \in 0 .. n - 1 : h[k + 1] = g[h[k]]
<1>1. \A n \in Nat : \E h : Upto(h, n)
  <2> DEFINE N == {n \in Nat : \E h : Upto(h, n)}
  <2>1. 0 \in N
    <3>1. Upto([k \in 0 .. 0 |-> x], 0)
      OBVIOUS
    <3>2. QED BY <3>1
  <2>2. ASSUME NEW n \in N PROVE n + 1 \in N
    <3>1. PICK h : Upto(h, n)
      OBVIOUS
    <3> DEFINE h2 == [k \in 0 .. n + 1 |-> IF k = n + 1 THEN g[h[n]] ELSE h[k]]
    <3>2. h2 \in [0 .. n + 1 -> S]
      BY <3>1
    <3>3. h2[0] = x
      BY <3>1
    <3>4. ASSUME NEW k \in 0 .. (n + 1) - 1 PROVE h2[k + 1] = g[h2[k]]
      <4>1. CASE k = n
        BY <4>1
      <4>2. CASE k < n
        BY <4>2, <3>1
      <4>3. QED BY <4>1, <4>2
    <3>5. Upto(h2, n + 1)
      BY <3>2, <3>3, <3>4
    <3> HIDE DEF h2
    <3>6. \E up : Upto(up, n + 1)
      BY <3>5
    <3>7. QED BY <3>6
  <2> HIDE DEF N
  <2>3. N = Nat
    BY <2>1, <2>2, Induction DEF N
  <2>4. QED BY <2>3 DEF N
<1>2. ASSUME NEW m \in Nat, NEW n \in Nat, NEW h1, NEW h2, Upto(h1, m), Upto(h2, n)
      PROVE  \A k \in Nat : k <= m /\ k <= n => h1[k] = h2[k]
  <2> DEFINE N == {k \in Nat : k <= m /\ k <= n => h1[k] = h2[k]}
  <2>1. 0 \in N
    BY <1>2
  <2>2. ASSUME NEW k \in N PROVE k + 1 \in N
    BY <1>2
  <2> HIDE DEF N
  <2>3. N = Nat
    BY <2>1, <2>2, Induction DEF N
  <2>4. QED BY <2>3 DEF N
<1> DEFINE F(n) == CHOOSE h : Upto(h, n)
           f == [n \in Nat |-> F(n)[n]]
<1>3. \A n \in Nat : Upto(F(n), n)
  BY <1>1
<1> HIDE DEF F
<1>4. f \in [Nat -> S]
  BY <1>3
<1>5. f[0] = x
  BY <1>3
<1>6. ASSUME NEW n \in Nat PROVE f[n + 1] = g[f[n]]
  <2>1. F(n + 1)[n + 1] = g[F(n + 1)[n]]
    BY <1>3
  <2>2. F(n + 1)[n] = F(n)[n]
    <3>1. Upto(F(n + 1), n + 1) /\ Upto(F(n), n) /\ n + 1 \in Nat
      BY <1>3
    <3> HIDE DEF Upto
    <3>2. \A k \in Nat : k <= n + 1 /\ k <= n => F(n + 1)[k] = F(n)[k]
      BY <3>1, <1>2
    <3>3. QED BY <3>2
  <2>3. QED BY <2>1, <2>2
<1> HIDE DEF f
<1>7. Iterates(f, x, g)
  BY <1>5, <1>6 DEF Iterates
<1>8. QED BY <1>4, <1>7
=============================================================================
