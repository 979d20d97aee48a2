----------------------------- MODULE FramesProofs -----------------------------
(***************************************************************************)
(* Proofs about the frames on the stack of the evaluator: every label      *)
(* finds what was pushed for it, and the registers come back, unless an    *)
(* error ends an evaluation or the stack is full.                          *)
(***************************************************************************)
EXTENDS EvaluatorProofs

-----------------------------------------------------------------------------
(* Frames.                                                                 *)

\* The frames from f down reach the host's registers.
Stands(s, c, f) ==
    \E k \in Nat : (\A i \in 0 .. k : Fits(s, c, FramesFrom(s, c, f)[i])) /\ Bottom(c, FramesFrom(s, c, f)[k])

LEMMA FramesStep ==
    ASSUME NEW s, NEW c, NEW f
    PROVE  /\ FramesFrom(s, c, f)[0] = f
           /\ \A k \in Nat : FramesFrom(s, c, f)[k + 1] = Beneath(s, c, FramesFrom(s, c, f)[k])
<1> DEFINE Upto(h, n) == h[0] = f /\ \A k \in 0 .. n - 1 : h[k + 1] = Beneath(s, c, h[k])
           Frames(h) == h = [k \in Nat |-> IF k = 0 THEN f ELSE Beneath(s, c, h[k - 1])]
<1>1. \A n \in Nat : \E h : Upto(h, n)
  <2> DEFINE N == {n \in Nat : \E h : Upto(h, n)}
  <2>1. 0 \in N
    <3>1. Upto([k \in 0 .. 0 |-> f], 0)
      OBVIOUS
    <3>2. QED BY <3>1
  <2>2. ASSUME NEW n \in N PROVE n + 1 \in N
    <3>1. PICK h : Upto(h, n)
      OBVIOUS
    <3> DEFINE h2 == [k \in 0 .. n + 1 |-> IF k = n + 1 THEN Beneath(s, c, h[n]) ELSE h[k]]
    <3>2. h2[0] = f
      BY <3>1
    <3>3. ASSUME NEW k \in 0 .. (n + 1) - 1 PROVE h2[k + 1] = Beneath(s, c, h2[k])
      <4>1. CASE k = n
        BY <4>1
      <4>2. CASE k < n
        <5>1. h2[k + 1] = h[k + 1] /\ h2[k] = h[k] /\ k \in 0 .. n - 1
          BY <4>2
        <5>2. QED BY <5>1, <3>1
      <4>3. QED BY <4>1, <4>2
    <3>4. Upto(h2, n + 1)
      BY <3>2, <3>3
    <3> HIDE DEF h2
    <3>5. \E h3 : Upto(h3, n + 1)
      BY <3>4
    <3>6. QED BY <3>5
  <2> HIDE DEF N
  <2>3. N = Nat
    BY <2>1, <2>2, Induction DEF N
  <2>4. QED BY <2>3 DEF N
<1>2. ASSUME NEW m \in Nat, NEW n \in Nat, NEW h1, NEW h2, Upto(h1, m), Upto(h2, n)
      PROVE  \A k \in Nat : k <= m /\ k <= n => h1[k] = h2[k]
  <2> DEFINE N == {k \in Nat : k <= m /\ k <= n => h1[k] = h2[k]}
  <2>1. 0 \in N
    BY <1>2
  <2>2. ASSUME NEW k \in N PROVE k + 1 \in N
    <3>1. CASE k + 1 <= m /\ k + 1 <= n
      <4>1. h1[k + 1] = Beneath(s, c, h1[k]) /\ h2[k + 1] = Beneath(s, c, h2[k]) /\ h1[k] = h2[k]
        BY <1>2, <3>1
      <4>2. QED BY <4>1
    <3>2. QED BY <3>1
  <2> HIDE DEF N
  <2>3. N = Nat
    BY <2>1, <2>2, Induction DEF N
  <2>4. QED BY <2>3 DEF N
<1> DEFINE F(n) == CHOOSE h : Upto(h, n)
           g == [n \in Nat |-> F(n)[n]]
<1>3. \A n \in Nat : Upto(F(n), n)
  BY <1>1
<1> HIDE DEF F
<1>4. ASSUME NEW n \in Nat PROVE g[n + 1] = Beneath(s, c, g[n])
  <2>1. Upto(F(n + 1), n + 1) /\ Upto(F(n), n) /\ n + 1 \in Nat
    BY <1>3
  <2>2. F(n + 1)[n + 1] = Beneath(s, c, F(n + 1)[n])
    BY <2>1
  <2> HIDE DEF Upto
  <2>3. F(n + 1)[n] = F(n)[n]
    <3>1. \A k \in Nat : k <= n + 1 /\ k <= n => F(n + 1)[k] = F(n)[k]
      BY <2>1, <1>2
    <3>2. QED BY <3>1
  <2>4. QED BY <2>2, <2>3
<1>5. g[0] = f
  BY <1>3
<1>6. Frames(g)
  <2>1. ASSUME NEW k \in Nat PROVE g[k] = IF k = 0 THEN f ELSE Beneath(s, c, g[k - 1])
    <3>1. CASE k = 0
      BY <3>1, <1>5
    <3>2. CASE k # 0
      <4>1. k - 1 \in Nat /\ (k - 1) + 1 = k
        BY <3>2
      <4>2. g[(k - 1) + 1] = Beneath(s, c, g[k - 1])
        BY <4>1, <1>4
      <4>3. QED BY <3>2, <4>1, <4>2
    <3>3. QED BY <3>1, <3>2
  <2>2. g = [k \in Nat |-> g[k]]
    OBVIOUS
  <2> HIDE DEF g
  <2>3. QED BY <2>1, <2>2
<1> DEFINE frame == CHOOSE h : Frames(h)
<1> HIDE DEF g
<1>7. Frames(frame)
  BY <1>6
<1>8. FramesFrom(s, c, f) = frame
  BY DEF FramesFrom
<1> HIDE DEF frame
<1>9. frame[0] = f
  BY <1>7
<1>10. ASSUME NEW k \in Nat PROVE frame[k + 1] = Beneath(s, c, frame[k])
  <2>1. k + 1 \in Nat /\ k + 1 # 0 /\ (k + 1) - 1 = k
    OBVIOUS
  <2>2. frame[k + 1] = IF k + 1 = 0 THEN f ELSE Beneath(s, c, frame[(k + 1) - 1])
    BY <1>7, <2>1
  <2>3. QED BY <2>1, <2>2
<1>11. QED BY <1>8, <1>9, <1>10

LEMMA FramesBeneath ==
    ASSUME NEW s, NEW c, NEW f
    PROVE  \A k \in Nat : FramesFrom(s, c, Beneath(s, c, f))[k] = FramesFrom(s, c, f)[k + 1]
<1> DEFINE above == FramesFrom(s, c, f)
           below == FramesFrom(s, c, Beneath(s, c, f))
           N == {k \in Nat : below[k] = above[k + 1]}
<1>1. /\ above[0] = f /\ below[0] = Beneath(s, c, f)
      /\ \A k \in Nat : above[k + 1] = Beneath(s, c, above[k]) /\ below[k + 1] = Beneath(s, c, below[k])
  BY FramesStep
<1> HIDE DEF above, below
<1>2. 0 \in N
  BY <1>1
<1>3. ASSUME NEW k \in N PROVE k + 1 \in N
  <2>1. below[k + 1] = Beneath(s, c, above[k + 1]) /\ above[(k + 1) + 1] = Beneath(s, c, above[k + 1])
    BY <1>1
  <2>2. QED BY <2>1
<1> HIDE DEF N
<1>4. N = Nat
  BY <1>2, <1>3, Induction DEF N
<1>5. QED BY <1>4 DEF N, above, below

\* What stands at f: f itself, and what is beneath it unless it is the bottom.
LEMMA StandsStep ==
    ASSUME NEW s, NEW c, NEW f
    PROVE  Stands(s, c, f) <=> Fits(s, c, f) /\ (Bottom(c, f) \/ Stands(s, c, Beneath(s, c, f)))
<1> DEFINE above == FramesFrom(s, c, f)
           below == FramesFrom(s, c, Beneath(s, c, f))
<1>1. above[0] = f /\ \A k \in Nat : below[k] = above[k + 1]
  BY FramesStep, FramesBeneath
<1>2. /\ Stands(s, c, f) <=> \E k \in Nat : (\A i \in 0 .. k : Fits(s, c, above[i])) /\ Bottom(c, above[k])
      /\ Stands(s, c, Beneath(s, c, f))
           <=> \E k \in Nat : (\A i \in 0 .. k : Fits(s, c, below[i])) /\ Bottom(c, below[k])
  BY DEF Stands
<1> HIDE DEF above, below
<1>3. ASSUME Stands(s, c, f) PROVE Fits(s, c, f) /\ (Bottom(c, f) \/ Stands(s, c, Beneath(s, c, f)))
  <2>1. PICK k \in Nat : (\A i \in 0 .. k : Fits(s, c, above[i])) /\ Bottom(c, above[k])
    BY <1>2, <1>3
  <2>2. Fits(s, c, f)
    <3>1. 0 \in 0 .. k
      OBVIOUS
    <3>2. QED BY <1>1, <2>1, <3>1
  <2>3. CASE k = 0
    BY <1>1, <2>1, <2>2, <2>3
  <2>4. CASE k # 0
    <3>1. k - 1 \in Nat /\ (k - 1) + 1 = k
      BY <2>4
    <3>2. \A i \in 0 .. k - 1 : i \in Nat /\ i + 1 \in 0 .. k
      BY <3>1
    <3>3. \A i \in 0 .. k - 1 : Fits(s, c, below[i])
      BY <1>1, <2>1, <3>2
    <3>4. Bottom(c, below[k - 1])
      <4>1. below[k - 1] = above[k]
        BY <1>1, <3>1
      <4>2. QED BY <2>1, <4>1
    <3>5. Stands(s, c, Beneath(s, c, f))
      BY <1>2, <3>1, <3>3, <3>4
    <3>6. QED BY <2>2, <3>5
  <2>5. QED BY <2>3, <2>4
<1>4. ASSUME Fits(s, c, f), Bottom(c, f) PROVE Stands(s, c, f)
  <2>1. \A i \in 0 .. 0 : i = 0
    OBVIOUS
  <2>2. \A i \in 0 .. 0 : Fits(s, c, above[i])
    BY <1>1, <1>4, <2>1
  <2>3. Bottom(c, above[0])
    BY <1>1, <1>4
  <2>4. QED BY <1>2, <2>2, <2>3
<1>5. ASSUME Fits(s, c, f), Stands(s, c, Beneath(s, c, f)) PROVE Stands(s, c, f)
  <2>1. PICK k \in Nat : (\A i \in 0 .. k : Fits(s, c, below[i])) /\ Bottom(c, below[k])
    BY <1>2, <1>5
  <2>2. ASSUME NEW i \in 0 .. k + 1 PROVE Fits(s, c, above[i])
    <3>1. CASE i = 0
      BY <1>1, <1>5, <3>1
    <3>2. CASE i # 0
      <4>1. i - 1 \in 0 .. k /\ i - 1 \in Nat /\ (i - 1) + 1 = i
        BY <3>2
      <4>2. above[i] = below[i - 1]
        BY <1>1, <4>1
      <4>3. QED BY <2>1, <4>1, <4>2
    <3>3. QED BY <3>1, <3>2
  <2>3. Bottom(c, above[k + 1])
    BY <1>1, <2>1
  <2>4. k + 1 \in Nat
    OBVIOUS
  <2>5. QED BY <1>2, <2>2, <2>3, <2>4
<1>6. QED BY <1>3, <1>4, <1>5

-----------------------------------------------------------------------------
(* The kinds of entries.                                                   *)

KindNames == {"data", "env", "cont", "arg"}

LEMMA JumpValues ==
    /\ Jumps = {0, 1, 2, 3, 4, 5, 6, 7, 8, 10}
    /\ JUMP_CODE = 0 /\ JUMP_MACRO_FINISH = 1 /\ JUMP_EV_DEFINITION_1 = 2 /\ JUMP_EV_ASSIGNMENT_1 = 3
    /\ JUMP_EV_APPL_DID_OPERATOR = 4 /\ JUMP_EV_APPL_ACCUMULATE_ARG = 5 /\ JUMP_EV_APPL_ACCUM_LAST_ARG = 6
    /\ JUMP_EV_SEQUENCE_CONTINUE = 7 /\ JUMP_EV_IF_DECIDE = 8 /\ JUMP_EV_IMPORT_AUX = 10
BY DEF Jumps, JUMP_CODE, JUMP_MACRO_FINISH, JUMP_EV_DEFINITION_1, JUMP_EV_ASSIGNMENT_1,
       JUMP_EV_APPL_DID_OPERATOR, JUMP_EV_APPL_ACCUMULATE_ARG, JUMP_EV_APPL_ACCUM_LAST_ARG,
       JUMP_EV_SEQUENCE_CONTINUE, JUMP_EV_IF_DECIDE, JUMP_EV_IMPORT_AUX

LEMMA SavedEntries ==
    /\ SavedKinds \in Seq(KindNames) /\ Len(SavedKinds) = 9
    /\ \A i \in 1 .. 9 : SavedKinds[i] = IF i <= 6 THEN "data" ELSE IF i = 7 THEN "env" ELSE IF i = 8 THEN "cont" ELSE "arg"
BY DEF SavedKinds, KindNames

LEMMA Joined ==
    ASSUME NEW S, NEW s1 \in Seq(S), NEW s2 \in Seq(S)
    PROVE  /\ s1 \o s2 \in Seq(S) /\ Len(s1 \o s2) = Len(s1) + Len(s2)
           /\ \A i \in 1 .. Len(s1) : (s1 \o s2)[i] = s1[i]
           /\ \A i \in 1 .. Len(s2) : (s1 \o s2)[Len(s1) + i] = s2[i]
<1>1. s1 \o s2 \in Seq(S) /\ Len(s1 \o s2) = Len(s1) + Len(s2)
  OBVIOUS
<1>2. \A i \in 1 .. Len(s1) + Len(s2) : (s1 \o s2)[i] = IF i <= Len(s1) THEN s1[i] ELSE s2[i - Len(s1)]
  OBVIOUS
<1>3. ASSUME NEW i \in 1 .. Len(s2) PROVE (s1 \o s2)[Len(s1) + i] = s2[i]
  <2>1. Len(s1) + i \in 1 .. Len(s1) + Len(s2) /\ ~ (Len(s1) + i <= Len(s1)) /\ (Len(s1) + i) - Len(s1) = i
    OBVIOUS
  <2>2. QED BY <1>2, <2>1
<1>4. QED BY <1>1, <1>2, <1>3

LEMMA SavedTwice ==
    /\ SavedKinds \o SavedKinds \in Seq(KindNames) /\ Len(SavedKinds \o SavedKinds) = 18
    /\ \A i \in 1 .. 9 : /\ (SavedKinds \o SavedKinds)[i] = SavedKinds[i]
                         /\ (SavedKinds \o SavedKinds)[9 + i] = SavedKinds[i]
<1>1. SavedKinds \in Seq(KindNames) /\ Len(SavedKinds) = 9
  BY SavedEntries
<1> DEFINE k == SavedKinds
<1> HIDE DEF k
<1>2. k \in Seq(KindNames) /\ Len(k) = 9
  BY <1>1 DEF k
<1>3. k \o k \in Seq(KindNames) /\ Len(k \o k) = Len(k) + Len(k)
  BY <1>2, Joined, Zenon
<1>4. ASSUME NEW i \in 1 .. 9 PROVE (k \o k)[i] = k[i]
  <2>1. i \in 1 .. Len(k) /\ k \in Seq(KindNames)
    BY <1>2
  <2>2. QED BY <2>1, Joined
<1>5. ASSUME NEW i \in 1 .. 9 PROVE (k \o k)[9 + i] = k[i]
  <2>1. i \in 1 .. Len(k) /\ k \in Seq(KindNames)
    BY <1>2
  <2>2. (k \o k)[Len(k) + i] = k[i]
    BY <2>1, Joined
  <2>3. QED BY <2>2, <1>2
<1>6. \A i \in 1 .. 9 : (k \o k)[i] = k[i] /\ (k \o k)[9 + i] = k[i]
  BY <1>2, <1>4, <1>5
<1>7. Len(k \o k) = 18
  BY <1>2, <1>3
<1>8. QED BY <1>3, <1>6, <1>7 DEF k

\* The frames of the jumps to labels.
LEMMA FrameOf ==
    ASSUME NEW caller
    PROVE  /\ \A jump \in {JUMP_EV_IF_DECIDE, JUMP_EV_ASSIGNMENT_1, JUMP_EV_DEFINITION_1} :
                 Frame(jump, caller) = <<"data", "env", "cont">> /\ Link(jump) = 3
           /\ \A jump \in Jumps \ {JUMP_EV_IF_DECIDE, JUMP_EV_ASSIGNMENT_1, JUMP_EV_DEFINITION_1, JUMP_CODE} : Link(jump) = 1
           /\ Frame(JUMP_EV_APPL_DID_OPERATOR, caller) = <<"cont", "env", "data">>
           /\ Frame(JUMP_EV_APPL_ACCUMULATE_ARG, caller) = <<"cont", "data", "data", "arg", "env", "data">>
           /\ Frame(JUMP_EV_APPL_ACCUM_LAST_ARG, caller) = <<"cont", "data", "data", "arg">>
           /\ Frame(JUMP_EV_SEQUENCE_CONTINUE, caller) = <<"cont", "data", "env">>
           /\ Frame(JUMP_MACRO_FINISH, caller) = <<"cont">> /\ Frame(JUMP_EV_IMPORT_AUX, caller) = <<"cont">>
           /\ Frame(JUMP_CODE, caller) = IF caller = "host" THEN SavedKinds ELSE SavedKinds \o SavedKinds
           /\ Link(JUMP_CODE) = 8
<1> USE JumpValues
<1>1. \A jump \in {JUMP_EV_IF_DECIDE, JUMP_EV_ASSIGNMENT_1, JUMP_EV_DEFINITION_1} :
                 Frame(jump, caller) = <<"data", "env", "cont">> /\ Link(jump) = 3
  BY DEF Frame, Link
<1>2. \A jump \in Jumps \ {JUMP_EV_IF_DECIDE, JUMP_EV_ASSIGNMENT_1, JUMP_EV_DEFINITION_1, JUMP_CODE} : Link(jump) = 1
  BY DEF Link
<1>3. /\ Frame(JUMP_EV_APPL_DID_OPERATOR, caller) = <<"cont", "env", "data">>
      /\ Frame(JUMP_EV_APPL_ACCUMULATE_ARG, caller) = <<"cont", "data", "data", "arg", "env", "data">>
      /\ Frame(JUMP_EV_APPL_ACCUM_LAST_ARG, caller) = <<"cont", "data", "data", "arg">>
  BY DEF Frame
<1>4. /\ Frame(JUMP_EV_SEQUENCE_CONTINUE, caller) = <<"cont", "data", "env">>
      /\ Frame(JUMP_MACRO_FINISH, caller) = <<"cont">> /\ Frame(JUMP_EV_IMPORT_AUX, caller) = <<"cont">>
  BY DEF Frame
<1>5. Frame(JUMP_CODE, caller) = IF caller = "host" THEN SavedKinds ELSE SavedKinds \o SavedKinds
  BY DEF Frame
<1>6. Link(JUMP_CODE) = 8
  BY DEF Link
<1>7. QED BY <1>1, <1>2, <1>3, <1>4, <1>5, <1>6

LEMMA FrameShape ==
    ASSUME NEW jump \in Jumps, NEW caller
    PROVE  /\ Len(Frame(jump, caller)) \in 1 .. 18 /\ DOMAIN Frame(jump, caller) = 1 .. Len(Frame(jump, caller))
           /\ Link(jump) \in 1 .. Len(Frame(jump, caller)) /\ Frame(jump, caller)[Link(jump)] = "cont"
           /\ jump = JUMP_CODE => Len(Frame(jump, caller)) = IF caller = "host" THEN 9 ELSE 18
<1>1. CASE jump \in {JUMP_EV_IF_DECIDE, JUMP_EV_ASSIGNMENT_1, JUMP_EV_DEFINITION_1}
  <2>1. Frame(jump, caller) = <<"data", "env", "cont">> /\ Link(jump) = 3
    BY <1>1, FrameOf
  <2>2. QED BY <1>1, <2>1, JumpValues
<1>2. CASE jump \notin {JUMP_EV_IF_DECIDE, JUMP_EV_ASSIGNMENT_1, JUMP_EV_DEFINITION_1, JUMP_CODE}
  <2>1. Link(jump) = 1
    BY <1>2, FrameOf
  <2>2. Frame(jump, caller) \in {<<"cont", "env", "data">>, <<"cont", "data", "data", "arg", "env", "data">>,
                                 <<"cont", "data", "data", "arg">>, <<"cont", "data", "env">>, <<"cont">>}
    BY <1>2, FrameOf, JumpValues
  <2>3. \A k \in {<<"cont", "env", "data">>, <<"cont", "data", "data", "arg", "env", "data">>,
                   <<"cont", "data", "data", "arg">>, <<"cont", "data", "env">>, <<"cont">>} :
           Len(k) \in 1 .. 18 /\ DOMAIN k = 1 .. Len(k) /\ 1 \in 1 .. Len(k) /\ k[1] = "cont"
    <3> DEFINE Good(k) == Len(k) \in 1 .. 18 /\ DOMAIN k = 1 .. Len(k) /\ 1 \in 1 .. Len(k) /\ k[1] = "cont"
    <3>1. Good(<<"cont", "env", "data">>) /\ Good(<<"cont", "data", "env">>)
      OBVIOUS
    <3>2. Good(<<"cont", "data", "data", "arg", "env", "data">>)
      OBVIOUS
    <3>3. Good(<<"cont", "data", "data", "arg">>) /\ Good(<<"cont">>)
      OBVIOUS
    <3> HIDE DEF Good
    <3>4. \A k \in {<<"cont", "env", "data">>, <<"cont", "data", "data", "arg", "env", "data">>,
                     <<"cont", "data", "data", "arg">>, <<"cont", "data", "env">>, <<"cont">>} : Good(k)
      BY <3>1, <3>2, <3>3
    <3>5. QED BY <3>4 DEF Good
  <2>4. QED BY <1>2, <2>1, <2>2, <2>3
<1>3. CASE jump = JUMP_CODE
  <2>1. Frame(jump, caller) = (IF caller = "host" THEN SavedKinds ELSE SavedKinds \o SavedKinds) /\ Link(jump) = 8
    BY <1>3, FrameOf
  <2>2. CASE caller = "host"
    <3>1. Frame(jump, caller) = SavedKinds
      BY <2>1, <2>2
    <3>2. SavedKinds[8] = "cont" /\ DOMAIN SavedKinds = 1 .. 9
      BY SavedEntries
    <3>3. Len(SavedKinds) = 9
      BY SavedEntries
    <3>4. Link(jump) = 8
      BY <2>1
    <3>5. Len(Frame(jump, caller)) = 9 /\ DOMAIN Frame(jump, caller) = 1 .. 9 /\ Frame(jump, caller)[8] = "cont"
      BY <3>1, <3>2, <3>3
    <3>6. QED BY <2>2, <3>4, <3>5
  <2>3. CASE caller # "host"
    <3>1. Frame(jump, caller) = SavedKinds \o SavedKinds
      BY <2>1, <2>3
    <3>2. (SavedKinds \o SavedKinds)[8] = "cont"
      BY SavedTwice, SavedEntries
    <3>3. QED BY <1>3, <2>1, <2>3, <3>1, <3>2, SavedTwice
  <2>4. QED BY <2>2, <2>3
<1>4. QED BY <1>1, <1>2, <1>3

-----------------------------------------------------------------------------
(* Frames outlive what happens above them.                                 *)

IsFrame(f) == f = [jump |-> f.jump, top |-> f.top, depth |-> f.depth] /\ f.top \in Nat /\ f.depth \in Nat

\* The same frame when there are n callers more above it.
Shifted(f, n) == [jump |-> f.jump, top |-> f.top, depth |-> f.depth + n]

\* The first top entries are of the same kinds, and hold the same continuations.
SameFrames(s, s2, top) ==
    \A i \in 1 .. top : s2[i].kind = s[i].kind /\ (s[i].kind = "cont" => s2[i].v = s[i].v)

\* From the depth-th on, the callers are the same, n places further.
SameCallers(c, c2, depth, n) ==
    \A d \in DOMAIN c \cap Nat : d >= depth => d + n \in DOMAIN c2 /\ c2[d + n] = c[d]

LEMMA FitsMoved ==
    ASSUME NEW s, NEW c, NEW s2, NEW c2, NEW f, IsFrame(f), NEW n \in Int, f.depth + n \in Nat,
           Fits(s, c, f), SameFrames(s, s2, f.top), SameCallers(c, c2, f.depth, n)
    PROVE  /\ IsFrame(Shifted(f, n)) /\ Fits(s2, c2, Shifted(f, n)) /\ (Bottom(c2, Shifted(f, n)) <=> Bottom(c, f))
           /\ Beneath(s2, c2, Shifted(f, n)) = Shifted(Beneath(s, c, f), n)
           /\ IsFrame(Beneath(s, c, f)) /\ Beneath(s, c, f).top < f.top /\ Beneath(s, c, f).depth >= f.depth
<1> DEFINE g == Shifted(f, n)
<1>1. g.jump = f.jump /\ g.top = f.top /\ g.depth = f.depth + n /\ IsFrame(g)
  BY DEF Shifted, IsFrame
<1> HIDE DEF g
<1>2. f.jump \in Jumps /\ f.depth \in DOMAIN c /\ Base(c, f) >= 0
  BY DEF Fits
<1>3. g.depth \in DOMAIN c2 /\ c2[g.depth] = c[f.depth]
  BY <1>1, <1>2 DEF SameCallers, IsFrame
<1>4. Kinds(c2, g) = Kinds(c, f) /\ Base(c2, g) = Base(c, f) /\ (Bottom(c2, g) <=> Bottom(c, f))
  BY <1>1, <1>3 DEF Kinds, Base, Bottom
<1> DEFINE kinds == Kinds(c, f)
           base == Base(c, f)
<1>5. /\ Len(kinds) \in 1 .. 18 /\ DOMAIN kinds = 1 .. Len(kinds)
      /\ Link(f.jump) \in 1 .. Len(kinds) /\ kinds[Link(f.jump)] = "cont"
      /\ f.jump = JUMP_CODE => Len(kinds) = IF c[f.depth] = "host" THEN 9 ELSE 18
  BY <1>2, FrameShape DEF Kinds
<1>6. base = f.top - Len(kinds) /\ f.top \in Nat
  BY DEF Base, IsFrame
<1>7. \A i \in DOMAIN kinds : s[base + i].kind = kinds[i]
  BY DEF Fits
<1> HIDE DEF kinds, base
<1>8. base \in Nat /\ base < f.top
  BY <1>2, <1>5, <1>6 DEF base
<1>9. ASSUME NEW i \in DOMAIN kinds
      PROVE  s2[base + i].kind = kinds[i] /\ (kinds[i] = "cont" => s2[base + i].v = s[base + i].v)
  <2>1. base + i \in 1 .. f.top
    BY <1>5, <1>6, <1>8
  <2>2. QED BY <1>7, <2>1 DEF SameFrames
<1>10. Fits(s2, c2, g)
  <2>1. \A i \in DOMAIN Kinds(c2, g) : s2[Base(c2, g) + i].kind = Kinds(c2, g)[i]
    BY <1>4, <1>9 DEF kinds, base
  <2>2. ASSUME g.jump = JUMP_CODE, c2[g.depth] = "import_aux" PROVE s2[Base(c2, g) + 8].v = JUMP_EV_IMPORT_AUX
    <3>1. s[base + 8].v = JUMP_EV_IMPORT_AUX
      BY <1>1, <1>3, <2>2 DEF Fits, base
    <3>2. 8 \in DOMAIN kinds /\ kinds[8] = "cont"
      BY <1>1, <1>3, <1>5, <2>2, FrameOf DEF kinds, Kinds
    <3>3. QED BY <1>4, <1>9, <3>1, <3>2 DEF base
  <2>3. Bottom(c2, g) => Base(c2, g) = 0
    BY <1>4 DEF Fits
  <2>4. QED BY <1>1, <1>2, <1>3, <1>4, <2>1, <2>2, <2>3 DEF Fits
<1>11. s2[base + Link(f.jump)].v = s[base + Link(f.jump)].v
  BY <1>5, <1>9
<1> DEFINE b == Beneath(s, c, f)
<1>12. /\ b = [jump |-> b.jump, top |-> b.top, depth |-> b.depth]
       /\ b.jump = s[base + Link(f.jump)].v /\ b.top = base
       /\ b.depth = IF f.jump = JUMP_CODE THEN f.depth + 1 ELSE f.depth
  BY DEF Beneath, base
<1>13. Beneath(s2, c2, g) = [jump |-> s[base + Link(f.jump)].v, top |-> base,
                             depth |-> IF f.jump = JUMP_CODE THEN g.depth + 1 ELSE g.depth]
  BY <1>1, <1>4, <1>11 DEF Beneath, base
<1> HIDE DEF b
<1>14. Beneath(s2, c2, g) = Shifted(b, n)
  <2>1. (IF f.jump = JUMP_CODE THEN g.depth + 1 ELSE g.depth) = b.depth + n
    BY <1>1, <1>12 DEF IsFrame
  <2>2. QED BY <1>12, <1>13, <2>1 DEF Shifted
<1>15. IsFrame(b) /\ b.top < f.top /\ b.depth >= f.depth
  BY <1>8, <1>12 DEF IsFrame
<1>16. QED BY <1>1, <1>4, <1>10, <1>14, <1>15 DEF g, b

LEMMA FramesDown ==
    ASSUME NEW s, NEW c, NEW f, IsFrame(f), NEW k \in Nat, \A i \in 0 .. k : Fits(s, c, FramesFrom(s, c, f)[i])
    PROVE  \A i \in 0 .. k : /\ IsFrame(FramesFrom(s, c, f)[i]) /\ FramesFrom(s, c, f)[i].top + i <= f.top
                             /\ FramesFrom(s, c, f)[i].depth >= f.depth
<1> DEFINE a == FramesFrom(s, c, f)
           N == {i \in Nat : i <= k => IsFrame(a[i]) /\ a[i].top + i <= f.top /\ a[i].depth >= f.depth}
<1>1. a[0] = f /\ \A i \in Nat : a[i + 1] = Beneath(s, c, a[i])
  BY FramesStep
<1>2. \A i \in 0 .. k : Fits(s, c, a[i])
  OBVIOUS
<1> HIDE DEF a
<1>3. 0 \in N
  BY <1>1 DEF IsFrame
<1>4. ASSUME NEW i \in N PROVE i + 1 \in N
  <2>1. SUFFICES ASSUME i + 1 <= k
                 PROVE  IsFrame(a[i + 1]) /\ a[i + 1].top + (i + 1) <= f.top /\ a[i + 1].depth >= f.depth
    OBVIOUS
  <2> DEFINE g == a[i]
  <2>2. IsFrame(g) /\ g.top + i <= f.top /\ g.depth >= f.depth /\ Fits(s, c, g) /\ i \in Nat
    BY <1>2, <2>1
  <2>3. a[i + 1] = Beneath(s, c, g)
    BY <1>1
  <2> HIDE DEF g
  <2>4. SameFrames(s, s, g.top) /\ SameCallers(c, c, g.depth, 0) /\ g.depth + 0 \in Nat
    BY <2>2 DEF SameFrames, SameCallers, IsFrame
  <2>5. IsFrame(Beneath(s, c, g)) /\ Beneath(s, c, g).top < g.top /\ Beneath(s, c, g).depth >= g.depth
    BY <2>2, <2>4, FitsMoved
  <2>6. QED BY <2>2, <2>3, <2>5 DEF IsFrame
<1> HIDE DEF N
<1>5. N = Nat
  BY <1>3, <1>4, Induction DEF N
<1>6. QED BY <1>5 DEF N, a

LEMMA StandsMoved ==
    ASSUME NEW s, NEW c, NEW s2, NEW c2, NEW f, IsFrame(f), NEW n \in Int, f.depth + n \in Nat,
           Stands(s, c, f), SameFrames(s, s2, f.top), SameCallers(c, c2, f.depth, n)
    PROVE  Stands(s2, c2, Shifted(f, n))
<1> DEFINE a == FramesFrom(s, c, f)
           b == FramesFrom(s2, c2, Shifted(f, n))
<1>1. PICK k \in Nat : (\A i \in 0 .. k : Fits(s, c, a[i])) /\ Bottom(c, a[k])
  BY DEF Stands
<1>2. \A i \in 0 .. k : IsFrame(a[i]) /\ a[i].top + i <= f.top /\ a[i].depth >= f.depth
  BY <1>1, FramesDown
<1>3. a[0] = f /\ \A i \in Nat : a[i + 1] = Beneath(s, c, a[i])
  BY FramesStep
<1>4. b[0] = Shifted(f, n) /\ \A i \in Nat : b[i + 1] = Beneath(s2, c2, b[i])
  BY FramesStep
<1>5. Stands(s2, c2, Shifted(f, n)) <=> \E m \in Nat : (\A i \in 0 .. m : Fits(s2, c2, b[i])) /\ Bottom(c2, b[m])
  BY DEF Stands
<1> HIDE DEF a, b
<1>6. ASSUME NEW i \in 0 .. k, b[i] = Shifted(a[i], n)
      PROVE  /\ Fits(s2, c2, b[i]) /\ (Bottom(c2, b[i]) <=> Bottom(c, a[i]))
             /\ b[i + 1] = Shifted(a[i + 1], n)
  <2> DEFINE g == a[i]
  <2>1. IsFrame(g) /\ g.top <= f.top /\ g.depth >= f.depth /\ Fits(s, c, g)
    BY <1>1, <1>2 DEF IsFrame
  <2>2. a[i + 1] = Beneath(s, c, g) /\ b[i + 1] = Beneath(s2, c2, Shifted(g, n)) /\ b[i] = Shifted(g, n) /\ a[i] = g
    BY <1>3, <1>4, <1>6
  <2> HIDE DEF g
  <2>3. SameFrames(s, s2, g.top) /\ g.depth + n \in Nat
    BY <2>1 DEF SameFrames, IsFrame
  <2>4. SameCallers(c, c2, g.depth, n)
    BY <2>1 DEF SameCallers, IsFrame
  <2>5. QED BY <2>1, <2>2, <2>3, <2>4, FitsMoved
<1> DEFINE N == {i \in Nat : i <= k => b[i] = Shifted(a[i], n)}
<1>7. 0 \in N
  BY <1>3, <1>4
<1>8. ASSUME NEW i \in N PROVE i + 1 \in N
  BY <1>6
<1> HIDE DEF N
<1>9. N = Nat
  BY <1>7, <1>8, Induction DEF N
<1>10. \A i \in 0 .. k : b[i] = Shifted(a[i], n)
  BY <1>9 DEF N
<1>11. \A i \in 0 .. k : Fits(s2, c2, b[i])
  BY <1>6, <1>10
<1>12. Bottom(c2, b[k])
  BY <1>1, <1>6, <1>10
<1>13. QED BY <1>5, <1>11, <1>12

\* The registers of the host are at the bottom of every chain of frames.
LEMMA StandsHigh ==
    ASSUME NEW s, NEW c, NEW f, IsFrame(f), Stands(s, c, f)
    PROVE  f.top >= 9 /\ \E k \in 0 .. f.top : (\A i \in 0 .. k : Fits(s, c, FramesFrom(s, c, f)[i]))
                                                /\ Bottom(c, FramesFrom(s, c, f)[k])
<1> DEFINE a == FramesFrom(s, c, f)
<1>1. PICK k \in Nat : (\A i \in 0 .. k : Fits(s, c, a[i])) /\ Bottom(c, a[k])
  BY DEF Stands
<1>2. \A i \in 0 .. k : IsFrame(a[i]) /\ a[i].top + i <= f.top
  BY <1>1, FramesDown
<1> HIDE DEF a
<1>3. IsFrame(a[k]) /\ a[k].top + k <= f.top /\ Fits(s, c, a[k])
  BY <1>1, <1>2
<1>4. a[k].top = 9
  <2>1. a[k].jump = JUMP_CODE /\ c[a[k].depth] = "host" /\ a[k].jump \in Jumps /\ Base(c, a[k]) = 0
    BY <1>1, <1>3 DEF Bottom, Fits
  <2>2. Len(Kinds(c, a[k])) = 9
    BY <2>1, FrameShape DEF Kinds
  <2>3. QED BY <1>3, <2>1, <2>2 DEF Base, IsFrame
<1>5. k \in 0 .. f.top /\ f.top >= 9
  BY <1>3, <1>4 DEF IsFrame
<1>6. QED BY <1>1, <1>5 DEF a

LEMMA StandsFramed ==
    ASSUME NEW s, NEW c, NEW jump, NEW n \in Nat, Stands(s, c, Place(jump, n))
    PROVE  Framed(s, c, jump, n) /\ n >= 9
<1>1. IsFrame(Place(jump, n)) /\ Place(jump, n).top = n
  BY DEF IsFrame, Place
<1>2. QED BY <1>1, StandsHigh DEF Framed

-----------------------------------------------------------------------------
(* Frames on a stack that grows and shrinks.                               *)

\* The stacks s and s2 have the same first n entries.
SameBelow(s, s2, n) == \A i \in 1 .. n : s2[i] = s[i]

LEMMA PlaceFrame ==
    ASSUME NEW jump, NEW n \in Nat
    PROVE  /\ IsFrame(Place(jump, n)) /\ Place(jump, n).jump = jump /\ Place(jump, n).top = n
           /\ Place(jump, n).depth = 1 /\ Shifted(Place(jump, n), 0) = Place(jump, n)
BY DEF IsFrame, Place, Shifted

LEMMA StandsSame ==
    ASSUME NEW s, NEW c, NEW s2, NEW jump, NEW n \in Nat, Stands(s, c, Place(jump, n)), SameFrames(s, s2, n)
    PROVE  Stands(s2, c, Place(jump, n))
<1>1. SameCallers(c, c, 1, 0)
  BY DEF SameCallers
<1>2. QED BY <1>1, PlaceFrame, StandsMoved

LEMMA StandsBelow ==
    ASSUME NEW s, NEW c, NEW s2, NEW jump, NEW n \in Nat, Stands(s, c, Place(jump, n)), SameBelow(s, s2, n)
    PROVE  Stands(s2, c, Place(jump, n))
<1>1. SameFrames(s, s2, n)
  BY DEF SameBelow, SameFrames
<1>2. QED BY <1>1, StandsSame

LEMMA PushWhole ==
    ASSUME NEW s \in Seq(StackEntries), NEW entries \in Seq(StackEntries), Len(Push(s, entries)) < MaxStackDepth
    PROVE  /\ Push(s, entries) \in Seq(StackEntries) /\ Len(Push(s, entries)) = Len(s) + Len(entries)
           /\ SameBelow(s, Push(s, entries), Len(s))
           /\ \A i \in 1 .. Len(entries) : Push(s, entries)[Len(s) + i] = entries[i]
<1> DEFINE all == s \o entries
<1>1. /\ all \in Seq(StackEntries) /\ Len(all) = Len(s) + Len(entries)
      /\ \A i \in 1 .. Len(s) : all[i] = s[i]
      /\ \A i \in 1 .. Len(entries) : all[Len(s) + i] = entries[i]
  BY Joined
<1>2. Push(s, entries) = IF Len(all) <= MaxStackDepth THEN all ELSE SubSeq(all, 1, MaxStackDepth)
  BY DEF Push
<1> HIDE DEF all
<1>3. CASE Len(all) <= MaxStackDepth
  BY <1>1, <1>2, <1>3 DEF SameBelow
<1>4. CASE ~ (Len(all) <= MaxStackDepth)
  <2>1. Len(SubSeq(all, 1, MaxStackDepth)) = MaxStackDepth
    BY <1>1, <1>4, MachineAssumption
  <2>2. QED BY <1>2, <1>4, <2>1, MachineAssumption
<1>5. QED BY <1>3, <1>4

LEMMA PopWhole ==
    ASSUME NEW s \in Seq(StackEntries), NEW n \in 0 .. Len(s)
    PROVE  /\ Pop(s, n) \in Seq(StackEntries) /\ Len(Pop(s, n)) = Len(s) - n
           /\ SameBelow(s, Pop(s, n), Len(s) - n)
           /\ \A i \in 1 .. Len(s) : Popped(s, i) = s[Len(s) - i + 1].v
<1>1. Pop(s, n) \in Seq(StackEntries) /\ Len(Pop(s, n)) = Len(s) - n /\ SameBelow(s, Pop(s, n), Len(s) - n)
  BY DEF Pop, SameBelow
<1>2. \A i \in 1 .. Len(s) : Popped(s, i) = s[Len(s) - i + 1].v
  BY DEF Popped
<1>3. QED BY <1>1, <1>2

\* A frame may be put on one that stands.
LEMMA FrameOver ==
    ASSUME NEW s, NEW c, 1 \in DOMAIN c, NEW jump \in Jumps \ {JUMP_CODE}, NEW m \in Nat,
           \A i \in 1 .. Len(Frame(jump, c[1])) : s[m + i].kind = Frame(jump, c[1])[i],
           Stands(s, c, Place(s[m + Link(jump)].v, m))
    PROVE  Stands(s, c, Place(jump, m + Len(Frame(jump, c[1]))))
<1> DEFINE kinds == Frame(jump, c[1])
           n == m + Len(kinds)
           f == Place(jump, n)
<1>1. Len(kinds) \in 1 .. 18 /\ DOMAIN kinds = 1 .. Len(kinds)
  BY FrameShape
<1>2. f.jump = jump /\ f.top = n /\ f.depth = 1
  BY <1>1, PlaceFrame
<1> HIDE DEF f
<1>3. Kinds(c, f) = kinds /\ Base(c, f) = m /\ ~ Bottom(c, f)
  BY <1>1, <1>2 DEF Kinds, Base, Bottom
<1>4. Fits(s, c, f)
  BY <1>1, <1>2, <1>3 DEF Fits
<1>5. Beneath(s, c, f) = Place(s[m + Link(jump)].v, m)
  BY <1>2, <1>3 DEF Beneath, Place
<1>6. Stands(s, c, f)
  BY <1>3, <1>4, <1>5, StandsStep
<1>7. QED BY <1>6 DEF f

\* The entries of s after the m-th are of these kinds.
Shows(s, m, kinds) == \A i \in 1 .. Len(kinds) : s[m + i].kind = kinds[i]

\* What is found under the frame of a jump to a label.
LEMMA FrameUnder ==
    ASSUME NEW s, NEW c, NEW jump, jump # JUMP_CODE, NEW n \in Nat, Stands(s, c, Place(jump, n)), NEW m \in Int,
           m = n - Len(Frame(jump, c[1]))
    PROVE  /\ jump \in Jumps /\ 1 \in DOMAIN c /\ m \in Nat /\ m >= 9
           /\ Shows(s, m, Frame(jump, c[1]))
           /\ Stands(s, c, Place(s[m + Link(jump)].v, m))
<1> DEFINE kinds == Frame(jump, c[1])
           f == Place(jump, n)
<1>1. f.jump = jump /\ f.top = n /\ f.depth = 1 /\ Stands(s, c, f)
  BY PlaceFrame
<1> HIDE DEF f
<1>2. Kinds(c, f) = kinds /\ Base(c, f) = m /\ ~ Bottom(c, f)
  BY <1>1 DEF Kinds, Base, Bottom
<1>3. Fits(s, c, f) /\ Stands(s, c, Beneath(s, c, f))
  BY <1>1, <1>2, StandsStep
<1>4. jump \in Jumps /\ 1 \in DOMAIN c /\ m >= 0 /\ \A i \in DOMAIN kinds : s[m + i].kind = kinds[i]
  BY <1>1, <1>2, <1>3 DEF Fits
<1>5. DOMAIN kinds = 1 .. Len(kinds) /\ m \in Nat
  BY <1>4, FrameShape
<1>6. Beneath(s, c, f) = Place(s[m + Link(jump)].v, m)
  BY <1>1, <1>2 DEF Beneath, Place
<1>7. m >= 9
  BY <1>3, <1>5, <1>6, StandsFramed
<1>8. Shows(s, m, kinds)
  BY <1>4, <1>5 DEF Shows
<1>9. QED BY <1>3, <1>4, <1>5, <1>6, <1>7, <1>8

-----------------------------------------------------------------------------
(* The frame of an evaluation: the registers saved for its caller.         *)

\* A frame that works for the caller's caller.
Outer(jump, n) == [jump |-> jump, top |-> n, depth |-> 2]

LEMMA CodeUnder ==
    ASSUME NEW s, NEW c, NEW n \in Nat, Stands(s, c, Place(JUMP_CODE, n))
    PROVE  /\ 1 \in DOMAIN c
           /\ c[1] = "host" => n = 9
           /\ c[1] # "host" => n >= 18 + 9 /\ Stands(s, c, Outer(s[n - 10].v, n - 18))
           /\ c[1] = "import_aux" => s[n - 10].v = JUMP_EV_IMPORT_AUX
<1> DEFINE f == Place(JUMP_CODE, n)
<1>1. f.jump = JUMP_CODE /\ f.top = n /\ f.depth = 1 /\ Stands(s, c, f)
  BY PlaceFrame
<1> HIDE DEF f
<1>2. Fits(s, c, f) /\ (Bottom(c, f) \/ Stands(s, c, Beneath(s, c, f)))
  BY <1>1, StandsStep
<1>3. 1 \in DOMAIN c /\ JUMP_CODE \in Jumps /\ Base(c, f) >= 0
  BY <1>1, <1>2 DEF Fits
<1>4. Kinds(c, f) = Frame(JUMP_CODE, c[1]) /\ Base(c, f) = n - Len(Frame(JUMP_CODE, c[1])) /\ (Bottom(c, f) <=> c[1] = "host")
  BY <1>1 DEF Kinds, Base, Bottom
<1>5. Len(Frame(JUMP_CODE, c[1])) = IF c[1] = "host" THEN 9 ELSE 18
  BY <1>3, FrameShape
<1>6. ASSUME c[1] = "host" PROVE n = 9
  BY <1>2, <1>4, <1>5, <1>6 DEF Fits
<1>7. ASSUME c[1] # "host" PROVE n >= 18 + 9 /\ Stands(s, c, Outer(s[n - 10].v, n - 18))
  <2>1. Base(c, f) = n - 18 /\ n - 18 >= 0 /\ (n - 18) + 8 = n - 10
    BY <1>3, <1>4, <1>5, <1>7
  <2>2. Beneath(s, c, f) = Outer(s[n - 10].v, n - 18)
    BY <1>1, <2>1, FrameOf DEF Beneath, Outer
  <2>3. Stands(s, c, Outer(s[n - 10].v, n - 18))
    BY <1>2, <1>4, <1>7, <2>2
  <2>4. IsFrame(Outer(s[n - 10].v, n - 18)) /\ Outer(s[n - 10].v, n - 18).top = n - 18
    BY <2>1 DEF IsFrame, Outer
  <2>5. n - 18 >= 9
    BY <2>3, <2>4, StandsHigh
  <2>6. QED BY <2>3, <2>5
<1>8. ASSUME c[1] = "import_aux" PROVE s[n - 10].v = JUMP_EV_IMPORT_AUX
  <2>1. Base(c, f) + 8 = n - 10
    BY <1>4, <1>5, <1>8
  <2>2. QED BY <1>1, <1>2, <1>8, <2>1 DEF Fits
<1>9. QED BY <1>3, <1>6, <1>7, <1>8

LEMMA CodeOver ==
    ASSUME NEW s, NEW c, 1 \in DOMAIN c, NEW m \in Nat,
           \A i \in 1 .. 9 : s[m + i].kind = SavedKinds[i],
           IF c[1] = "host" THEN m = 0
           ELSE /\ \A i \in 1 .. 9 : s[m + (9 + i)].kind = SavedKinds[i]
                /\ Stands(s, c, Outer(s[m + 8].v, m))
                /\ c[1] = "import_aux" => s[m + 8].v = JUMP_EV_IMPORT_AUX
    PROVE  Stands(s, c, Place(JUMP_CODE, m + (IF c[1] = "host" THEN 9 ELSE 18)))
<1> DEFINE kinds == Frame(JUMP_CODE, c[1])
           n == m + (IF c[1] = "host" THEN 9 ELSE 18)
           f == Place(JUMP_CODE, n)
<1>1. n \in Nat /\ JUMP_CODE \in Jumps
  BY JumpValues
<1>2. /\ Len(kinds) = (IF c[1] = "host" THEN 9 ELSE 18) /\ DOMAIN kinds = 1 .. Len(kinds)
      /\ kinds = IF c[1] = "host" THEN SavedKinds ELSE SavedKinds \o SavedKinds
  BY <1>1, FrameShape, FrameOf
<1>3. f.jump = JUMP_CODE /\ f.top = n /\ f.depth = 1
  BY <1>1, PlaceFrame
<1> HIDE DEF f, kinds
<1>4. Kinds(c, f) = kinds /\ Base(c, f) = m /\ (Bottom(c, f) <=> c[1] = "host")
  <2>1. Kinds(c, f) = kinds
    BY <1>3 DEF Kinds, kinds
  <2>2. Base(c, f) = m
    <3>1. f.top = m + Len(kinds) /\ Len(kinds) \in Nat
      BY <1>2, <1>3
    <3>2. QED BY <2>1, <3>1 DEF Base
  <2>3. QED BY <1>3, <2>1, <2>2 DEF Bottom
<1>5. \A i \in DOMAIN kinds : s[m + i].kind = kinds[i]
  <2>1. CASE c[1] = "host"
    BY <1>2, <2>1
  <2>2. CASE c[1] # "host"
    <3>1. ASSUME NEW i \in 1 .. 18 PROVE s[m + i].kind = (SavedKinds \o SavedKinds)[i]
      <4>1. CASE i <= 9
        <5>1. i \in 1 .. 9
          BY <4>1
        <5>2. (SavedKinds \o SavedKinds)[i] = SavedKinds[i]
          BY <5>1, SavedTwice
        <5>3. QED BY <5>1, <5>2
      <4>2. CASE i > 9
        <5>1. i - 9 \in 1 .. 9 /\ 9 + (i - 9) = i
          BY <4>2
        <5>2. s[m + (9 + (i - 9))].kind = SavedKinds[i - 9]
          BY <2>2, <5>1
        <5>3. (SavedKinds \o SavedKinds)[9 + (i - 9)] = SavedKinds[i - 9]
          BY <5>1, SavedTwice
        <5> HIDE DEF n, f
        <5>4. QED BY <5>1, <5>2, <5>3
      <4>3. i <= 9 \/ i > 9
        OBVIOUS
      <4>4. QED BY <4>1, <4>2, <4>3
    <3>2. QED BY <1>2, <2>2, <3>1
  <2>3. QED BY <2>1, <2>2
<1>6. Fits(s, c, f)
  BY <1>1, <1>3, <1>4, <1>5 DEF Fits
<1>7. ASSUME c[1] # "host" PROVE Beneath(s, c, f) = Outer(s[m + 8].v, m)
  <2>1. Link(JUMP_CODE) = 8
    BY FrameOf
  <2>2. f.depth + 1 = 2
    BY <1>3
  <2>3. QED BY <1>3, <1>4, <2>1, <2>2 DEF Beneath, Outer
<1>8. Stands(s, c, f)
  <2>1. CASE c[1] = "host"
    BY <1>4, <1>6, <2>1, StandsStep
  <2>2. CASE c[1] # "host"
    BY <1>6, <1>7, <2>2, StandsStep
  <2>3. QED BY <2>1, <2>2
<1>9. QED BY <1>8 DEF f

\* What stood stands for the caller of a nested evaluation, and again after it.
LEMMA StandsNested ==
    ASSUME NEW S, NEW c \in Seq(S), NEW caller \in S, NEW s, NEW s2, NEW jump, NEW n \in Nat,
           Stands(s, c, Place(jump, n)), SameBelow(s, s2, n)
    PROVE  Stands(s2, <<caller>> \o c, Outer(jump, n))
<1> DEFINE c2 == <<caller>> \o c
<1>1. c2 \in Seq(S) /\ Len(c2) = Len(c) + 1 /\ \A d \in 1 .. Len(c) : c2[d + 1] = c[d]
  OBVIOUS
<1> HIDE DEF c2
<1>2. SameCallers(c, c2, 1, 1) /\ SameFrames(s, s2, n)
  BY <1>1 DEF SameCallers, SameBelow, SameFrames
<1>3. Shifted(Place(jump, n), 1) = Outer(jump, n)
  BY DEF Shifted, Place, Outer
<1>4. QED BY <1>2, <1>3, PlaceFrame, StandsMoved DEF c2

LEMMA StandsReturned ==
    ASSUME NEW S, NEW c \in Seq(S), c # <<>>, NEW s, NEW jump, NEW n \in Nat, Stands(s, c, Outer(jump, n))
    PROVE  Stands(s, Tail(c), Place(jump, n))
<1> DEFINE f == Outer(jump, n)
<1>1. \A d \in DOMAIN c \cap Nat : d >= 2 => d - 1 \in DOMAIN Tail(c) /\ Tail(c)[d - 1] = c[d]
  OBVIOUS
<1>2. SameCallers(c, Tail(c), 2, -1)
  BY <1>1 DEF SameCallers
<1>3. SameFrames(s, s, n)
  BY DEF SameFrames
<1>4. IsFrame(f) /\ f.top = n /\ f.depth = 2 /\ Shifted(f, -1) = Place(jump, n)
  BY DEF IsFrame, Shifted, Place, Outer
<1> HIDE DEF f
<1>5. QED BY <1>2, <1>3, <1>4, StandsMoved DEF f

-----------------------------------------------------------------------------
(* The invariant.                                                          *)

\* The continuation is on top of the stack, or under the procedure to call.
Linked(s, c) ==
    /\ Len(s) >= 1 /\ s[Len(s)].kind = "cont"
    /\ Stands(s, c, Place(s[Len(s)].v, Len(s) - 1))

LinkedUnder(s, c) ==
    /\ Len(s) >= 2 /\ s[Len(s)].kind = "data" /\ s[Len(s) - 1].kind = "cont"
    /\ Stands(s, c, Place(s[Len(s) - 1].v, Len(s) - 2))

\* What the code at a label expects of the stack: that it can go on, and that it
\* was the continuation that led to it.
Expected(label, r, s, c) ==
    IF label \in {"sequence", "apply", "restoring", "redirecting"} THEN Linked(s, c)
    ELSE IF label = "operand_loop" THEN LinkedUnder(s, c)
    ELSE IF label = "exit" THEN Stands(s, c, Place(JUMP_CODE, Len(s)))
    ELSE /\ Stands(s, c, Place(r.cont, Len(s)))
         /\ label \notin {"begin", "dispatch", "continue"} => label = LabelOf(r.cont)

\* The registers of the host are those eval was called with.
Founded(s) == \A i \in 1 .. 9 : s[i].v = NULL

FrameInv ==
    /\ pc = "host" => StackUnwound
    /\ Running => Expected(pc, reg, stack, calls) /\ Founded(stack)

-----------------------------------------------------------------------------
(* What pushes and pops do to it.                                          *)

LEMMA FoundedBelow ==
    ASSUME NEW s, NEW s2, NEW n \in Nat, n >= 9, SameBelow(s, s2, n), Founded(s)
    PROVE  Founded(s2)
BY DEF SameBelow, Founded

\* A frame of the first k entries, already there above m others, and those pushed.
LEMMA PushFrame ==
    ASSUME NEW s \in Seq(StackEntries), NEW entries \in Seq(StackEntries), Len(Push(s, entries)) < MaxStackDepth,
           NEW c, 1 \in DOMAIN c, NEW jump \in Jumps \ {JUMP_CODE}, NEW m \in Nat, NEW k \in Nat, m + k = Len(s),
           NEW next, Stands(s, c, Place(next, m)), Founded(s),
           Len(Frame(jump, c[1])) = k + Len(entries),
           \A i \in 1 .. k : s[m + i].kind = Frame(jump, c[1])[i],
           \A i \in 1 .. Len(entries) : entries[i].kind = Frame(jump, c[1])[k + i],
           IF Link(jump) <= k THEN s[m + Link(jump)].v = next ELSE entries[Link(jump) - k].v = next
    PROVE  Stands(Push(s, entries), c, Place(jump, Len(Push(s, entries)))) /\ Founded(Push(s, entries))
<1> DEFINE s2 == Push(s, entries)
           kinds == Frame(jump, c[1])
<1>1. /\ Len(s2) = Len(s) + Len(entries) /\ SameBelow(s, s2, Len(s))
      /\ \A i \in 1 .. Len(entries) : s2[Len(s) + i] = entries[i]
  BY PushWhole
<1> HIDE DEF s2
<1>2. Len(entries) \in Nat /\ Len(s) = m + k
  OBVIOUS
<1>3. SameBelow(s, s2, m)
  BY <1>1, <1>2 DEF SameBelow
<1>4. Stands(s2, c, Place(next, m)) /\ m >= 9
  BY <1>3, StandsBelow, StandsFramed
<1>5. Founded(s2)
  BY <1>3, <1>4, FoundedBelow
<1>6. Link(jump) \in 1 .. k + Len(entries)
  BY FrameShape
<1>7. ASSUME NEW i \in 1 .. k + Len(entries)
      PROVE  IF i <= k THEN s2[m + i] = s[m + i] ELSE s2[m + i] = entries[i - k] /\ i - k \in 1 .. Len(entries)
  <2>1. CASE i <= k
    BY <1>1, <1>2, <2>1 DEF SameBelow
  <2>2. CASE ~ (i <= k)
    <3>1. i - k \in 1 .. Len(entries) /\ Len(s) + (i - k) = m + i
      BY <1>2, <2>2
    <3>2. QED BY <1>1, <2>2, <3>1
  <2>3. QED BY <2>1, <2>2
<1>8. ASSUME NEW i \in 1 .. Len(kinds) PROVE s2[m + i].kind = kinds[i]
  <2>1. i \in 1 .. k + Len(entries)
    OBVIOUS
  <2>2. CASE i <= k
    BY <1>7, <2>1, <2>2
  <2>3. CASE ~ (i <= k)
    <3>1. s2[m + i] = entries[i - k] /\ i - k \in 1 .. Len(entries) /\ k + (i - k) = i
      BY <1>7, <2>1, <2>3
    <3>2. QED BY <3>1
  <2>4. QED BY <2>2, <2>3
<1>9. s2[m + Link(jump)].v = next
  BY <1>6, <1>7
<1>10. Stands(s2, c, Place(jump, m + Len(kinds)))
  BY <1>4, <1>8, <1>9, FrameOver
<1>11. m + Len(kinds) = Len(s2)
  BY <1>1, <1>2
<1>12. QED BY <1>5, <1>10, <1>11 DEF s2

LEMMA PushCont ==
    ASSUME NEW s \in Seq(StackEntries), NEW c, NEW next \in Nat, Stands(s, c, Place(next, Len(s))), Founded(s),
           Len(Push(s, <<Cont(next)>>)) < MaxStackDepth
    PROVE  Linked(Push(s, <<Cont(next)>>), c) /\ Founded(Push(s, <<Cont(next)>>))
<1> DEFINE e == Cont(next)
           s2 == Push(s, <<e>>)
<1>1. e \in StackEntries /\ e.kind = "cont" /\ e.v = next /\ Len(s2) < MaxStackDepth
  BY EntryTypes DEF Cont
<1> HIDE DEF e
<1>2. <<e>> \in Seq(StackEntries) /\ Len(<<e>>) = 1 /\ <<e>>[1] = e
  BY <1>1
<1>3. /\ s2 \in Seq(StackEntries) /\ Len(s2) = Len(s) + 1 /\ SameBelow(s, s2, Len(s))
      /\ s2[Len(s) + 1] = e
  <2> DEFINE es == <<e>>
  <2>1. es \in Seq(StackEntries) /\ Len(es) = 1 /\ es[1] = e /\ Len(Push(s, es)) < MaxStackDepth
    BY <1>1, <1>2
  <2>2. s2 = Push(s, es)
    OBVIOUS
  <2> HIDE DEF es, s2
  <2>3. /\ s2 \in Seq(StackEntries) /\ Len(s2) = Len(s) + Len(es) /\ SameBelow(s, s2, Len(s))
        /\ \A i \in 1 .. Len(es) : s2[Len(s) + i] = es[i]
    BY <2>1, <2>2, PushWhole
  <2>4. QED BY <2>1, <2>3
<1> HIDE DEF s2
<1>4. Stands(s2, c, Place(next, Len(s))) /\ Len(s) >= 9 /\ Len(s) \in Nat
  BY <1>3, StandsBelow, StandsFramed
<1>5. Founded(s2)
  BY <1>3, <1>4, FoundedBelow
<1>6. Linked(s2, c)
  <2>1. Len(s2) - 1 = Len(s) /\ s2[Len(s2)] = e
    BY <1>3, <1>4
  <2>2. QED BY <1>1, <1>3, <1>4, <2>1 DEF Linked
<1>7. QED BY <1>5, <1>6 DEF s2, e

LEMMA PopCont ==
    ASSUME NEW s \in Seq(StackEntries), NEW c, Linked(s, c), Founded(s)
    PROVE  Stands(Pop(s, 1), c, Place(Popped(s, 1), Len(Pop(s, 1)))) /\ Founded(Pop(s, 1))
<1>1. Len(s) >= 1 /\ Stands(s, c, Place(s[Len(s)].v, Len(s) - 1)) /\ Len(s) \in Nat
  BY DEF Linked
<1>2. Len(Pop(s, 1)) = Len(s) - 1 /\ SameBelow(s, Pop(s, 1), Len(s) - 1) /\ Popped(s, 1) = s[Len(s) - 1 + 1].v
  BY <1>1, PopWhole
<1>3. Popped(s, 1) = s[Len(s)].v /\ Len(s) - 1 \in Nat
  BY <1>1, <1>2
<1>4. Len(s) - 1 >= 9
  BY <1>1, <1>3, StandsFramed
<1>5. QED BY <1>1, <1>2, <1>3, <1>4, StandsBelow, FoundedBelow

\* A frame that ends with the continuation is popped.
LEMMA PopFrame ==
    ASSUME NEW s \in Seq(StackEntries), NEW c, NEW jump, jump # JUMP_CODE, Stands(s, c, Place(jump, Len(s))), Founded(s),
           NEW k \in Nat, Len(Frame(jump, c[1])) = k, Link(jump) = k
    PROVE  Stands(Pop(s, k), c, Place(Popped(s, 1), Len(Pop(s, k)))) /\ Founded(Pop(s, k))
<1> DEFINE m == Len(s) - k
<1>1. Len(s) \in Nat /\ m \in Int /\ m = Len(s) - Len(Frame(jump, c[1])) /\ m + Link(jump) = m + k
  OBVIOUS
<1>2. jump \in Jumps /\ m \in Nat /\ m >= 9 /\ Stands(s, c, Place(s[m + k].v, m))
  <2> HIDE DEF m
  <2>1. jump \in Jumps /\ m \in Nat /\ m >= 9 /\ Stands(s, c, Place(s[m + Link(jump)].v, m))
    BY <1>1, FrameUnder
  <2>2. QED BY <1>1, <2>1
<1>3. k >= 1
  BY <1>2, FrameShape
<1>4. m + k = Len(s) /\ k \in 0 .. Len(s) /\ 1 \in 1 .. Len(s) /\ Len(s) - 1 + 1 = Len(s)
  BY <1>1, <1>2, <1>3
<1>5. Len(Pop(s, k)) = m /\ SameBelow(s, Pop(s, k), m) /\ Popped(s, 1) = s[Len(s)].v
  BY <1>4, PopWhole
<1> HIDE DEF m
<1>6. QED BY <1>2, <1>4, <1>5, StandsBelow, FoundedBelow

\* Of a frame that begins with the continuation, k entries are popped.
LEMMA PopPart ==
    ASSUME NEW s \in Seq(StackEntries), NEW c, NEW jump, jump # JUMP_CODE, Stands(s, c, Place(jump, Len(s))), Founded(s),
           NEW k \in Nat, NEW left \in Nat, left >= 1, Len(Frame(jump, c[1])) = left + k, Link(jump) = 1
    PROVE  /\ Pop(s, k) \in Seq(StackEntries) /\ Len(Pop(s, k)) >= 9 + left /\ Founded(Pop(s, k))
           /\ \A i \in 1 .. left : Pop(s, k)[Len(Pop(s, k)) - left + i].kind = Frame(jump, c[1])[i]
           /\ Stands(Pop(s, k), c, Place(Pop(s, k)[Len(Pop(s, k)) - left + 1].v, Len(Pop(s, k)) - left))
<1> DEFINE m == Len(s) - (left + k)
           rest == Pop(s, k)
<1>1. Len(s) \in Nat /\ m \in Int /\ m = Len(s) - Len(Frame(jump, c[1]))
  OBVIOUS
<1>2. /\ jump \in Jumps /\ m \in Nat /\ m >= 9 /\ Stands(s, c, Place(s[m + 1].v, m))
      /\ \A i \in 1 .. left + k : s[m + i].kind = Frame(jump, c[1])[i]
  <2> HIDE DEF m
  <2>1. jump \in Jumps /\ m \in Nat /\ m >= 9 /\ Stands(s, c, Place(s[m + Link(jump)].v, m))
    BY <1>1, FrameUnder
  <2>2. Shows(s, m, Frame(jump, c[1]))
    BY <1>1, FrameUnder
  <2>3. QED BY <2>1, <2>2 DEF Shows
<1>3. k \in 0 .. Len(s) /\ Len(s) - k = m + left
  BY <1>1, <1>2
<1> HIDE DEF m
<1>4. rest \in Seq(StackEntries) /\ Len(rest) = m + left /\ SameBelow(s, rest, m + left)
  BY <1>3, PopWhole
<1> HIDE DEF rest
<1>5. SameBelow(s, rest, m) /\ \A i \in 1 .. left : rest[m + i] = s[m + i]
  <2>1. \A i \in 1 .. m + left : rest[i] = s[i]
    BY <1>4 DEF SameBelow
  <2>2. /\ \A i \in 1 .. m : i \in 1 .. m + left
        /\ \A i \in 1 .. left : m + i \in 1 .. m + left
    BY <1>2
  <2>3. QED BY <2>1, <2>2 DEF SameBelow
<1>6. Founded(rest) /\ Stands(rest, c, Place(s[m + 1].v, m))
  BY <1>2, <1>5, FoundedBelow, StandsBelow
<1>7. rest[m + 1] = s[m + 1]
  BY <1>5
<1>8. ASSUME NEW i \in 1 .. left PROVE rest[m + i].kind = Frame(jump, c[1])[i]
  <2>1. i \in 1 .. left + k
    OBVIOUS
  <2>2. QED BY <1>2, <1>5, <2>1
<1>9. Len(rest) - left = m
  BY <1>2, <1>4
<1>10. QED BY <1>2, <1>4, <1>6, <1>7, <1>8, <1>9 DEF rest

\* One entry of such a frame is left, or two.
LEMMA PopToLink ==
    ASSUME NEW s \in Seq(StackEntries), NEW c, NEW jump, jump # JUMP_CODE, Stands(s, c, Place(jump, Len(s))), Founded(s),
           NEW k \in Nat, Len(Frame(jump, c[1])) = 1 + k, Link(jump) = 1, Frame(jump, c[1])[1] = "cont"
    PROVE  Pop(s, k) \in Seq(StackEntries) /\ Linked(Pop(s, k), c) /\ Founded(Pop(s, k))
<1> DEFINE rest == Pop(s, k)
<1>1. /\ rest \in Seq(StackEntries) /\ Len(rest) >= 9 + 1 /\ Founded(rest)
      /\ \A i \in 1 .. 1 : rest[Len(rest) - 1 + i].kind = Frame(jump, c[1])[i]
      /\ Stands(rest, c, Place(rest[Len(rest) - 1 + 1].v, Len(rest) - 1))
  BY PopPart
<1> HIDE DEF rest
<1>2. rest[Len(rest)].kind = "cont" /\ Len(rest) - 1 + 1 = Len(rest)
  BY <1>1
<1>3. Linked(rest, c)
  BY <1>1, <1>2 DEF Linked
<1>4. QED BY <1>1, <1>3 DEF rest

LEMMA PopToProcedure ==
    ASSUME NEW s \in Seq(StackEntries), NEW c, NEW jump, jump # JUMP_CODE, Stands(s, c, Place(jump, Len(s))), Founded(s),
           NEW k \in Nat, Len(Frame(jump, c[1])) = 2 + k, Link(jump) = 1,
           Frame(jump, c[1])[1] = "cont", Frame(jump, c[1])[2] = "data"
    PROVE  Pop(s, k) \in Seq(StackEntries) /\ LinkedUnder(Pop(s, k), c) /\ Founded(Pop(s, k))
<1> DEFINE rest == Pop(s, k)
<1>1. /\ rest \in Seq(StackEntries) /\ Len(rest) >= 9 + 2 /\ Founded(rest)
      /\ \A i \in 1 .. 2 : rest[Len(rest) - 2 + i].kind = Frame(jump, c[1])[i]
      /\ Stands(rest, c, Place(rest[Len(rest) - 2 + 1].v, Len(rest) - 2))
  BY PopPart
<1> HIDE DEF rest
<1>2. Len(rest) - 2 + 1 = Len(rest) - 1 /\ Len(rest) - 2 + 2 = Len(rest) /\ 1 \in 1 .. 2 /\ 2 \in 1 .. 2
  BY <1>1
<1>3. rest[Len(rest) - 1].kind = "cont" /\ rest[Len(rest)].kind = "data"
  BY <1>1, <1>2
<1>4. LinkedUnder(rest, c)
  BY <1>1, <1>2, <1>3 DEF LinkedUnder
<1>5. QED BY <1>1, <1>4 DEF rest

\* The labels that pop, and the continuation they pop.
LEMMA PopsOf ==
    /\ \A label \in {"if_decide", "assignment_1", "definition_1"} :
          Pops(label) \in {<<"cont", "env", "exp">>, <<"cont", "env", "unev">>}
    /\ Pops("did_operator") = <<"unev", "env">> /\ Pops("accumulate_arg") = <<"unev", "env", "last", "argl">>
    /\ Pops("accum_last_arg") = <<"last", "argl", "proc">> /\ Pops("sequence_continue") = <<"env", "unev">>
    /\ Pops("macro_finish") = <<"cont">>
BY DEF Pops, PopTable

LEMMA PoppedCont ==
    ASSUME NEW names \in {<<"cont", "env", "exp">>, <<"cont", "env", "unev">>, <<"cont">>},
           NEW r \in Registers, NEW s \in Seq(StackEntries)
    PROVE  PopInto(names, r, s).cont = Popped(s, 1)
<1>1. "cont" \in DOMAIN r
  BY RegisterNames DEF Registers
<1>2. \A i \in DOMAIN names : names[i] = "cont" <=> i = 1
  OBVIOUS
<1>3. 1 \in DOMAIN names
  OBVIOUS
<1>4. (CHOOSE i \in DOMAIN names : names[i] = "cont") = 1
  BY <1>2, <1>3
<1>5. QED BY <1>1, <1>2, <1>3, <1>4 DEF PopInto

\* A label is reached from one continuation only.
LEMMA LabelsOf ==
    ASSUME NEW jump \in Jumps
    PROVE  /\ LabelOf(jump) = "if_decide" <=> jump = JUMP_EV_IF_DECIDE
           /\ LabelOf(jump) = "assignment_1" <=> jump = JUMP_EV_ASSIGNMENT_1
           /\ LabelOf(jump) = "definition_1" <=> jump = JUMP_EV_DEFINITION_1
           /\ LabelOf(jump) = "did_operator" <=> jump = JUMP_EV_APPL_DID_OPERATOR
           /\ LabelOf(jump) = "accumulate_arg" <=> jump = JUMP_EV_APPL_ACCUMULATE_ARG
           /\ LabelOf(jump) = "accum_last_arg" <=> jump = JUMP_EV_APPL_ACCUM_LAST_ARG
           /\ LabelOf(jump) = "sequence_continue" <=> jump = JUMP_EV_SEQUENCE_CONTINUE
           /\ LabelOf(jump) = "macro_finish" <=> jump = JUMP_MACRO_FINISH
           /\ LabelOf(jump) = "import_aux" <=> jump = JUMP_EV_IMPORT_AUX
           /\ LabelOf(jump) = "exit" <=> jump = JUMP_CODE
           /\ LabelOf(jump) \notin {"host", "undefined", "begin", "dispatch", "continue", "sequence", "apply",
                                    "restoring", "redirecting", "operand_loop"}
<1> USE JumpValues
<1>1. LabelOf(0) = "exit" /\ LabelOf(1) = "macro_finish" /\ LabelOf(2) = "definition_1" /\ LabelOf(3) = "assignment_1"
  BY DEF LabelOf
<1>2. LabelOf(4) = "did_operator" /\ LabelOf(5) = "accumulate_arg" /\ LabelOf(6) = "accum_last_arg"
  BY DEF LabelOf
<1>3. LabelOf(7) = "sequence_continue" /\ LabelOf(8) = "if_decide" /\ LabelOf(10) = "import_aux"
  BY DEF LabelOf
<1>4. QED BY <1>1, <1>2, <1>3

-----------------------------------------------------------------------------
(* The steps.                                                              *)

LEMMA FrameNext ==
    ASSUME pc' # "host", Expected(pc', reg', stack', calls'), Founded(stack')
    PROVE  FrameInv'
BY DEF FrameInv

\* What an action finds.
LEMMA FrameFacts ==
    ASSUME Ready, FrameInv, Running
    PROVE  /\ reg \in Registers /\ stack \in Seq(StackEntries) /\ Len(stack) \in Nat
           /\ calls \in Seq(Callers) /\ calls # <<>> /\ 1 \in DOMAIN calls
           /\ Expected(pc, reg, stack, calls) /\ Founded(stack) /\ reg.cont \in Nat
<1>1. reg \in Registers /\ stack \in Seq(StackEntries) /\ calls \in Seq(Callers) /\ calls # <<>>
  BY DEF Ready, CoreOK, CallsOK, Running
<1>2. 1 \in DOMAIN calls
  BY <1>1
<1>3. QED BY <1>1, <1>2, RegisterTypes DEF FrameInv

\* At these labels the continuation is in its register.
LEMMA ContinuationStands ==
    ASSUME Ready, FrameInv, Running,
           pc \notin {"sequence", "apply", "restoring", "redirecting", "operand_loop", "exit"}
    PROVE  Stands(stack, calls, Place(reg.cont, Len(stack))) /\ Founded(stack)
BY FrameFacts DEF Expected

LEMMA LinkStands ==
    ASSUME Ready, FrameInv, pc \in {"sequence", "apply", "restoring", "redirecting"}
    PROVE  Linked(stack, calls) /\ Founded(stack)
BY FrameFacts DEF Expected, Running

LEMMA DeliverMoves ==
    ASSUME NEW outcome, NEW label, NEW r \in Registers, NEW s, Deliver(outcome, label, r, s)
    PROVE  pc' = label /\ stack' = s /\ reg'.cont = r.cont /\ calls' = calls
BY RegisterNames DEF Deliver, Create, Created, To, host, Registers

\* Going on with the same continuation.
LEMMA Onward ==
    ASSUME pc' \in {"begin", "dispatch", "continue"}, calls' = calls,
           Stands(stack', calls, Place(reg'.cont, Len(stack'))), Founded(stack')
    PROVE  FrameInv'
<1>1. Expected(pc', reg', stack', calls')
  BY DEF Expected
<1>2. QED BY <1>1, FrameNext

LEMMA OnwardLinked ==
    ASSUME pc' \in {"sequence", "apply", "restoring", "redirecting"}, calls' = calls,
           Linked(stack', calls), Founded(stack')
    PROVE  FrameInv'
<1>1. Expected(pc', reg', stack', calls')
  BY DEF Expected
<1>2. QED BY <1>1, FrameNext

LEMMA DeliverFrames ==
    ASSUME Ready, NEW outcome, NEW r \in Registers, NEW s, Deliver(outcome, "continue", r, s),
           Stands(s, calls, Place(r.cont, Len(s))), Founded(s)
    PROVE  FrameInv'
<1>1. pc' = "continue" /\ stack' = s /\ reg'.cont = r.cont /\ calls' = calls
  BY DeliverMoves
<1>2. QED BY <1>1, Onward

LEMMA SavedPush ==
    ASSUME NEW r \in Registers, NEW s \in Seq(StackEntries), Len(save_regs(r, s)) < MaxStackDepth
    PROVE  /\ save_regs(r, s) \in Seq(StackEntries) /\ Len(save_regs(r, s)) = Len(s) + 9
           /\ SameBelow(s, save_regs(r, s), Len(s))
           /\ \A i \in 1 .. 9 : save_regs(r, s)[Len(s) + i].kind = SavedKinds[i]
           /\ save_regs(r, s)[Len(s) + 8].v = r.cont
           /\ (\A n \in DOMAIN r \ {"val"} : r[n] = NULL) => \A i \in 1 .. 9 : save_regs(r, s)[Len(s) + i].v = NULL
<1> DEFINE saved == <<Data(r.exp), Data(r.argl), Data(r.unev), Data(r.proc), Data(r.code), Data(r.top),
                      Env(r.env), Cont(r.cont), ArgPointer(r.last)>>
<1>1. /\ r.exp \in Nat /\ r.argl \in Nat /\ r.unev \in Nat /\ r.proc \in Nat /\ r.code \in Nat
      /\ r.top \in Nat /\ r.env \in Nat /\ r.cont \in Nat /\ r.last \in Nat
  BY RegisterTypes
<1>2. saved \in Seq(StackEntries)
  <2>1. /\ Data(r.exp) \in StackEntries /\ Data(r.argl) \in StackEntries /\ Data(r.unev) \in StackEntries
        /\ Data(r.proc) \in StackEntries /\ Data(r.code) \in StackEntries /\ Data(r.top) \in StackEntries
        /\ Env(r.env) \in StackEntries /\ Cont(r.cont) \in StackEntries /\ ArgPointer(r.last) \in StackEntries
    BY <1>1, EntryTypes
  <2>2. QED BY <2>1
<1>3. Len(saved) = 9 /\ \A i \in 1 .. 9 : saved[i].kind = SavedKinds[i]
  BY DEF SavedKinds, Data, Env, Cont, ArgPointer
<1>4. saved[8].v = r.cont
  BY DEF Cont
<1>5. (\A n \in DOMAIN r \ {"val"} : r[n] = NULL) => \A i \in 1 .. 9 : saved[i].v = NULL
  <2>1. SUFFICES ASSUME \A n \in DOMAIN r \ {"val"} : r[n] = NULL PROVE \A i \in 1 .. 9 : saved[i].v = NULL
    OBVIOUS
  <2>2. DOMAIN r \ {"val"} = {"exp", "argl", "unev", "proc", "env", "cont", "last", "code", "top"}
    BY RegisterNames DEF Registers
  <2>3. /\ r.exp = NULL /\ r.argl = NULL /\ r.unev = NULL /\ r.proc = NULL /\ r.code = NULL
        /\ r.top = NULL /\ r.env = NULL /\ r.cont = NULL /\ r.last = NULL
    BY <2>1, <2>2
  <2>4. QED BY <2>3 DEF Data, Env, Cont, ArgPointer
<1>6. save_regs(r, s) = Push(s, saved)
  BY DEF save_regs
<1> HIDE DEF saved
<1>7. /\ Push(s, saved) \in Seq(StackEntries) /\ Len(Push(s, saved)) = Len(s) + Len(saved)
      /\ SameBelow(s, Push(s, saved), Len(s))
      /\ \A i \in 1 .. Len(saved) : Push(s, saved)[Len(s) + i] = saved[i]
  BY <1>2, <1>6, PushWhole
<1> DEFINE s2 == Push(s, saved)
<1>8. \A i \in 1 .. 9 : s2[Len(s) + i] = saved[i]
  BY <1>3, <1>7
<1>9. s2[Len(s) + 8].v = r.cont
  BY <1>4, <1>8
<1>10. \A i \in 1 .. 9 : s2[Len(s) + i].kind = SavedKinds[i]
  BY <1>3, <1>8
<1>11. (\A n \in DOMAIN r \ {"val"} : r[n] = NULL) => \A i \in 1 .. 9 : s2[Len(s) + i].v = NULL
  BY <1>5, <1>8
<1>12. QED BY <1>3, <1>6, <1>7, <1>9, <1>10, <1>11

LEMMA PushTwice ==
    ASSUME NEW s \in Seq(StackEntries), NEW a \in Seq(StackEntries), NEW b \in Seq(StackEntries),
           Len(Push(Push(s, a), b)) < MaxStackDepth
    PROVE  Len(Push(s, a)) < MaxStackDepth
<1> DEFINE t == Push(s, a)
           all == t \o b
<1>1. t \in Seq(StackEntries)
  BY PushType
<1>2. Push(t, b) = IF Len(all) <= MaxStackDepth THEN all ELSE SubSeq(all, 1, MaxStackDepth)
  BY DEF Push
<1>3. Len(t) <= MaxStackDepth
  <2>1. s \o a \in Seq(StackEntries)
    OBVIOUS
  <2>2. t = IF Len(s \o a) <= MaxStackDepth THEN s \o a ELSE SubSeq(s \o a, 1, MaxStackDepth)
    BY DEF Push
  <2> HIDE DEF t
  <2>3. QED BY <2>1, <2>2, MachineAssumption
<1> HIDE DEF t
<1>4. all \in Seq(StackEntries) /\ Len(all) = Len(t) + Len(b)
  BY <1>1, Joined
<1> HIDE DEF all
<1>5. CASE Len(all) <= MaxStackDepth
  <2>1. Len(all) < MaxStackDepth
    BY <1>2, <1>5 DEF t
  <2>2. Len(t) < MaxStackDepth
    BY <1>1, <1>4, <2>1, MachineAssumption
  <2>3. QED BY <2>2 DEF t
<1>6. CASE ~ (Len(all) <= MaxStackDepth)
  <2>1. Len(SubSeq(all, 1, MaxStackDepth)) = MaxStackDepth
    BY <1>4, <1>6, MachineAssumption
  <2>2. QED BY <1>2, <1>6, <2>1, MachineAssumption DEF t
<1>7. QED BY <1>5, <1>6

LEMMA EnterMoves ==
    ASSUME NEW program, NEW caller, NEW r \in Registers, NEW s, Enter(program, caller, r, s)
    PROVE  /\ stack' = save_regs(r, s) /\ calls' = <<caller>> \o calls
           /\ pc' \in {"exit", "begin", "dispatch"} /\ reg'.cont = JUMP_CODE
<1>1. stack' = save_regs(r, s) /\ calls' = <<caller>> \o calls /\ pc' \in {"exit", "begin", "dispatch"}
  BY DEF Enter
<1>2. reg'.cont = JUMP_CODE
  BY RegisterNames DEF Enter, Registers
<1>3. QED BY <1>1, <1>2

\* An evaluation begins with the frame of its caller on the stack.
LEMMA EnterFrames ==
    ASSUME NEW program, NEW caller, NEW r \in Registers, NEW s, Enter(program, caller, r, s),
           Stands(stack', calls', Place(JUMP_CODE, Len(stack'))), Founded(stack')
    PROVE  FrameInv'
<1>1. pc' \in {"exit", "begin", "dispatch"} /\ reg'.cont = JUMP_CODE
  BY EnterMoves
<1>2. Expected(pc', reg', stack', calls')
  BY <1>1 DEF Expected
<1>3. QED BY <1>1, <1>2, FrameNext

LEMMA NestedFrames ==
    ASSUME Ready, StackNeverFull', calls # <<>>, NEW text, NEW caller \in Callers \ {"host"}, NEW r \in Registers,
           NEW s \in Seq(StackEntries), Stands(s, calls, Place(r.cont, Len(s))), Founded(s),
           caller = "import_aux" => r.cont = JUMP_EV_IMPORT_AUX, Nested(text, caller, r, s)
    PROVE  FrameInv'
<1> DEFINE s1 == save_regs(r, s)
           r1 == [r EXCEPT !.cont = JUMP_CODE]
           s2 == save_regs(r1, s1)
           c2 == <<caller>> \o calls
           m == Len(s)
<1>1. r1 \in Registers /\ s1 \in Seq(StackEntries) /\ m \in Nat
  <2>1. JUMP_CODE \in Nat
    BY JumpValues
  <2>2. r1 \in Registers
    BY <2>1, Assign
  <2>3. QED BY <2>2, SaveType
<1>2. Enter(Image[text], caller, r1, s1)
  BY DEF Nested
<1>3. stack' = s2 /\ calls' = c2 /\ Len(s2) < MaxStackDepth
  BY <1>1, <1>2, EnterMoves DEF StackNeverFull
<1>4. Len(s1) < MaxStackDepth
  <2> DEFINE Saves(q) == <<Data(q.exp), Data(q.argl), Data(q.unev), Data(q.proc), Data(q.code), Data(q.top),
                           Env(q.env), Cont(q.cont), ArgPointer(q.last)>>
  <2>1. \A q \in Registers : Saves(q) \in Seq(StackEntries)
    <3>1. TAKE q \in Registers
    <3>2. /\ q.exp \in Nat /\ q.argl \in Nat /\ q.unev \in Nat /\ q.proc \in Nat /\ q.code \in Nat
          /\ q.top \in Nat /\ q.env \in Nat /\ q.cont \in Nat /\ q.last \in Nat
      BY RegisterTypes
    <3>3. /\ Data(q.exp) \in StackEntries /\ Data(q.argl) \in StackEntries /\ Data(q.unev) \in StackEntries
          /\ Data(q.proc) \in StackEntries /\ Data(q.code) \in StackEntries /\ Data(q.top) \in StackEntries
          /\ Env(q.env) \in StackEntries /\ Cont(q.cont) \in StackEntries /\ ArgPointer(q.last) \in StackEntries
      BY <3>2, EntryTypes
    <3>4. QED BY <3>3
  <2>2. s1 = Push(s, Saves(r)) /\ s2 = Push(s1, Saves(r1))
    BY DEF save_regs
  <2> HIDE DEF Saves, s1, s2, r1
  <2>3. Len(Push(Push(s, Saves(r)), Saves(r1))) < MaxStackDepth
    BY <1>3, <2>2
  <2>4. Len(Push(s, Saves(r))) < MaxStackDepth
    BY <1>1, <2>1, <2>3, PushTwice
  <2>5. QED BY <2>2, <2>4
<1>5. /\ Len(s1) = m + 9 /\ SameBelow(s, s1, m) /\ \A i \in 1 .. 9 : s1[m + i].kind = SavedKinds[i]
      /\ s1[m + 8].v = r.cont
  BY <1>4, SavedPush
<1> HIDE DEF s1
<1>6. /\ Len(s2) = Len(s1) + 9 /\ SameBelow(s1, s2, Len(s1))
      /\ \A i \in 1 .. 9 : s2[Len(s1) + i].kind = SavedKinds[i]
  BY <1>1, <1>3, SavedPush
<1> HIDE DEF s2, r1, m
<1>7. SameBelow(s, s2, m) /\ \A i \in 1 .. 9 : s2[m + i] = s1[m + i]
  <2>1. \A i \in 1 .. m : i \in 1 .. Len(s1)
    BY <1>1, <1>5
  <2>2. \A i \in 1 .. 9 : m + i \in 1 .. Len(s1)
    BY <1>1, <1>5
  <2>3. QED BY <1>5, <1>6, <2>1, <2>2 DEF SameBelow
<1>8. /\ \A i \in 1 .. 9 : s2[m + i].kind = SavedKinds[i] /\ s2[m + (9 + i)].kind = SavedKinds[i]
      /\ s2[m + 8].v = r.cont
  <2>1. \A i \in 1 .. 9 : s2[m + i].kind = SavedKinds[i]
    BY <1>5, <1>7
  <2>2. ASSUME NEW i \in 1 .. 9 PROVE s2[m + (9 + i)].kind = SavedKinds[i]
    <3>1. m + (9 + i) = Len(s1) + i
      <4>1. m \in Nat /\ Len(s1) = m + 9
        BY <1>1, <1>5
      <4>2. QED BY <4>1
    <3>2. QED BY <1>6, <3>1
  <2>3. s2[m + 8].v = r.cont
    BY <1>5, <1>7
  <2>4. QED BY <2>1, <2>2, <2>3
<1>9. calls \in Seq(Callers) /\ c2[1] = caller /\ 1 \in DOMAIN c2
  BY DEF Ready, CoreOK, CallsOK
<1>10. Stands(s2, c2, Outer(r.cont, m))
  BY <1>1, <1>7, <1>9, StandsNested DEF m
<1> HIDE DEF c2
<1>11. Stands(s2, c2, Place(JUMP_CODE, m + (IF c2[1] = "host" THEN 9 ELSE 18)))
  BY <1>1, <1>8, <1>9, <1>10, CodeOver
<1>12. m + (IF c2[1] = "host" THEN 9 ELSE 18) = Len(s2)
  BY <1>1, <1>5, <1>6, <1>9
<1>13. Founded(s2)
  <2>1. m >= 9
    BY <1>1, StandsFramed DEF m
  <2>2. QED BY <1>1, <1>7, <2>1, FoundedBelow
<1>14. QED BY <1>1, <1>2, <1>3, <1>11, <1>12, <1>13, EnterFrames

LEMMA EvalFrames ==
    ASSUME Ready, FrameInv, StackNeverFull', Eval
    PROVE  FrameInv'
<1> DEFINE s2 == save_regs(reg, <<>>)
           c2 == <<"host">> \o calls
<1>1. pc = "host" /\ calls = <<>> /\ reg \in Registers /\ StackUnwound
  BY DEF Eval, Ready, CoreOK, CallsOK, FrameInv
<1>2. stack = <<>> /\ reg = [InitialRegisters EXCEPT !.val = reg.val]
  BY <1>1 DEF StackUnwound
<1>3. PICK program : Enter(program, "host", reg, stack)
  BY DEF Eval
<1>4. stack' = s2 /\ calls' = c2 /\ Len(s2) < MaxStackDepth
  BY <1>1, <1>2, <1>3, EnterMoves DEF StackNeverFull
<1>5. \A n \in DOMAIN reg \ {"val"} : reg[n] = NULL
  <2>1. \A n \in DOMAIN InitialRegisters : InitialRegisters[n] = NULL
    BY DEF InitialRegisters, NULL, JUMP_CODE
  <2>2. DOMAIN reg = DOMAIN InitialRegisters
    BY <1>1 DEF Registers
  <2>3. \A n \in DOMAIN InitialRegisters \ {"val"} : [InitialRegisters EXCEPT !.val = reg.val][n] = InitialRegisters[n]
    OBVIOUS
  <2>4. QED BY <1>2, <2>1, <2>2, <2>3
<1>6. <<>> \in Seq(StackEntries) /\ Len(<<>>) = 0
  OBVIOUS
<1>7. /\ Len(s2) = Len(<<>>) + 9
      /\ \A i \in 1 .. 9 : s2[Len(<<>>) + i].kind = SavedKinds[i] /\ s2[Len(<<>>) + i].v = NULL
  <2>1. <<>> \in Seq(StackEntries) /\ Len(save_regs(reg, <<>>)) < MaxStackDepth
    BY <1>4, <1>6
  <2>2. QED BY <1>1, <1>5, <2>1, SavedPush
<1> HIDE DEF s2
<1>8. Len(s2) = 9 /\ \A i \in 1 .. 9 : s2[0 + i].kind = SavedKinds[i] /\ s2[i].v = NULL
  BY <1>6, <1>7
<1>9. c2[1] = "host" /\ 1 \in DOMAIN c2
  BY <1>1
<1> HIDE DEF c2
<1>10. Stands(s2, c2, Place(JUMP_CODE, 0 + (IF c2[1] = "host" THEN 9 ELSE 18)))
  BY <1>8, <1>9, CodeOver
<1>11. 0 + (IF c2[1] = "host" THEN 9 ELSE 18) = Len(s2)
  BY <1>8, <1>9
<1>12. Founded(s2)
  BY <1>8 DEF Founded
<1>13. QED BY <1>1, <1>3, <1>4, <1>10, <1>11, <1>12, EnterFrames

LEMMA EvalOnStringFrames ==
    ASSUME Ready, StackNeverFull', calls # <<>>, NEW p, NEW r \in Registers, NEW s \in Seq(StackEntries),
           Stands(s, calls, Place(r.cont, Len(s))), Founded(s), run_eval_on_string(p, r, s)
    PROVE  FrameInv'
<1>1. CASE Nested(TextOf(p), "string", r, s)
  <2>1. "string" \in Callers \ {"host"}
    BY DEF Callers
  <2>2. QED BY <1>1, <2>1, NestedFrames
<1>2. CASE Deliver(Creates(Error("problem reading string")), "continue", r, s)
  BY <1>2, DeliverFrames
<1>3. QED BY <1>1, <1>2 DEF run_eval_on_string

LEMMA ImportFrame ==
    ASSUME NEW s \in Seq(StackEntries), NEW c, Stands(s, c, Place(JUMP_EV_IMPORT_AUX, Len(s))), Founded(s)
    PROVE  Stands(Pop(s, 1), c, Place(Popped(s, 1), Len(Pop(s, 1)))) /\ Founded(Pop(s, 1))
<1>1. Frame(JUMP_EV_IMPORT_AUX, c[1]) = <<"cont">> /\ Link(JUMP_EV_IMPORT_AUX) = 1 /\ JUMP_EV_IMPORT_AUX # JUMP_CODE
  BY FrameOf, JumpValues
<1>2. Len(Frame(JUMP_EV_IMPORT_AUX, c[1])) = 1
  BY <1>1
<1>3. QED BY <1>1, <1>2, PopFrame

LEMMA EvalOnFileFrames ==
    ASSUME Ready, StackNeverFull', calls # <<>>, NEW name, NEW caller \in {"import", "import_aux"}, NEW r \in Registers,
           NEW s \in Seq(StackEntries), Stands(s, calls, Place(r.cont, Len(s))), Founded(s),
           caller = "import_aux" => r.cont = JUMP_EV_IMPORT_AUX, run_eval_on_file(name, caller, r, s)
    PROVE  FrameInv'
<1>1. CASE Nested(name, caller, r, s)
  <2>1. caller \in Callers \ {"host"}
    BY DEF Callers
  <2>2. QED BY <1>1, <2>1, NestedFrames
<1>2. CASE caller = "import" /\ Deliver(Creates(Error("problem with file")), "continue", r, s)
  BY <1>2, DeliverFrames
<1>3. CASE /\ caller = "import_aux"
           /\ Deliver(Creates(Error("problem with file")), "continue", [r EXCEPT !.cont = Popped(s, 1)], Pop(s, 1))
  <2> DEFINE r2 == [r EXCEPT !.cont = Popped(s, 1)]
             s2 == Pop(s, 1)
  <2>1. Stands(s2, calls, Place(Popped(s, 1), Len(s2))) /\ Founded(s2)
    BY <1>3, ImportFrame
  <2>2. r2 \in Registers
    <3>1. Popped(s, 1) \in Nat
      BY PoppedType
    <3>2. QED BY <3>1, Assign
  <2>3. r2.cont = Popped(s, 1)
    BY RegisterNames DEF Registers
  <2>4. Deliver(Creates(Error("problem with file")), "continue", r2, s2)
    BY <1>3
  <2> HIDE DEF r2, s2
  <2>5. QED BY <2>1, <2>2, <2>3, <2>4, DeliverFrames
<1>4. caller = "import" => caller # "import_aux"
  OBVIOUS
<1>5. QED BY <1>1, <1>2, <1>3, <1>4 DEF run_eval_on_file

\* The frames that the forms push.
LEMMA ThreePushed ==
    ASSUME NEW s \in Seq(StackEntries), NEW a \in StackEntries, NEW b \in StackEntries, NEW d \in StackEntries,
           Len(Push(s, <<a, b, d>>)) < MaxStackDepth, NEW c, 1 \in DOMAIN c, NEW jump \in Jumps \ {JUMP_CODE},
           Frame(jump, c[1]) = <<a.kind, b.kind, d.kind>>,
           NEW next, Stands(s, c, Place(next, Len(s))), Founded(s),
           \/ Link(jump) = 1 /\ a.v = next
           \/ Link(jump) = 3 /\ d.v = next
    PROVE  Stands(Push(s, <<a, b, d>>), c, Place(jump, Len(Push(s, <<a, b, d>>)))) /\ Founded(Push(s, <<a, b, d>>))
<1> DEFINE es == <<a, b, d>>
           kinds == Frame(jump, c[1])
<1>1. es \in Seq(StackEntries) /\ Len(es) = 3 /\ \A i \in 1 .. 3 : es[i].kind = kinds[i]
  OBVIOUS
<1>2. Len(kinds) = 0 + 3
  OBVIOUS
<1>3. (Link(jump) = 1 \/ Link(jump) = 3) /\ es[Link(jump) - 0].v = next
  OBVIOUS
<1>4. Len(Push(s, es)) < MaxStackDepth
  OBVIOUS
<1> HIDE DEF es
<1>5. /\ Len(kinds) = 0 + Len(es) /\ \A i \in 1 .. 0 : s[Len(s) + i].kind = kinds[i]
      /\ \A i \in 1 .. Len(es) : es[i].kind = kinds[0 + i]
      /\ IF Link(jump) <= 0 THEN s[Len(s) + Link(jump)].v = next ELSE es[Link(jump) - 0].v = next
  BY <1>1, <1>2, <1>3
<1>6. Len(s) \in Nat /\ 0 \in Nat /\ Len(s) + 0 = Len(s)
  OBVIOUS
<1> HIDE DEF kinds
<1>7. Stands(Push(s, es), c, Place(jump, Len(Push(s, es)))) /\ Founded(Push(s, es))
  BY <1>1, <1>4, <1>5, <1>6, PushFrame DEF kinds
<1>8. QED BY <1>7 DEF es

LEMMA NamedCodeFrames ==
    ASSUME Ready, Stands(stack, calls, Place(reg.cont, Len(stack))), Founded(stack), NEW cell, NamedCode(cell)
    PROVE  FrameInv'
<1>1. pc' = "continue" /\ stack' = stack /\ calls' = calls
  BY DEF NamedCode, To, Created, host
<1>2. reg'.cont = reg.cont
  BY RegisterNames DEF NamedCode, To, Ready, CoreOK, Registers
<1>3. QED BY <1>1, <1>2, Onward

LEMMA DispatchFrames ==
    ASSUME Ready, FrameInv, StackNeverFull', Dispatch
    PROVE  FrameInv'
<1>1. pc = "dispatch"
  BY DEF Dispatch, EvalSelf, EvalVariable, EvalQuoted, EvalLambda, EvalDefineLambda, EvalMacroLambda, EvalEval,
         EvalImport, EvalIf, EvalAssignment, EvalDefinition, EvalStore, EvalApplication, At, AtForm
<1>2. Running
  BY <1>1 DEF Running
<1>3. /\ reg \in Registers /\ stack \in Seq(StackEntries) /\ calls # <<>> /\ 1 \in DOMAIN calls
      /\ Stands(stack, calls, Place(reg.cont, Len(stack))) /\ Founded(stack)
  BY <1>1, <1>2, FrameFacts, ContinuationStands
<1>4. /\ Len(stack') < MaxStackDepth
      /\ \A p : CADR(p) \in Nat /\ CDR(p) \in Nat /\ CDDR(p) \in Nat /\ CAR(p) \in Nat
      /\ reg.exp \in Nat /\ reg.env \in Nat /\ reg.cont \in Nat
  BY ReadyTypes DEF StackNeverFull
<1>5. CASE EvalSelf
  <2>1. pc' = "continue" /\ stack' = stack /\ calls' = calls /\ reg' = [reg EXCEPT !.val = reg.exp]
    BY <1>5 DEF EvalSelf, At, To, host
  <2>2. reg'.cont = reg.cont
    BY <1>3, <2>1, RegisterNames DEF Registers
  <2>3. QED BY <1>3, <2>1, <2>2, Onward
<1>6. CASE EvalVariable
  BY <1>3, <1>6, DeliverFrames DEF EvalVariable
<1>7. CASE EvalQuoted
  <2>1. PICK o : Deliver(o, "continue", reg, stack)
    BY <1>7 DEF EvalQuoted
  <2>2. QED BY <1>3, <2>1, DeliverFrames
<1>8. ASSUME NEW r, r \in Registers, r.cont = reg.cont, NEW o, Deliver(o, "continue", r, stack) PROVE FrameInv'
  <2>1. Stands(stack, calls, Place(r.cont, Len(stack)))
    BY <1>3, <1>8
  <2>2. QED BY <1>3, <1>8, <2>1, DeliverFrames
<1>9. CASE EvalLambda
  <2> DEFINE r == [reg EXCEPT !.unev = CADR(reg.exp), !.exp = CDDR(reg.exp)]
  <2>1. r \in Registers /\ r.cont = reg.cont
    BY <1>3, <1>4, RegisterNames DEF Registers
  <2>2. PICK o : Deliver(o, "continue", r, stack)
    BY <1>9 DEF EvalLambda
  <2> HIDE DEF r
  <2>3. QED BY <1>8, <2>1, <2>2
<1>10. CASE EvalDefineLambda \/ EvalMacroLambda
  BY <1>3, <1>10, NamedCodeFrames DEF EvalDefineLambda, EvalMacroLambda
<1>11. CASE EvalEval \/ EvalImport
  <2> DEFINE r == [reg EXCEPT !.exp = CADR(reg.exp)]
  <2>1. r \in Registers /\ r.cont = reg.cont
    BY <1>3, <1>4, RegisterNames DEF Registers
  <2>2. \/ run_eval_on_string(r.exp, r, stack)
        \/ run_eval_on_file(TextOf(r.exp), "import", r, stack)
        \/ /\ To("dispatch", [r EXCEPT !.cont = JUMP_EV_IMPORT_AUX], Push(stack, <<Cont(r.cont)>>))
           /\ UNCHANGED <<memory, host>>
        \/ \E o : Deliver(o, "continue", r, stack)
    BY <1>11, Zenon DEF EvalEval, EvalImport
  <2> HIDE DEF r
  <2>3. Stands(stack, calls, Place(r.cont, Len(stack)))
    BY <1>3, <2>1
  <2>4. CASE run_eval_on_string(r.exp, r, stack)
    BY <1>3, <2>1, <2>3, <2>4, EvalOnStringFrames
  <2>5. CASE run_eval_on_file(TextOf(r.exp), "import", r, stack)
    <3>1. "import" \in {"import", "import_aux"} /\ "import" # "import_aux"
      OBVIOUS
    <3>2. QED BY <1>3, <2>1, <2>3, <2>5, <3>1, EvalOnFileFrames
  <2>6. CASE /\ To("dispatch", [r EXCEPT !.cont = JUMP_EV_IMPORT_AUX], Push(stack, <<Cont(r.cont)>>))
             /\ UNCHANGED <<memory, host>>
    <3> DEFINE s2 == Push(stack, <<Cont(r.cont)>>)
    <3>1. pc' = "dispatch" /\ stack' = s2 /\ calls' = calls /\ reg' = [r EXCEPT !.cont = JUMP_EV_IMPORT_AUX]
      BY <2>6 DEF To, host
    <3>2. reg'.cont = JUMP_EV_IMPORT_AUX
      BY <2>1, <3>1, RegisterNames DEF Registers
    <3>3. Linked(s2, calls) /\ Founded(s2)
      BY <1>3, <1>4, <2>1, <2>3, <3>1, PushCont
    <3>4. s2 \in Seq(StackEntries)
      BY <1>3, <1>4, <2>1, EntryTypes, PushEntries
    <3> HIDE DEF s2
    <3> DEFINE m == Len(s2) - 1
    <3>5. m \in Nat /\ s2[m + 1].kind = "cont" /\ Stands(s2, calls, Place(s2[m + 1].v, m)) /\ m + 1 = Len(s2)
      BY <3>3, <3>4 DEF Linked
    <3> HIDE DEF m
    <3>6. /\ Frame(JUMP_EV_IMPORT_AUX, calls[1]) = <<"cont">> /\ Link(JUMP_EV_IMPORT_AUX) = 1
          /\ JUMP_EV_IMPORT_AUX \in Jumps \ {JUMP_CODE}
      BY FrameOf, JumpValues
    <3>7. /\ Len(Frame(JUMP_EV_IMPORT_AUX, calls[1])) = 1
          /\ \A i \in 1 .. 1 : s2[m + i].kind = Frame(JUMP_EV_IMPORT_AUX, calls[1])[i]
      BY <3>5, <3>6
    <3>8. Stands(s2, calls, Place(JUMP_EV_IMPORT_AUX, m + 1))
      BY <1>3, <3>5, <3>6, <3>7, FrameOver
    <3>9. QED BY <3>1, <3>2, <3>3, <3>5, <3>8, Onward
  <2>7. CASE \E o : Deliver(o, "continue", r, stack)
    BY <1>8, <2>1, <2>7
  <2>8. QED BY <2>2, <2>4, <2>5, <2>6, <2>7
<1>12. ASSUME NEW a \in StackEntries, NEW b \in StackEntries, NEW d \in StackEntries, NEW jump \in Jumps \ {JUMP_CODE},
              Frame(jump, calls[1]) = <<a.kind, b.kind, d.kind>>,
              (Link(jump) = 1 /\ a.v = reg.cont) \/ (Link(jump) = 3 /\ d.v = reg.cont),
              pc' = "dispatch", reg'.cont = jump, stack' = Push(stack, <<a, b, d>>), calls' = calls
       PROVE  FrameInv'
  BY <1>3, <1>4, <1>12, ThreePushed, Onward
<1>13. CASE EvalIf
  <2>1. /\ pc' = "dispatch" /\ reg' = [reg EXCEPT !.cont = JUMP_EV_IF_DECIDE, !.exp = CADR(reg.exp)] /\ calls' = calls
        /\ stack' = Push(stack, <<Data(reg.exp), Env(reg.env), Cont(reg.cont)>>)
    BY <1>13 DEF EvalIf, To, host
  <2>2. reg'.cont = JUMP_EV_IF_DECIDE
    BY <1>3, <2>1, RegisterNames DEF Registers
  <2>3. /\ Frame(JUMP_EV_IF_DECIDE, calls[1]) = <<Data(reg.exp).kind, Env(reg.env).kind, Cont(reg.cont).kind>>
        /\ Link(JUMP_EV_IF_DECIDE) = 3 /\ Cont(reg.cont).v = reg.cont /\ JUMP_EV_IF_DECIDE \in Jumps \ {JUMP_CODE}
    BY FrameOf, JumpValues DEF Data, Env, Cont
  <2>4. QED BY <1>4, <1>12, <2>1, <2>2, <2>3, EntryTypes
<1>14. ASSUME NEW form, NEW jump \in {JUMP_EV_ASSIGNMENT_1, JUMP_EV_DEFINITION_1}, EvalStore(form, jump)
       PROVE  FrameInv'
  <2>1. /\ pc' = "dispatch" /\ calls' = calls
        /\ reg' = [reg EXCEPT !.unev = CADR(reg.exp), !.exp = CAR(CDDR(reg.exp)), !.cont = jump]
        /\ stack' = Push(stack, <<Data(CADR(reg.exp)), Env(reg.env), Cont(reg.cont)>>)
    BY <1>14 DEF EvalStore, To, host
  <2>2. reg'.cont = jump
    BY <1>3, <2>1, RegisterNames DEF Registers
  <2>3. /\ Frame(jump, calls[1]) = <<Data(CADR(reg.exp)).kind, Env(reg.env).kind, Cont(reg.cont).kind>>
        /\ Link(jump) = 3 /\ Cont(reg.cont).v = reg.cont /\ jump \in Jumps \ {JUMP_CODE}
    BY FrameOf, JumpValues DEF Data, Env, Cont
  <2>4. QED BY <1>4, <1>12, <2>1, <2>2, <2>3, EntryTypes
<1>15. CASE EvalAssignment \/ EvalDefinition
  BY <1>14, <1>15 DEF EvalAssignment, EvalDefinition
<1>16. CASE EvalApplication
  <2>1. /\ pc' = "dispatch" /\ calls' = calls
        /\ reg' = [reg EXCEPT !.unev = CDR(reg.exp), !.exp = CAR(reg.exp), !.cont = JUMP_EV_APPL_DID_OPERATOR]
        /\ stack' = Push(stack, <<Cont(reg.cont), Env(reg.env), Data(CDR(reg.exp))>>)
    BY <1>16 DEF EvalApplication, To, host
  <2>2. reg'.cont = JUMP_EV_APPL_DID_OPERATOR
    BY <1>3, <2>1, RegisterNames DEF Registers
  <2>3. /\ Frame(JUMP_EV_APPL_DID_OPERATOR, calls[1]) = <<Cont(reg.cont).kind, Env(reg.env).kind, Data(CDR(reg.exp)).kind>>
        /\ Cont(reg.cont).v = reg.cont
        /\ Link(JUMP_EV_APPL_DID_OPERATOR) = 1 /\ JUMP_EV_APPL_DID_OPERATOR \in Jumps \ {JUMP_CODE}
    BY FrameOf, JumpValues DEF Data, Env, Cont
  <2>4. QED BY <1>4, <1>12, <2>1, <2>2, <2>3, EntryTypes
<1>17. QED BY <1>5, <1>6, <1>7, <1>9, <1>10, <1>11, <1>13, <1>15, <1>16, Zenon DEF Dispatch

LEMMA EntryKinds ==
    ASSUME NEW p \in Nat
    PROVE  /\ Data(p) \in StackEntries /\ Data(p).kind = "data" /\ Env(p) \in StackEntries /\ Env(p).kind = "env"
           /\ ArgPointer(p) \in StackEntries /\ ArgPointer(p).kind = "arg"
BY EntryTypes DEF Data, Env, ArgPointer

LEMMA TwoEntries ==
    ASSUME NEW a \in StackEntries, NEW b \in StackEntries
    PROVE  <<a, b>> \in Seq(StackEntries) /\ Len(<<a, b>>) = 2 /\ <<a, b>>[1].kind = a.kind /\ <<a, b>>[2].kind = b.kind
OBVIOUS

LEMMA FourEntries ==
    ASSUME NEW a \in StackEntries, NEW b \in StackEntries, NEW d \in StackEntries, NEW e \in StackEntries
    PROVE  /\ <<a, b, d, e>> \in Seq(StackEntries) /\ Len(<<a, b, d, e>>) = 4
           /\ <<a, b, d, e>>[1].kind = a.kind /\ <<a, b, d, e>>[2].kind = b.kind
           /\ <<a, b, d, e>>[3].kind = d.kind /\ <<a, b, d, e>>[4].kind = e.kind
OBVIOUS

LEMMA SequenceFrames ==
    ASSUME Ready, FrameInv, StackNeverFull', EvalBegin \/ Sequence
    PROVE  FrameInv'
<1>1. pc \in {"begin", "dispatch", "sequence"} /\ Running
  BY DEF EvalBegin, Sequence, At, AtForm, Running
<1>2. /\ reg \in Registers /\ stack \in Seq(StackEntries) /\ Len(stack) \in Nat /\ 1 \in DOMAIN calls /\ Founded(stack)
      /\ Len(stack') < MaxStackDepth /\ reg.cont \in Nat /\ reg.unev \in Nat /\ reg.env \in Nat
  BY <1>1, FrameFacts, ReadyTypes DEF StackNeverFull
<1>3. CASE EvalBegin
  <2>1. Stands(stack, calls, Place(reg.cont, Len(stack)))
    BY <1>1, <1>3, ContinuationStands DEF EvalBegin, At, AtForm
  <2>2. pc' = "sequence" /\ stack' = Push(stack, <<Cont(reg.cont)>>) /\ calls' = calls
    BY <1>3 DEF EvalBegin, At, To, host
  <2>3. Linked(stack', calls) /\ Founded(stack')
    BY <1>2, <2>1, <2>2, PushCont
  <2>4. QED BY <2>2, <2>3, OnwardLinked
<1>4. CASE Sequence
  <2> DEFINE r == [reg EXCEPT !.exp = CAR(reg.unev)]
             es == <<Data(reg.unev), Env(reg.env)>>
  <2>1. Linked(stack, calls) /\ pc' = "dispatch" /\ calls' = calls
    BY <1>4, LinkStands DEF Sequence, At, To, host
  <2>2. \/ reg' = [r EXCEPT !.cont = Popped(stack, 1)] /\ stack' = Pop(stack, 1)
        \/ reg' = [r EXCEPT !.cont = JUMP_EV_SEQUENCE_CONTINUE] /\ stack' = Push(stack, es)
    BY <1>4 DEF Sequence, To
  <2>3. CASE reg' = [r EXCEPT !.cont = Popped(stack, 1)] /\ stack' = Pop(stack, 1)
    <3>1. reg'.cont = Popped(stack, 1)
      BY <1>2, <2>3, RegisterNames DEF Registers
    <3>2. QED BY <1>2, <2>1, <2>3, <3>1, PopCont, Onward
  <2>4. CASE reg' = [r EXCEPT !.cont = JUMP_EV_SEQUENCE_CONTINUE] /\ stack' = Push(stack, es)
    <3> DEFINE jump == JUMP_EV_SEQUENCE_CONTINUE
               m == Len(stack) - 1
    <3>1. reg'.cont = jump
      BY <1>2, <2>4, RegisterNames DEF Registers
    <3>2. es \in Seq(StackEntries) /\ Len(es) = 2 /\ es[1].kind = "data" /\ es[2].kind = "env"
      BY <1>2, EntryKinds, TwoEntries
    <3> HIDE DEF es
    <3>3. Frame(jump, calls[1]) = <<"cont", "data", "env">> /\ Link(jump) = 1 /\ jump \in Jumps \ {JUMP_CODE}
      BY FrameOf, JumpValues
    <3>4. /\ m \in Nat /\ m + 1 = Len(stack) /\ stack[m + 1].kind = "cont"
          /\ Stands(stack, calls, Place(stack[m + 1].v, m))
      BY <1>2, <2>1 DEF Linked
    <3> HIDE DEF m, jump
    <3>5. /\ Len(Frame(jump, calls[1])) = 1 + Len(es)
          /\ \A i \in 1 .. 1 : stack[m + i].kind = Frame(jump, calls[1])[i]
          /\ \A i \in 1 .. Len(es) : es[i].kind = Frame(jump, calls[1])[1 + i]
          /\ IF Link(jump) <= 1 THEN stack[m + Link(jump)].v = stack[m + 1].v
             ELSE es[Link(jump) - 1].v = stack[m + 1].v
      BY <3>2, <3>3, <3>4
    <3>6. 1 \in Nat /\ Len(Push(stack, es)) < MaxStackDepth
      BY <1>2, <2>4
    <3>7. Stands(Push(stack, es), calls, Place(jump, Len(Push(stack, es)))) /\ Founded(Push(stack, es))
      BY <1>2, <3>2, <3>3, <3>4, <3>5, <3>6, PushFrame, ZenonT(40)
    <3>8. QED BY <2>1, <2>4, <3>1, <3>7, Onward DEF jump
  <2>5. QED BY <2>2, <2>3, <2>4
<1>5. QED BY <1>3, <1>4

LEMMA OperandFrames ==
    ASSUME Ready, FrameInv, StackNeverFull', OperandLoop
    PROVE  FrameInv'
<1> DEFINE m == Len(stack) - 2
           two == <<Data(reg.argl), ArgPointer(reg.last)>>
           four == <<Data(reg.argl), ArgPointer(reg.last), Env(reg.env), Data(reg.unev)>>
           r == [reg EXCEPT !.exp = CAR(reg.unev)]
<1>1. pc = "operand_loop" /\ Running
  BY DEF OperandLoop, At, Running
<1>2. /\ reg \in Registers /\ stack \in Seq(StackEntries) /\ Len(stack) \in Nat /\ 1 \in DOMAIN calls /\ Founded(stack)
      /\ Len(stack') < MaxStackDepth /\ reg.unev \in Nat /\ reg.env \in Nat /\ reg.argl \in Nat /\ reg.last \in Nat
  BY <1>1, FrameFacts, ReadyTypes DEF StackNeverFull
<1>3. LinkedUnder(stack, calls)
  BY <1>1, FrameFacts DEF Expected
<1>4. /\ m \in Nat /\ m + 2 = Len(stack) /\ stack[m + 1].kind = "cont" /\ stack[m + 2].kind = "data"
      /\ Stands(stack, calls, Place(stack[m + 1].v, m))
  <2>1. m + 1 = Len(stack) - 1 /\ m + 2 = Len(stack) /\ m \in Nat
    BY <1>2, <1>3 DEF LinkedUnder
  <2>2. QED BY <1>3, <2>1 DEF LinkedUnder
<1> HIDE DEF m
<1>5. ASSUME NEW es \in Seq(StackEntries), NEW jump \in Jumps \ {JUMP_CODE}, Link(jump) = 1,
             Len(Frame(jump, calls[1])) = 2 + Len(es), Frame(jump, calls[1])[1] = "cont", Frame(jump, calls[1])[2] = "data",
             \A i \in 1 .. Len(es) : es[i].kind = Frame(jump, calls[1])[2 + i],
             pc' = "dispatch", calls' = calls, reg' = [r EXCEPT !.cont = jump], stack' = Push(stack, es)
      PROVE  FrameInv'
  <2>1. reg'.cont = jump
    BY <1>2, <1>5, RegisterNames DEF Registers
  <2>2. \A i \in 1 .. 2 : stack[m + i].kind = Frame(jump, calls[1])[i]
    BY <1>4, <1>5
  <2>3. IF Link(jump) <= 2 THEN stack[m + Link(jump)].v = stack[m + 1].v ELSE es[Link(jump) - 2].v = stack[m + 1].v
    BY <1>5
  <2>4. 2 \in Nat /\ Len(Push(stack, es)) < MaxStackDepth
    BY <1>2, <1>5
  <2>5. Stands(Push(stack, es), calls, Place(jump, Len(Push(stack, es)))) /\ Founded(Push(stack, es))
    <3> DEFINE next == stack[m + 1].v
               kinds == Frame(jump, calls[1])
    <3>1. Len(kinds) = 2 + Len(es) /\ (\A i \in 1 .. Len(es) : es[i].kind = kinds[2 + i])
      BY <1>5
    <3>2. IF Link(jump) <= 2 THEN stack[m + Link(jump)].v = next ELSE es[Link(jump) - 2].v = next
      BY <2>3
    <3>3. m \in Nat /\ m + 2 = Len(stack) /\ Stands(stack, calls, Place(next, m)) /\ Founded(stack)
          /\ stack \in Seq(StackEntries) /\ 1 \in DOMAIN calls
      BY <1>2, <1>4
    <3>4. \A i \in 1 .. 2 : stack[m + i].kind = kinds[i]
      BY <2>2
    <3> HIDE DEF next, kinds
    <3>5. QED BY <2>4, <3>1, <3>2, <3>3, <3>4, PushFrame DEF kinds
  <2>6. QED BY <1>5, <2>1, <2>5, Onward
<1>6. /\ pc' = "dispatch" /\ calls' = calls
      /\ \/ reg' = [r EXCEPT !.cont = JUMP_EV_APPL_ACCUM_LAST_ARG] /\ stack' = Push(stack, two)
         \/ reg' = [r EXCEPT !.cont = JUMP_EV_APPL_ACCUMULATE_ARG] /\ stack' = Push(stack, four)
  BY DEF OperandLoop, At, To, host
<1>7. CASE reg' = [r EXCEPT !.cont = JUMP_EV_APPL_ACCUM_LAST_ARG] /\ stack' = Push(stack, two)
  <2>1. two \in Seq(StackEntries) /\ Len(two) = 2 /\ two[1].kind = "data" /\ two[2].kind = "arg"
    BY <1>2, EntryKinds, TwoEntries
  <2> HIDE DEF two, r
  <2> DEFINE kinds == Frame(JUMP_EV_APPL_ACCUM_LAST_ARG, calls[1])
  <2>2. kinds = <<"cont", "data", "data", "arg">> /\ Link(JUMP_EV_APPL_ACCUM_LAST_ARG) = 1
        /\ JUMP_EV_APPL_ACCUM_LAST_ARG \in Jumps \ {JUMP_CODE}
    BY FrameOf, JumpValues
  <2>3. /\ Len(kinds) = 2 + Len(two) /\ kinds[1] = "cont" /\ kinds[2] = "data"
        /\ \A i \in 1 .. Len(two) : two[i].kind = kinds[2 + i]
    BY <2>1, <2>2
  <2>4. QED BY <1>5, <1>6, <1>7, <2>1, <2>2, <2>3 DEF r
<1>8. CASE reg' = [r EXCEPT !.cont = JUMP_EV_APPL_ACCUMULATE_ARG] /\ stack' = Push(stack, four)
  <2>1. /\ four \in Seq(StackEntries) /\ Len(four) = 4
        /\ four[1].kind = "data" /\ four[2].kind = "arg" /\ four[3].kind = "env" /\ four[4].kind = "data"
    BY <1>2, EntryKinds, FourEntries
  <2> HIDE DEF four, r
  <2> DEFINE kinds == Frame(JUMP_EV_APPL_ACCUMULATE_ARG, calls[1])
  <2>2. kinds = <<"cont", "data", "data", "arg", "env", "data">> /\ Link(JUMP_EV_APPL_ACCUMULATE_ARG) = 1
        /\ JUMP_EV_APPL_ACCUMULATE_ARG \in Jumps \ {JUMP_CODE}
    BY FrameOf, JumpValues
  <2>3. /\ Len(kinds) = 2 + Len(four) /\ kinds[1] = "cont" /\ kinds[2] = "data"
        /\ \A i \in 1 .. Len(four) : four[i].kind = kinds[2 + i]
    BY <2>1, <2>2
  <2>4. QED BY <1>5, <1>6, <1>8, <2>1, <2>2, <2>3 DEF r
<1>9. QED BY <1>6, <1>7, <1>8

LEMMA AtLabel ==
    ASSUME Ready, FrameInv,
           pc \in {"if_decide", "assignment_1", "definition_1", "did_operator", "accumulate_arg", "accum_last_arg",
                   "sequence_continue", "macro_finish", "import_aux"}
    PROVE  /\ Stands(stack, calls, Place(reg.cont, Len(stack))) /\ Founded(stack)
           /\ stack \in Seq(StackEntries) /\ reg \in Registers /\ 1 \in DOMAIN calls
           /\ reg.cont \in Jumps \ {JUMP_CODE} /\ pc = LabelOf(reg.cont)
<1>1. Running
  BY DEF Running
<1>2. Stands(stack, calls, Place(reg.cont, Len(stack))) /\ pc = LabelOf(reg.cont)
  BY <1>1, FrameFacts DEF Expected
<1>3. reg.cont \in Jumps
  <2>1. Fits(stack, calls, Place(reg.cont, Len(stack)))
    BY <1>2, StandsStep
  <2>2. QED BY <2>1 DEF Fits, Place
<1>4. reg.cont # JUMP_CODE
  BY <1>2, <1>3, LabelsOf
<1>5. QED BY <1>1, <1>2, <1>3, <1>4, FrameFacts

\* At these the whole frame is popped, the continuation first.
LEMMA PopsBack ==
    ASSUME Ready, FrameInv, pc \in {"if_decide", "assignment_1", "definition_1", "macro_finish"}
    PROVE  /\ Unwound \in Registers /\ Rest \in Seq(StackEntries)
           /\ Stands(Rest, calls, Place(Unwound.cont, Len(Rest))) /\ Founded(Rest)
<1>1. /\ Stands(stack, calls, Place(reg.cont, Len(stack))) /\ Founded(stack)
      /\ stack \in Seq(StackEntries) /\ reg \in Registers
      /\ reg.cont \in Jumps \ {JUMP_CODE} /\ pc = LabelOf(reg.cont)
  BY AtLabel
<1>2. Unwound \in Registers /\ Rest \in Seq(StackEntries)
  BY <1>1, UnwoundType
<1>3. /\ Pops(pc) \in {<<"cont", "env", "exp">>, <<"cont", "env", "unev">>, <<"cont">>}
      /\ Len(Frame(reg.cont, calls[1])) = Len(Pops(pc)) /\ Link(reg.cont) = Len(Pops(pc)) /\ Len(Pops(pc)) \in Nat
  <2>1. CASE pc = "macro_finish"
    <3>1. reg.cont = JUMP_MACRO_FINISH
      BY <1>1, <2>1, LabelsOf
    <3>2. Frame(reg.cont, calls[1]) = <<"cont">> /\ Link(reg.cont) = 1 /\ Pops(pc) = <<"cont">>
      BY <2>1, <3>1, FrameOf, PopsOf, JumpValues
    <3>3. QED BY <3>2
  <2>2. CASE pc \in {"if_decide", "assignment_1", "definition_1"}
    <3>1. reg.cont \in {JUMP_EV_IF_DECIDE, JUMP_EV_ASSIGNMENT_1, JUMP_EV_DEFINITION_1}
      BY <1>1, <2>2, LabelsOf
    <3>2. Frame(reg.cont, calls[1]) = <<"data", "env", "cont">> /\ Link(reg.cont) = 3
      BY <3>1, FrameOf
    <3>3. Pops(pc) \in {<<"cont", "env", "exp">>, <<"cont", "env", "unev">>}
      BY <2>2, PopsOf
    <3>4. Len(Frame(reg.cont, calls[1])) = 3
      BY <3>2
    <3>5. Len(Pops(pc)) = 3
      BY <3>3
    <3>6. QED BY <3>2, <3>3, <3>4, <3>5
  <2>3. QED BY <2>1, <2>2
<1> DEFINE k == Len(Pops(pc))
<1>4. Stands(Pop(stack, k), calls, Place(Popped(stack, 1), Len(Pop(stack, k)))) /\ Founded(Pop(stack, k))
  <2> HIDE DEF k
  <2>1. k \in Nat /\ Len(Frame(reg.cont, calls[1])) = k /\ Link(reg.cont) = k
    BY <1>3 DEF k
  <2>2. QED BY <1>1, <2>1, PopFrame
<1>5. Unwound.cont = Popped(stack, 1)
  BY <1>1, <1>3, PoppedCont DEF Unwound
<1>6. QED BY <1>2, <1>4, <1>5 DEF Rest

\* At these the continuation is left on the stack.
LEMMA PopsToLink ==
    ASSUME Ready, FrameInv, pc \in {"did_operator", "accum_last_arg", "sequence_continue"}
    PROVE  Unwound \in Registers /\ Rest \in Seq(StackEntries) /\ Linked(Rest, calls) /\ Founded(Rest)
<1>1. /\ Stands(stack, calls, Place(reg.cont, Len(stack))) /\ Founded(stack)
      /\ stack \in Seq(StackEntries) /\ reg \in Registers
      /\ reg.cont \in Jumps \ {JUMP_CODE} /\ pc = LabelOf(reg.cont)
  BY AtLabel
<1>2. Unwound \in Registers
  BY <1>1, UnwoundType
<1> DEFINE kinds == Frame(reg.cont, calls[1])
           k == Len(Pops(pc))
<1>3. Len(kinds) = 1 + k /\ k \in Nat /\ Link(reg.cont) = 1 /\ kinds[1] = "cont"
  <2>1. CASE pc = "did_operator"
    <3>1. reg.cont = JUMP_EV_APPL_DID_OPERATOR
      BY <1>1, <2>1, LabelsOf
    <3>2. kinds = <<"cont", "env", "data">> /\ Link(reg.cont) = 1 /\ Pops(pc) = <<"unev", "env">>
      BY <2>1, <3>1, FrameOf, PopsOf, JumpValues
    <3>3. k = 2
      BY <3>2
    <3>4. QED BY <3>2, <3>3
  <2>2. CASE pc = "accum_last_arg"
    <3>1. reg.cont = JUMP_EV_APPL_ACCUM_LAST_ARG
      BY <1>1, <2>2, LabelsOf
    <3>2. kinds = <<"cont", "data", "data", "arg">> /\ Link(reg.cont) = 1 /\ Pops(pc) = <<"last", "argl", "proc">>
      BY <2>2, <3>1, FrameOf, PopsOf, JumpValues
    <3>3. k = 3
      BY <3>2
    <3>4. QED BY <3>2, <3>3
  <2>3. CASE pc = "sequence_continue"
    <3>1. reg.cont = JUMP_EV_SEQUENCE_CONTINUE
      BY <1>1, <2>3, LabelsOf
    <3>2. kinds = <<"cont", "data", "env">> /\ Link(reg.cont) = 1 /\ Pops(pc) = <<"env", "unev">>
      BY <2>3, <3>1, FrameOf, PopsOf, JumpValues
    <3>3. k = 2
      BY <3>2
    <3>4. QED BY <3>2, <3>3
  <2>4. QED BY <2>1, <2>2, <2>3
<1> HIDE DEF k
<1>4. Pop(stack, k) \in Seq(StackEntries) /\ Linked(Pop(stack, k), calls) /\ Founded(Pop(stack, k))
  BY <1>1, <1>3, PopToLink
<1>5. QED BY <1>2, <1>4 DEF Rest, k

LEMMA PopsToProcedure ==
    ASSUME Ready, FrameInv, pc = "accumulate_arg"
    PROVE  LinkedUnder(Rest, calls) /\ Founded(Rest)
<1>1. /\ Stands(stack, calls, Place(reg.cont, Len(stack))) /\ Founded(stack)
      /\ stack \in Seq(StackEntries) /\ reg.cont \in Jumps \ {JUMP_CODE} /\ pc = LabelOf(reg.cont)
  BY AtLabel
<1>2. reg.cont = JUMP_EV_APPL_ACCUMULATE_ARG
  BY <1>1, LabelsOf
<1> DEFINE kinds == Frame(reg.cont, calls[1])
<1>3. /\ kinds = <<"cont", "data", "data", "arg", "env", "data">> /\ Link(reg.cont) = 1
      /\ Pops(pc) = <<"unev", "env", "last", "argl">>
  BY <1>2, FrameOf, PopsOf, JumpValues
<1>4. Len(kinds) = 2 + 4 /\ kinds[1] = "cont" /\ kinds[2] = "data" /\ Len(Pops(pc)) = 4 /\ 4 \in Nat
  BY <1>3
<1>5. LinkedUnder(Pop(stack, 4), calls) /\ Founded(Pop(stack, 4))
  BY <1>1, <1>3, <1>4, PopToProcedure
<1>6. QED BY <1>4, <1>5 DEF Rest

LEMMA ExtendMoves ==
    ASSUME NEW body, NEW r \in Registers, NEW s, ExtendEnvironment(body, r, s)
    PROVE  pc' = "sequence" /\ stack' = s /\ reg'.cont = r.cont /\ calls' = calls
BY RegisterNames DEF ExtendEnvironment, To, host, Registers

LEMMA DidOperatorFrames ==
    ASSUME Ready, FrameInv, StackNeverFull', DidOperator
    PROVE  FrameInv'
<1> DEFINE r == [Unwound EXCEPT !.argl = NIL, !.last = NULL, !.proc = reg.val]
           found == IF IsStringType(reg.val) THEN lookup_variable_value(reg.val, r.env) ELSE Returns(reg.val)
           called == [r EXCEPT !.proc = Address(found.val)]
           entered == [called EXCEPT !.cont = JUMP_MACRO_FINISH, !.argl = r.unev, !.unev = CAR(called.proc)]
<1>1. PICK j \in Collections(found.cells, r, Rest) :
         IF Cell(called.proc).type = "macro"
         THEN ExtendEnvironment(CDR(called.proc), entered, Push(Rest, <<Cont(JUMP_MACRO_FINISH)>>))
         ELSE /\ Create(found.cells, j, r, Rest)
              /\ IF r.unev = NIL THEN To("apply", called, Rest)
                 ELSE To("operand_loop", called, Push(Rest, <<Data(called.proc)>>))
  BY Zenon DEF DidOperator
<1>2. pc = "did_operator"
  BY DEF DidOperator
<1>3. Unwound \in Registers /\ Rest \in Seq(StackEntries) /\ Linked(Rest, calls) /\ Founded(Rest)
  BY <1>2, PopsToLink
<1>4. 1 \in DOMAIN calls /\ Len(stack') < MaxStackDepth /\ \A p : CAR(p) \in Nat
  BY <1>2, AtLabel, ReadyTypes DEF StackNeverFull
<1>5. r \in Registers /\ called \in Registers
  <2>1. r \in Registers
    BY <1>3, ReadyTypes DEF Registers, NIL, NULL
  <2>2. IsResult(found)
    BY LookupResult, ReturnsType, ReadyTypes
  <2>3. Address(found.val) \in Nat
    BY <2>2, ReadyTypes, AddressType DEF IsResult
  <2> HIDE DEF r, found
  <2>4. QED BY <2>1, <2>3, Assign
<1>6. entered \in Registers /\ entered.cont = JUMP_MACRO_FINISH
  <2>1. r.unev \in Nat /\ CAR(called.proc) \in Nat /\ JUMP_MACRO_FINISH \in Nat
    BY <1>4, <1>5, RegisterTypes, JumpValues
  <2> HIDE DEF r, called
  <2>2. QED BY <1>5, <2>1, RegisterNames DEF Registers
<1>7. called.proc \in Nat
  BY <1>5, RegisterTypes
<1> HIDE DEF r, found, called, entered
<1>8. CASE Cell(called.proc).type = "macro"
  <2> DEFINE top == Len(Rest) - 1
             jump == JUMP_MACRO_FINISH
             s2 == Push(Rest, <<Cont(jump)>>)
  <2>1. pc' = "sequence" /\ stack' = s2 /\ calls' = calls
    BY <1>1, <1>6, <1>8, ExtendMoves
  <2>2. /\ top \in Nat /\ top + 1 = Len(Rest) /\ Rest[top + 1].kind = "cont"
        /\ Stands(Rest, calls, Place(Rest[top + 1].v, top))
    BY <1>3 DEF Linked
  <2> HIDE DEF top, jump
  <2>3. Frame(jump, calls[1]) = <<"cont">> /\ Link(jump) = 1 /\ jump \in Jumps \ {JUMP_CODE} /\ jump \in Nat
    BY FrameOf, JumpValues DEF jump
  <2>4. Len(Frame(jump, calls[1])) = 1 /\ \A i \in 1 .. 1 : Rest[top + i].kind = Frame(jump, calls[1])[i]
    BY <2>2, <2>3
  <2>5. Stands(Rest, calls, Place(jump, Len(Rest)))
    BY <1>4, <2>2, <2>3, <2>4, FrameOver
  <2>6. Linked(s2, calls) /\ Founded(s2)
    BY <1>3, <1>4, <2>1, <2>3, <2>5, PushCont
  <2>7. QED BY <2>1, <2>6, OnwardLinked
<1>9. CASE Cell(called.proc).type # "macro"
  <2>1. calls' = calls
    BY <1>1, <1>9 DEF Create, Created, host
  <2>2. CASE r.unev = NIL
    <3>1. pc' = "apply" /\ stack' = Rest
      BY <1>1, <1>9, <2>2 DEF To
    <3>2. QED BY <1>3, <2>1, <3>1, OnwardLinked
  <2>3. CASE r.unev # NIL
    <3> DEFINE e == Data(called.proc)
               es == <<e>>
               s2 == Push(Rest, es)
    <3>1. pc' = "operand_loop" /\ stack' = s2
      BY <1>1, <1>9, <2>3 DEF To
    <3>2. e \in StackEntries /\ e.kind = "data"
      BY <1>7, EntryTypes DEF Data
    <3> HIDE DEF e
    <3>3. es \in Seq(StackEntries) /\ Len(es) = 1 /\ es[1] = e
      BY <3>2
    <3> HIDE DEF es
    <3>4. /\ s2 \in Seq(StackEntries) /\ Len(s2) = Len(Rest) + 1 /\ SameBelow(Rest, s2, Len(Rest))
          /\ s2[Len(Rest) + 1] = e
      <4>1. Len(Push(Rest, es)) < MaxStackDepth
        BY <1>4, <3>1
      <4>2. /\ s2 \in Seq(StackEntries) /\ Len(s2) = Len(Rest) + Len(es) /\ SameBelow(Rest, s2, Len(Rest))
            /\ \A i \in 1 .. Len(es) : s2[Len(Rest) + i] = es[i]
        BY <1>3, <3>3, <4>1, PushWhole
      <4>3. QED BY <3>3, <4>2
    <3> HIDE DEF s2
    <3> DEFINE top == Len(Rest) - 1
    <3>5. /\ top \in Nat /\ top + 1 = Len(Rest) /\ Rest[top + 1].kind = "cont"
          /\ Stands(Rest, calls, Place(Rest[top + 1].v, top))
      BY <1>3 DEF Linked
    <3>6. Len(s2) - 1 = top + 1 /\ Len(s2) - 2 = top /\ Len(s2) >= 2 /\ s2[Len(s2)] = e
      BY <3>4, <3>5
    <3> HIDE DEF top
    <3>7. SameBelow(Rest, s2, top) /\ s2[top + 1] = Rest[top + 1] /\ top >= 9
      <4>1. SameBelow(Rest, s2, top + 1)
        BY <3>4, <3>5
      <4>2. QED BY <3>5, <4>1, StandsFramed DEF SameBelow
    <3>8. Stands(s2, calls, Place(s2[top + 1].v, top)) /\ Founded(s2)
      BY <1>3, <3>5, <3>7, StandsBelow, FoundedBelow
    <3>9. LinkedUnder(s2, calls)
      BY <3>2, <3>5, <3>6, <3>7, <3>8 DEF LinkedUnder
    <3>10. Expected(pc', reg', stack', calls')
      BY <2>1, <3>1, <3>9 DEF Expected
    <3>11. QED BY <3>1, <3>8, <3>10, FrameNext
  <2>4. QED BY <2>2, <2>3
<1>10. QED BY <1>8, <1>9

LEMMA AppendMoves ==
    ASSUME NEW label, NEW r, NEW s, NEW r2 \in Registers, NEW s2, AppendToLast(label, r, s, r2, s2)
    PROVE  pc' = label /\ stack' = s2 /\ reg'.cont = r2.cont /\ calls' = calls
BY RegisterNames DEF AppendToLast, To, Created, host, Registers

LEMMA StoreFrames ==
    ASSUME Ready, FrameInv, pc \in {"assignment_1", "definition_1"}, NEW e, Store(e)
    PROVE  FrameInv'
<1>1. /\ Unwound \in Registers /\ Rest \in Seq(StackEntries)
      /\ Stands(Rest, calls, Place(Unwound.cont, Len(Rest))) /\ Founded(Rest)
  BY PopsBack
<1>2. pc' = "continue" /\ reg' = [Unwound EXCEPT !.val = T] /\ stack' = Rest /\ calls' = calls
  BY DEF Store, To, host
<1>3. reg'.cont = Unwound.cont
  BY <1>1, <1>2, RegisterNames DEF Registers
<1>4. QED BY <1>1, <1>2, <1>3, Onward

LEMMA BranchFrames ==
    ASSUME Ready, FrameInv, IfDecide \/ MacroFinish
    PROVE  FrameInv'
<1>1. pc \in {"if_decide", "macro_finish"} /\ calls' = calls
  BY DEF IfDecide, MacroFinish, At, host
<1>2. /\ Unwound \in Registers /\ Rest \in Seq(StackEntries)
      /\ Stands(Rest, calls, Place(Unwound.cont, Len(Rest))) /\ Founded(Rest)
  BY <1>1, PopsBack
<1>3. PICK p : pc' = "dispatch" /\ reg' = [Unwound EXCEPT !.exp = p] /\ stack' = Rest
  BY DEF IfDecide, MacroFinish, To
<1>4. reg'.cont = Unwound.cont
  BY <1>2, <1>3, RegisterNames DEF Registers
<1>5. QED BY <1>1, <1>2, <1>3, <1>4, Onward

LEMMA ArgumentFrames ==
    ASSUME Ready, FrameInv, AccumulateArg \/ AccumLastArg
    PROVE  FrameInv'
<1>1. pc \in {"accumulate_arg", "accum_last_arg"} /\ Running
  BY DEF AccumulateArg, AccumLastArg, Running
<1>2. stack \in Seq(StackEntries) /\ reg \in Registers
  BY ReadyTypes
<1>3. Unwound \in Registers
  BY <1>2, UnwoundType
<1>4. CASE AccumulateArg
  <2> DEFINE r2 == [Unwound EXCEPT !.unev = CDR(@)]
  <2>1. r2 \in Registers
    <3>1. CDR(Unwound.unev) \in Nat
      BY ReadyTypes
    <3>2. QED BY <1>3, <3>1, Assign
  <2>2. pc = "accumulate_arg" /\ AppendToLast("operand_loop", Unwound, Rest, r2, Rest)
    BY <1>4 DEF AccumulateArg
  <2> HIDE DEF r2
  <2>3. pc' = "operand_loop" /\ stack' = Rest /\ calls' = calls
    BY <2>1, <2>2, AppendMoves
  <2>4. LinkedUnder(Rest, calls) /\ Founded(Rest)
    BY <2>2, PopsToProcedure
  <2>5. Expected(pc', reg', stack', calls')
    BY <2>3, <2>4 DEF Expected
  <2>6. QED BY <2>3, <2>4, <2>5, FrameNext
<1>5. CASE AccumLastArg
  <2>1. pc = "accum_last_arg" /\ pc' = "apply" /\ stack' = Rest /\ calls' = calls
    BY <1>3, <1>5, AppendMoves DEF AccumLastArg
  <2>2. Linked(Rest, calls) /\ Founded(Rest)
    BY <2>1, PopsToLink
  <2>3. QED BY <2>1, <2>2, OnwardLinked
<1>6. QED BY <1>4, <1>5

LEMMA ImportAuxFrames ==
    ASSUME Ready, FrameInv, StackNeverFull', ImportAux
    PROVE  FrameInv'
<1>1. pc = "import_aux" /\ Running
  BY DEF ImportAux, Running
<1>2. /\ Stands(stack, calls, Place(reg.cont, Len(stack))) /\ Founded(stack)
      /\ stack \in Seq(StackEntries) /\ reg \in Registers /\ calls # <<>>
      /\ reg.cont \in Jumps /\ "import_aux" = LabelOf(reg.cont)
  BY <1>1, AtLabel, FrameFacts
<1>3. reg.cont = JUMP_EV_IMPORT_AUX
  BY <1>2, LabelsOf
<1>4. CASE run_eval_on_file(TextOf(reg.val), "import_aux", reg, stack)
  BY <1>2, <1>3, <1>4, EvalOnFileFrames
<1>5. CASE \E o : Deliver(o, "continue", [reg EXCEPT !.cont = Popped(stack, 1)], Pop(stack, 1))
  <2> DEFINE r2 == [reg EXCEPT !.cont = Popped(stack, 1)]
             s2 == Pop(stack, 1)
  <2>1. Stands(s2, calls, Place(Popped(stack, 1), Len(s2))) /\ Founded(s2)
    BY <1>2, <1>3, ImportFrame
  <2>2. r2 \in Registers
    <3>1. Popped(stack, 1) \in Nat
      BY <1>2, PoppedType
    <3>2. QED BY <1>2, <3>1, Assign
  <2>3. r2.cont = Popped(stack, 1)
    BY <1>2, RegisterNames DEF Registers
  <2>4. PICK o : Deliver(o, "continue", r2, s2)
    BY <1>5
  <2> HIDE DEF r2, s2
  <2>5. QED BY <2>1, <2>2, <2>3, <2>4, DeliverFrames
<1>6. QED BY <1>4, <1>5, Zenon DEF ImportAux

LEMMA ContinuationFrames ==
    ASSUME Ready, FrameInv, StackNeverFull', Continuation
    PROVE  FrameInv'
<1>1. CASE Assignment1 \/ Definition1
  BY <1>1, StoreFrames DEF Assignment1, Definition1
<1>2. CASE SequenceContinue
  <2>1. pc = "sequence_continue" /\ pc' = "sequence" /\ stack' = Rest /\ calls' = calls
    BY <1>2 DEF SequenceContinue, At, To, host
  <2>2. Linked(Rest, calls) /\ Founded(Rest)
    BY <2>1, PopsToLink
  <2>3. QED BY <2>1, <2>2, OnwardLinked
<1>3. QED BY <1>1, <1>2, BranchFrames, DidOperatorFrames, OperandFrames, ArgumentFrames, ImportAuxFrames
          DEF Continuation

-----------------------------------------------------------------------------
(* Errors.                                                                 *)

\* An evaluation is not left because of an error.
NoAbort == pc = "exit" => Cell(reg.val).type # "error"

\* After an allocation the cells are those there were, and those of the batch.
LEMMA HeapAfterCells ==
    ASSUME MemoryOK, NEW cells, IsBatch(cells), NEW j \in 0 .. Len(cells), NEW r, NEW s,
           NEW a \in DOMAIN HeapAfter(cells, j, r, s)
    PROVE  /\ a >= fresh => /\ a - fresh + 1 \in 1 .. Len(cells)
                            /\ HeapAfter(cells, j, r, s)[a].type = cells[a - fresh + 1].type
           /\ ~ (a >= fresh) => a \in DOMAIN heap /\ HeapAfter(cells, j, r, s)[a] = heap[a]
<1> DEFINE all == Relocated(cells)
           made == IF j = 0 THEN all ELSE Keep(all, fresh + j - 1 .. fresh + Len(cells) - 1)
           kept == IF j = 0 THEN heap ELSE Keep(heap, Marked(r, s) \cup code)
           after == HeapAfter(cells, j, r, s)
<1>1. after = Over(made, kept)
  BY DEF HeapAfter
<1>2. /\ DOMAIN all = fresh .. fresh + Len(cells) - 1 /\ \A x \in DOMAIN all : all[x].type = cells[x - fresh + 1].type
      /\ fresh \in Nat /\ Len(cells) \in Nat
  BY RelocatedType DEF MemoryOK, IsBatch
<1> HIDE DEF all
<1>3. DOMAIN made \subseteq DOMAIN all /\ \A x \in DOMAIN made : made[x] = all[x]
  BY KeepType
<1>4. DOMAIN kept \subseteq DOMAIN heap /\ \A x \in DOMAIN kept : kept[x] = heap[x]
  BY KeepType
<1>5. \A x \in DOMAIN heap : x \in Int /\ ~ (x >= fresh)
  BY DEF MemoryOK, FirstAddress, Global
<1> HIDE DEF made, kept, after
<1>6. a \in DOMAIN made \/ a \in DOMAIN kept
  BY <1>1 DEF Over, after
<1>7. CASE a \in DOMAIN made
  <2>1. after[a] = made[a]
    BY <1>1, <1>7 DEF Over
  <2>2. a \in fresh .. fresh + Len(cells) - 1 /\ after[a].type = cells[a - fresh + 1].type
    BY <1>2, <1>3, <1>7, <2>1
  <2>3. QED BY <1>2, <2>2 DEF after
<1>8. CASE a \notin DOMAIN made /\ a \in DOMAIN kept
  <2>1. after[a] = kept[a]
    BY <1>1, <1>8 DEF Over
  <2>2. QED BY <1>4, <1>5, <1>8, <2>1 DEF after
<1>9. QED BY <1>6, <1>7, <1>8

\* What is created last is still there.
LEMMA LastCreated ==
    ASSUME MemoryOK, NEW c, IsCell(c), NEW j \in 0 .. Len(<<c>>), NEW r, NEW s
    PROVE  fresh \in DOMAIN HeapAfter(<<c>>, j, r, s) /\ HeapAfter(<<c>>, j, r, s)[fresh].type = c.type
<1> DEFINE cells == <<c>>
<1>1. IsBatch(cells) /\ Len(cells) = 1 /\ cells[1] = c /\ j \in 0 .. Len(cells)
  BY OneCell
<1> HIDE DEF cells
<1>2. fresh \in Nat /\ fresh + Len(cells) - 1 = fresh
  BY <1>1 DEF MemoryOK
<1>3. fresh \in DOMAIN HeapAfter(cells, j, r, s)
  <2>1. CASE j = 0
    <3>1. fresh \in DOMAIN Relocated(cells)
      BY <1>1, <1>2, RelocatedType
    <3>2. QED BY <2>1, <3>1 DEF HeapAfter, Over
  <2>2. CASE j # 0
    BY <1>1, <1>2, <2>2, HeapAfterType
  <2>3. QED BY <2>1, <2>2
<1>4. HeapAfter(cells, j, r, s)[fresh].type = cells[fresh - fresh + 1].type
  BY <1>1, <1>2, <1>3, HeapAfterCells
<1>5. QED BY <1>1, <1>2, <1>3, <1>4 DEF cells

LEMMA DeliversError ==
    ASSUME MemoryOK, NEW c, IsCell(c), NEW label, NEW r \in Registers, NEW s,
           Deliver(Creates(c), label, r, s)
    PROVE  Cell(reg.val)'.type = c.type
<1> DEFINE cells == <<c>>
<1>1. PICK j \in Collections(cells, r, s) :
         heap' = HeapAfter(cells, j, r, s) /\ reg' = [r EXCEPT !.val = Address(-1)]
  BY DEF Deliver, Create, Creates, To
<1>2. IsBatch(cells)
  BY OneCell
<1>3. j \in 0 .. Len(cells)
  BY <1>1, <1>2, CollectionsType
<1>4. reg'.val = fresh /\ fresh \in Nat /\ fresh # NIL /\ fresh # T
  <2>1. fresh \in Nat /\ fresh >= 103
    BY DEF MemoryOK, FirstAddress
  <2>2. Address(-1) = fresh
    BY <2>1 DEF Address
  <2>3. QED BY <1>1, <2>1, <2>2, RegisterNames DEF Registers, NIL, T
<1>5. fresh \in DOMAIN heap' /\ heap'[fresh].type = c.type
  BY <1>1, <1>3, LastCreated
<1>6. QED BY <1>4, <1>5 DEF Cell, CellIn

LEMMA ApplyFrames ==
    ASSUME Ready, FrameInv, StackNeverFull', NoAbort', Apply
    PROVE  FrameInv'
<1>1. pc = "apply" /\ MemoryOK /\ reg \in Registers /\ stack \in Seq(StackEntries) /\ Popped(stack, 1) \in Nat
  BY ReadyTypes DEF Apply, PrimitiveApply, CompoundApply, UnknownProcedure
<1>2. Linked(stack, calls) /\ Founded(stack)
  BY <1>1, LinkStands
<1> DEFINE r2 == [reg EXCEPT !.cont = Popped(stack, 1)]
           s2 == Pop(stack, 1)
<1>3. CASE PrimitiveApply
  <2>1. Stands(s2, calls, Place(Popped(stack, 1), Len(s2))) /\ Founded(s2)
    BY <1>1, <1>2, PopCont
  <2>2. r2 \in Registers /\ r2.cont = Popped(stack, 1)
    BY <1>1, Assign, RegisterNames DEF Registers
  <2>3. PICK o : Deliver(o, "continue", r2, s2)
    BY <1>3 DEF PrimitiveApply
  <2> HIDE DEF r2, s2
  <2>4. QED BY <2>1, <2>2, <2>3, DeliverFrames
<1>4. CASE CompoundApply
  <2> DEFINE r == [reg EXCEPT !.unev = CAR(reg.proc), !.env = Cell(reg.proc).env]
  <2>1. CAR(reg.proc) \in Nat /\ Cell(reg.proc).env \in Nat
    BY <1>1, PartsType
  <2>2. r \in Registers
    BY <1>1, <2>1 DEF Registers
  <2>3. ExtendEnvironment(CDR(reg.proc), r, stack)
    BY <1>4 DEF CompoundApply
  <2> HIDE DEF r
  <2>4. pc' = "sequence" /\ stack' = stack /\ calls' = calls
    BY <2>2, <2>3, ExtendMoves
  <2>5. QED BY <1>2, <2>4, OnwardLinked
<1>5. CASE UnknownProcedure
  <2> DEFINE c == Error("unknown procedure")
  <2>1. r2 \in Registers
    BY <1>1, Assign
  <2>2. IsCell(c) /\ c.type = "error"
    BY CellTypes DEF Error, Text
  <2>3. Deliver(Creates(c), "exit", r2, s2)
    BY <1>5, Zenon DEF UnknownProcedure
  <2> HIDE DEF c, r2, s2
  <2>4. Cell(reg.val)'.type = "error" /\ pc' = "exit"
    BY <1>1, <2>1, <2>2, <2>3, DeliversError, DeliverMoves
  <2>5. QED BY <2>4 DEF NoAbort
<1>6. QED BY <1>3, <1>4, <1>5 DEF Apply

LEMMA ContinueFrames ==
    ASSUME Ready, FrameInv, NoAbort', Continue
    PROVE  FrameInv'
<1>1. pc = "continue" /\ Running
  BY DEF Continue, Running
<1>2. /\ Stands(stack, calls, Place(reg.cont, Len(stack))) /\ Founded(stack) /\ reg \in Registers
  BY <1>1, ContinuationStands, ReadyTypes
<1>3. /\ pc' = (IF Cell(Answer).type = "error" THEN "exit" ELSE LabelOf(reg.cont))
      /\ reg' = [reg EXCEPT !.val = Answer] /\ stack' = stack /\ calls' = calls /\ heap' = heap
  BY DEF Continue, To, host
<1>4. reg'.val = Answer /\ reg'.cont = reg.cont
  BY <1>2, <1>3, RegisterNames DEF Registers
<1>5. Cell(Answer).type # "error"
  <2> DEFINE p == Answer
  <2>1. Cell(reg.val)' = CellIn(heap, p)
    BY <1>3, <1>4 DEF Cell
  <2> HIDE DEF p
  <2>2. SUFFICES ASSUME CellIn(heap, p).type = "error" PROVE FALSE
    BY DEF Cell, p
  <2>3. pc' = "exit"
    BY <1>3, <2>2 DEF Cell, p
  <2>4. QED BY <2>1, <2>2, <2>3 DEF NoAbort
<1>6. reg.cont \in Jumps
  <2>1. Fits(stack, calls, Place(reg.cont, Len(stack)))
    BY <1>2, StandsStep
  <2>2. QED BY <2>1 DEF Fits, Place
<1>7. pc' = LabelOf(reg.cont)
  BY <1>3, <1>5
<1>8. /\ pc' \notin {"host", "undefined", "begin", "dispatch", "continue", "sequence", "apply", "restoring",
                     "redirecting", "operand_loop"}
      /\ pc' = "exit" <=> reg.cont = JUMP_CODE
  BY <1>6, <1>7, LabelsOf
<1>9. Expected(pc', reg', stack', calls')
  BY <1>2, <1>3, <1>4, <1>7, <1>8 DEF Expected
<1>10. QED BY <1>2, <1>3, <1>8, <1>9, FrameNext

-----------------------------------------------------------------------------
(* Leaving an evaluation.                                                  *)

LEMMA SavedNames ==
    /\ DOMAIN Saved = 1 .. 9 /\ Len(Saved) = 9 /\ Saved[2] = "cont" /\ \A i \in 1 .. 9 : Saved[i] = "cont" => i = 2
    /\ \A i \in 1 .. 9 : Saved[i] # "val"
    /\ \A n \in DOMAIN InitialRegisters \ {"val"} : \E i \in 1 .. 9 : Saved[i] = n
<1>1. Len(Saved) = 9 /\ DOMAIN Saved = 1 .. 9
  BY DEF Saved
<1>2. /\ Saved[1] = "last" /\ Saved[2] = "cont" /\ Saved[3] = "env" /\ Saved[4] = "top" /\ Saved[5] = "code"
      /\ Saved[6] = "proc" /\ Saved[7] = "unev" /\ Saved[8] = "argl" /\ Saved[9] = "exp"
  BY DEF Saved
<1>3. DOMAIN InitialRegisters = {"val", "exp", "argl", "unev", "proc", "env", "cont", "last", "code", "top"}
  BY DEF InitialRegisters
<1>4. \A i \in 1 .. 9 : (Saved[i] = "cont" => i = 2) /\ Saved[i] # "val"
  <2>1. ASSUME NEW i \in 1 .. 9 PROVE (Saved[i] = "cont" => i = 2) /\ Saved[i] # "val"
    <3>1. i = 1 \/ i = 2 \/ i = 3 \/ i = 4 \/ i = 5 \/ i = 6 \/ i = 7 \/ i = 8 \/ i = 9
      OBVIOUS
    <3>2. QED BY <1>2, <3>1
  <2>2. QED BY <2>1
<1>5. QED BY <1>1, <1>2, <1>3, <1>4

LEMMA Restored ==
    ASSUME NEW r \in Registers, NEW s
    PROVE  /\ restore_regs(r, s).cont = Popped(s, 2) /\ restore_regs(r, s).val = r.val
           /\ DOMAIN restore_regs(r, s) = DOMAIN InitialRegisters
           /\ \A n \in DOMAIN InitialRegisters \ {"val"} : \E i \in 1 .. 9 : restore_regs(r, s)[n] = Popped(s, i)
<1> DEFINE At1(n) == CHOOSE i \in DOMAIN Saved : Saved[i] = n
<1>1. DOMAIN r = DOMAIN InitialRegisters /\ "cont" \in DOMAIN r /\ "val" \in DOMAIN r
  BY RegisterNames DEF Registers
<1>2. restore_regs(r, s) = [n \in DOMAIN r |-> IF \E i \in DOMAIN Saved : Saved[i] = n THEN Popped(s, At1(n)) ELSE r[n]]
  BY DEF restore_regs, PopInto
<1>3. At1("cont") = 2
  BY SavedNames
<1>4. \A n \in DOMAIN r \ {"val"} : At1(n) \in 1 .. 9 /\ \E i \in DOMAIN Saved : Saved[i] = n
  BY <1>1, SavedNames
<1> HIDE DEF At1
<1>5. \A n \in DOMAIN r \ {"val"} : restore_regs(r, s)[n] = Popped(s, At1(n))
  BY <1>2, <1>4
<1>6. restore_regs(r, s).val = r.val
  BY <1>1, <1>2, SavedNames
<1>7. QED BY <1>1, <1>2, <1>3, <1>4, <1>5, <1>6

LEMMA ExitFrames ==
    ASSUME Ready, FrameInv, Exit
    PROVE  FrameInv'
<1> DEFINE n == Len(stack)
           r == restore_regs(reg, stack)
           s == Pop(stack, 9)
           r2 == restore_regs(r, s)
           s2 == Pop(s, 9)
           aux == [r2 EXCEPT !.cont = Popped(s2, 1)]
<1>1. pc = "exit" /\ Running
  BY DEF Exit, Running
<1>2. /\ reg \in Registers /\ stack \in Seq(StackEntries) /\ n \in Nat /\ Founded(stack)
      /\ calls \in Seq(Callers) /\ calls # <<>> /\ Stands(stack, calls, Place(JUMP_CODE, n))
  BY <1>1, FrameFacts DEF Expected
<1>3. Head(calls) = calls[1]
  BY <1>2
<1>4. calls' = Tail(calls)
  BY DEF Exit
<1>5. IF calls[1] = "host" THEN pc' = "host" /\ reg' = r /\ stack' = s
      ELSE /\ pc' = "continue"
           /\ IF calls[1] = "import_aux" THEN reg' = aux /\ stack' = Pop(s2, 1) ELSE reg' = r2 /\ stack' = s2
  <2>1. Len(Saved) = 9
    BY SavedNames
  <2>2. To(Return(r, s).label, Return(r, s).r, Return(r, s).s)
    BY <2>1 DEF Exit
  <2>3. Return(r, s) = CASE calls[1] = "host" -> [label |-> "host", r |-> r, s |-> s]
                         [] calls[1] = "import_aux" -> [label |-> "continue", r |-> aux, s |-> Pop(s2, 1)]
                         [] OTHER -> [label |-> "continue", r |-> r2, s |-> s2]
    BY <1>3, <2>1 DEF Return
  <2> HIDE DEF r, s, r2, s2, aux
  <2>4. CASE calls[1] = "host"
    BY <2>2, <2>3, <2>4 DEF To
  <2>5. CASE calls[1] = "import_aux"
    BY <2>2, <2>3, <2>5 DEF To
  <2>6. CASE calls[1] # "host" /\ calls[1] # "import_aux"
    BY <2>2, <2>3, <2>6 DEF To
  <2>7. QED BY <2>4, <2>5, <2>6
<1>6. n >= 9 /\ 9 \in 0 .. Len(stack)
  BY <1>2, StandsFramed
<1>7. /\ s \in Seq(StackEntries) /\ Len(s) = n - 9 /\ SameBelow(stack, s, n - 9)
      /\ \A i \in 1 .. n : Popped(stack, i) = stack[n - i + 1].v
  BY <1>2, <1>6, PopWhole
<1>8. CASE calls[1] = "host"
  <2>1. n = 9
    BY <1>2, <1>8, CodeUnder
  <2>2. s = <<>>
    <3> HIDE DEF s
    <3>1. Len(s) = 0
      BY <1>7, <2>1
    <3>2. QED BY <1>7, <3>1
  <2>3. \A i \in 1 .. 9 : Popped(stack, i) = NULL
    <3>1. ASSUME NEW i \in 1 .. 9 PROVE Popped(stack, i) = NULL
      <4>1. 9 - i + 1 \in 1 .. 9 /\ Popped(stack, i) = stack[9 - i + 1].v
        BY <1>7, <2>1
      <4>2. QED BY <1>2, <4>1 DEF Founded
    <3>2. QED BY <3>1
  <2>4. /\ DOMAIN r = DOMAIN InitialRegisters
        /\ \A x \in DOMAIN InitialRegisters \ {"val"} : \E i \in 1 .. 9 : r[x] = Popped(stack, i)
    BY <1>2, Restored
  <2> HIDE DEF r
  <2>5. \A x \in DOMAIN InitialRegisters \ {"val"} : r[x] = InitialRegisters[x]
    <3>1. \A x \in DOMAIN InitialRegisters : InitialRegisters[x] = NULL
      BY DEF InitialRegisters, NULL, JUMP_CODE
    <3>2. QED BY <2>3, <2>4, <3>1
  <2>6. r = [InitialRegisters EXCEPT !.val = r.val]
    <3>1. r = [x \in DOMAIN InitialRegisters |-> r[x]]
      <4>1. \E f : r = [x \in DOMAIN reg |-> f[x]]
        <5>1. r = [x \in DOMAIN reg |-> IF \E i \in DOMAIN Saved : Saved[i] = x
                                        THEN Popped(stack, CHOOSE i \in DOMAIN Saved : Saved[i] = x) ELSE reg[x]]
          BY DEF r, restore_regs, PopInto
        <5>2. r = [x \in DOMAIN reg |-> r[x]]
          BY <5>1
        <5>3. QED BY <5>2
      <4>2. DOMAIN reg = DOMAIN InitialRegisters
        BY <1>2 DEF Registers
      <4>3. QED BY <4>1, <4>2
    <3> DEFINE init == InitialRegisters
    <3>2. \A x \in DOMAIN init \ {"val"} : r[x] = init[x]
      BY <2>5
    <3>3. r = [x \in DOMAIN init |-> r[x]]
      BY <3>1
    <3> HIDE DEF init
    <3>4. r = [init EXCEPT !.val = r.val]
      BY <3>2, <3>3
    <3>5. QED BY <3>4 DEF init
  <2>7. StackUnwound'
    <3>1. stack' = <<>> /\ reg' = r
      BY <1>5, <1>8, <2>2
    <3> HIDE DEF s
    <3>2. QED BY <2>6, <3>1 DEF StackUnwound, InitialRegisters
  <2>8. QED BY <1>5, <1>8, <2>7 DEF FrameInv, Running
<1>9. CASE calls[1] # "host"
  <2> DEFINE jump == stack[n - 10].v
             m == n - 18
  <2>1. n >= 27 /\ Stands(stack, calls, Outer(jump, m)) /\ (calls[1] = "import_aux" => jump = JUMP_EV_IMPORT_AUX)
    BY <1>2, <1>9, CodeUnder
  <2>2. m \in Nat /\ m >= 9
    BY <1>2, <2>1
  <2>3. Stands(stack, Tail(calls), Place(jump, m))
    BY <1>2, <2>1, <2>2, StandsReturned
  <2> HIDE DEF s
  <2>4. s2 \in Seq(StackEntries) /\ Len(s2) = m /\ SameBelow(s, s2, m) /\ Popped(s, 2) = jump
    <3>1. 9 \in 0 .. Len(s) /\ Len(s) - 9 = m /\ 2 \in 1 .. Len(s) /\ Len(s) - 2 + 1 = n - 10 /\ n - 10 \in 1 .. n - 9
      BY <1>2, <1>7, <2>1
    <3>2. /\ s2 \in Seq(StackEntries) /\ Len(s2) = Len(s) - 9 /\ SameBelow(s, s2, Len(s) - 9)
          /\ \A i \in 1 .. Len(s) : Popped(s, i) = s[Len(s) - i + 1].v
      BY <1>7, <3>1, PopWhole
    <3>3. s[n - 10] = stack[n - 10]
      BY <1>7, <3>1 DEF SameBelow
    <3>4. QED BY <3>1, <3>2, <3>3
  <2>5. SameBelow(stack, s2, m)
    <3>1. \A i \in 1 .. m : i \in 1 .. n - 9
      BY <1>2, <2>2
    <3>2. QED BY <1>7, <2>4, <3>1 DEF SameBelow
  <2> HIDE DEF s2, jump, m
  <2>6. Stands(s2, Tail(calls), Place(jump, Len(s2))) /\ Founded(s2)
    BY <1>2, <2>2, <2>3, <2>4, <2>5, StandsBelow, FoundedBelow
  <2>7. r \in Registers /\ r2 \in Registers /\ r2.cont = jump
    <3>1. r \in Registers
      BY <1>2, RestoreType
    <3> HIDE DEF r
    <3>2. r2 \in Registers /\ r2.cont = Popped(s, 2)
      BY <1>7, <3>1, RestoreType, Restored
    <3>3. QED BY <2>4, <3>1, <3>2
  <2> HIDE DEF r, r2
  <2>8. Stands(stack', calls', Place(reg'.cont, Len(stack'))) /\ Founded(stack')
    <3>1. CASE calls[1] = "import_aux"
      <4>1. Stands(Pop(s2, 1), Tail(calls), Place(Popped(s2, 1), Len(Pop(s2, 1)))) /\ Founded(Pop(s2, 1))
        BY <2>1, <2>4, <2>6, <3>1, ImportFrame
      <4>2. aux.cont = Popped(s2, 1)
        BY <2>7, RegisterNames DEF Registers
      <4> HIDE DEF aux
      <4>3. QED BY <1>4, <1>5, <1>9, <3>1, <4>1, <4>2
    <3>2. CASE calls[1] # "import_aux"
      BY <1>4, <1>5, <1>9, <2>6, <2>7, <3>2
    <3>3. QED BY <3>1, <3>2
  <2>9. pc' = "continue"
    BY <1>5, <1>9
  <2>10. Expected(pc', reg', stack', calls')
    BY <2>8, <2>9 DEF Expected
  <2>11. QED BY <2>8, <2>9, <2>10, FrameNext
<1>10. QED BY <1>8, <1>9

-----------------------------------------------------------------------------
(* The plugin.                                                             *)

LEMMA RedirectedStack ==
    ASSUME PluginOK, NEW s \in Seq(StackEntries), NEW s2, NEW c, NEW jump, Stands(s, c, Place(jump, Len(s))), Founded(s),
           Len(s2) = Len(s),
           \A i \in 1 .. Len(s) : s2[i] = IF s[i].kind = "env" THEN Env(Redirected(s[i].v)) ELSE s[i]
    PROVE  Stands(s2, c, Place(jump, Len(s2))) /\ Founded(s2)
<1>1. SameFrames(s, s2, Len(s))
  <2>1. ASSUME NEW i \in 1 .. Len(s) PROVE s2[i].kind = s[i].kind /\ (s[i].kind = "cont" => s2[i].v = s[i].v)
    <3>1. Env(Redirected(s[i].v)).kind = "env"
      BY DEF Env
    <3>2. QED BY <3>1
  <2>2. QED BY <2>1 DEF SameFrames
<1>2. Len(s) \in Nat /\ Len(s) >= 9
  BY StandsFramed
<1>3. Redirected(NULL) = NULL
  BY DEF Redirected, PluginOK
<1>4. ASSUME NEW i \in 1 .. 9 PROVE s2[i].v = NULL
  <2>1. i \in 1 .. Len(s) /\ s[i].v = NULL
    <3>1. i \in 1 .. Len(s)
      BY <1>2
    <3>2. QED BY <3>1 DEF Founded
  <2>2. Env(Redirected(s[i].v)).v = NULL
    BY <1>3, <2>1 DEF Env
  <2>3. QED BY <2>1, <2>2
<1>5. QED BY <1>1, <1>2, <1>4, StandsSame DEF Founded

LEMMA PluginFrames ==
    ASSUME Ready, PluginOK, FrameInv, EnvRestore
    PROVE  FrameInv'
<1>1. pc \in {"apply", "restoring", "redirecting"}
  BY DEF EnvRestore, env_restore_plugin_save, env_restore_plugin_restore, env_restore, data_restore, data_restore_cell,
         env_restore_bind, eval_set_new_pointers, rec_set_new_pointers, env_restore_plugin_return, Applies, Restoring
<1>2. Linked(stack, calls) /\ Founded(stack)
  BY <1>1, LinkStands
<1>3. reg \in Registers /\ stack \in Seq(StackEntries)
  BY ReadyTypes
<1> DEFINE s == Pop(stack, 1)
<1>4. Stands(s, calls, Place(Popped(stack, 1), Len(s))) /\ Founded(s)
  BY <1>2, <1>3, PopCont
<1>5. CASE pc' = "continue" /\ calls' = calls /\ reg'.cont = Popped(stack, 1) /\ stack' = s
  BY <1>4, <1>5, Onward
<1>6. CASE pc' \in {"restoring", "redirecting"} /\ calls' = calls /\ stack' = stack
  BY <1>2, <1>6, OnwardLinked
<1>7. CASE env_restore_plugin_save
  <2>1. pc' = "continue" /\ calls' = calls /\ reg' = [reg EXCEPT !.val = T, !.cont = Popped(stack, 1)] /\ stack' = s
    BY <1>7 DEF env_restore_plugin_save, To, host
  <2>2. reg'.cont = Popped(stack, 1)
    BY <1>3, <2>1, RegisterNames DEF Registers
  <2>3. QED BY <1>5, <2>1, <2>2
<1>8. CASE env_restore_plugin_restore
  <2>1. /\ calls' = calls
        /\ \/ pc' = "continue" /\ reg' = [reg EXCEPT !.val = NIL, !.cont = Popped(stack, 1)] /\ stack' = s
           \/ pc' = "restoring" /\ stack' = stack
    BY <1>8 DEF env_restore_plugin_restore, To, host
  <2>2. CASE pc' = "continue" /\ reg' = [reg EXCEPT !.val = NIL, !.cont = Popped(stack, 1)] /\ stack' = s
    <3>1. reg'.cont = Popped(stack, 1)
      BY <1>3, <2>2, RegisterNames DEF Registers
    <3>2. QED BY <1>5, <2>1, <2>2, <3>1
  <2>3. QED BY <1>6, <2>1, <2>2
<1>9. CASE env_restore \/ data_restore \/ data_restore_cell \/ env_restore_bind \/ rec_set_new_pointers
  <2>1. CASE env_restore
    BY <1>6, <2>1 DEF env_restore, Restoring, host
  <2>2. CASE data_restore
    BY <1>6, <2>2 DEF data_restore, Restoring, host
  <2>3. CASE data_restore_cell
    BY <1>6, <2>3 DEF data_restore_cell, Restoring, Create, Created, host
  <2>4. CASE env_restore_bind
    BY <1>6, <2>4 DEF env_restore_bind, Restoring, host
  <2>5. CASE rec_set_new_pointers
    BY <1>6, <2>5 DEF rec_set_new_pointers, host
  <2>6. QED BY <1>9, <2>1, <2>2, <2>3, <2>4, <2>5
<1>10. CASE eval_set_new_pointers
  BY <1>6, <1>10 DEF eval_set_new_pointers, To, host
<1>11. CASE env_restore_plugin_return
  <2> DEFINE s2 == [i \in DOMAIN s |-> IF stack[i].kind = "env" THEN Env(Redirected(stack[i].v)) ELSE stack[i]]
             r == [reg EXCEPT !.val = T, !.env = Redirected(@), !.cont = Popped(stack, 1)]
  <2>1. pc' = "continue" /\ calls' = calls /\ reg' = r /\ stack' = s2
    BY <1>11 DEF env_restore_plugin_return, To, host
  <2>2. reg'.cont = Popped(stack, 1)
    BY <1>3, <2>1, RegisterNames DEF Registers
  <2>3. /\ s \in Seq(StackEntries) /\ Len(s) = Len(stack) - 1 /\ SameBelow(stack, s, Len(stack) - 1)
    <3>1. 1 \in 0 .. Len(stack)
      BY <1>2, <1>3 DEF Linked
    <3>2. QED BY <1>3, <3>1, PopWhole
  <2> HIDE DEF s
  <2>4. DOMAIN s = 1 .. Len(s) /\ Len(s) \in Nat
    BY <2>3
  <2>5. \A i \in 1 .. Len(s) : s2[i] = IF s[i].kind = "env" THEN Env(Redirected(s[i].v)) ELSE s[i]
    BY <2>3, <2>4 DEF SameBelow
  <2>6. Len(s2) = Len(s)
    BY <2>4
  <2> HIDE DEF s2
  <2>7. Stands(s2, calls, Place(Popped(stack, 1), Len(s2))) /\ Founded(s2)
    BY <1>4, <2>3, <2>5, <2>6, RedirectedStack
  <2>8. QED BY <2>1, <2>2, <2>7, Onward
<1>12. QED BY <1>7, <1>8, <1>9, <1>10, <1>11, Zenon DEF EnvRestore

-----------------------------------------------------------------------------
(* The invariant holds, and what it is for.                                *)

LEMMA FrameInit ==
    ASSUME Init
    PROVE  FrameInv
BY DEF Init, FrameInv, Running, StackUnwound, InitialRegisters

LEMMA FrameStep ==
    ASSUME Inv, FrameInv, StackNeverFull', NoAbort', [Next]_vars
    PROVE  FrameInv'
<1>1. Ready /\ PluginOK
  BY TypeParts DEF Inv, Ready, PluginOK
<1>2. CASE Run
  <2>1. CASE EnvRestore
    BY <1>1, <2>1, PluginFrames
  <2>2. CASE Dispatch \/ EvalBegin \/ Sequence \/ Continuation \/ Apply \/ Continue \/ Exit
    BY <1>1, <2>2, DispatchFrames, SequenceFrames, ContinuationFrames, ApplyFrames, ContinueFrames, ExitFrames
  <2>3. QED BY <1>2, <2>1, <2>2 DEF Run
<1>3. CASE Eval
  BY <1>1, <1>3, EvalFrames
<1>4. CASE Undefined
  BY <1>4 DEF Undefined, FrameInv, Running
<1>5. CASE UNCHANGED vars
  BY <1>5 DEF vars, host, FrameInv, Running, StackUnwound
<1>6. QED BY <1>2, <1>3, <1>4, <1>5 DEF Next

LEMMA FramesMatched ==
    ASSUME Inv, FrameInv
    PROVE  FramesMatch
<1> DEFINE n == Len(stack)
<1>1. Ready /\ stack \in Seq(StackEntries) /\ n \in Nat
  BY TypeParts DEF Inv, Ready, PluginOK, CoreOK
<1>2. CASE pc \in {"host", "undefined"}
  BY <1>2 DEF FramesMatch
<1>3. CASE pc \notin {"host", "undefined"}
  <2>1. Expected(pc, reg, stack, calls)
    BY <1>3 DEF FrameInv, Running
  <2>2. CASE pc \in {"sequence", "apply", "restoring", "redirecting"}
    <3>1. n >= 1 /\ stack[n].kind = "cont" /\ Stands(stack, calls, Place(stack[n].v, n - 1))
      BY <2>1, <2>2 DEF Expected, Linked
    <3>2. n - 1 \in Nat
      BY <1>1, <3>1
    <3>3. Framed(stack, calls, stack[n].v, n - 1)
      BY <3>1, <3>2, StandsFramed
    <3>4. QED BY <2>2, <3>1, <3>3 DEF FramesMatch
  <2>3. CASE pc = "operand_loop"
    <3>1. /\ n >= 2 /\ stack[n].kind = "data" /\ stack[n - 1].kind = "cont"
          /\ Stands(stack, calls, Place(stack[n - 1].v, n - 2))
      BY <2>1, <2>3 DEF Expected, LinkedUnder
    <3>2. n - 2 \in Nat
      BY <1>1, <3>1
    <3>3. Framed(stack, calls, stack[n - 1].v, n - 2)
      BY <3>1, <3>2, StandsFramed
    <3>4. QED BY <2>3, <3>1, <3>3 DEF FramesMatch
  <2>4. CASE pc = "exit"
    BY <1>1, <2>1, <2>4, StandsFramed DEF Expected, FramesMatch
  <2>5. CASE pc \notin {"sequence", "apply", "restoring", "redirecting", "operand_loop", "exit"}
    <3>1. Framed(stack, calls, reg.cont, n)
      BY <1>1, <2>1, <2>5, StandsFramed DEF Expected
    <3>2. QED BY <1>3, <2>5, <3>1 DEF FramesMatch
  <2>6. QED BY <2>2, <2>3, <2>4, <2>5
<1>4. QED BY <1>2, <1>3

-----------------------------------------------------------------------------
(* With kill_if_error off the flag is never reset, and there is no cell for *)
(* an error before it is set.                                              *)

NoErrorIn(cells) == \A a \in DOMAIN cells : cells[a].type # "error"
ErrorsFlagged == ~ have_error => NoErrorIn(heap)

\* What a step does about errors.
ErrorsNoticed == ~ have_error' => ~ have_error /\ (NoErrorIn(heap) => NoErrorIn(heap'))

LEMMA CellsKept ==
    ASSUME have_error' = have_error, \A a \in DOMAIN heap' : a \in DOMAIN heap /\ heap'[a].type = heap[a].type
    PROVE  ErrorsNoticed
BY DEF ErrorsNoticed, NoErrorIn

LEMMA FewerCells ==
    ASSUME have_error' = have_error, NEW S, heap' = Keep(heap, S)
    PROVE  ErrorsNoticed
<1> DEFINE kept == Keep(heap, S)
<1>1. \A a \in DOMAIN kept : a \in DOMAIN heap /\ kept[a] = heap[a]
  BY KeepType
<1> HIDE DEF kept
<1>2. heap' = kept
  BY DEF kept
<1>3. QED BY <1>1, <1>2, CellsKept

LEMMA HeapSame ==
    ASSUME UNCHANGED <<heap, have_error>>
    PROVE  ErrorsNoticed
BY DEF ErrorsNoticed

LEMMA BatchNoticed ==
    ASSUME MemoryOK, NEW cells, IsBatch(cells), NEW j \in 0 .. Len(cells), NEW r, NEW s, Created(cells),
           NoErrorIn(heap), ~ have_error'
    PROVE  NoErrorIn(HeapAfter(cells, j, r, s))
<1> DEFINE after == HeapAfter(cells, j, r, s)
<1>1. \A c \in Range(cells) : c.type # "error"
  BY DEF Created
<1>2. DOMAIN cells = 1 .. Len(cells)
  BY DEF IsBatch
<1>3. \A i \in 1 .. Len(cells) : cells[i].type # "error"
  BY <1>1, <1>2 DEF Range
<1>4. ASSUME NEW a \in DOMAIN after PROVE after[a].type # "error"
  BY <1>3, HeapAfterCells DEF NoErrorIn
<1>5. QED BY <1>4 DEF NoErrorIn

LEMMA CreatedFlag ==
    ASSUME NEW cells, Created(cells), ~ have_error'
    PROVE  ~ have_error
BY DEF Created

LEMMA CreateNoticed ==
    ASSUME MemoryOK, NEW cells, IsBatch(cells), NEW j \in 0 .. Len(cells), NEW r, NEW s, Created(cells),
           heap' = HeapAfter(cells, j, r, s)
    PROVE  ErrorsNoticed
BY BatchNoticed, CreatedFlag DEF ErrorsNoticed

LEMMA DeliverNoticed ==
    ASSUME MemoryOK, NEW outcome, IsResult(outcome), NEW label, NEW r, NEW s, Deliver(outcome, label, r, s)
    PROVE  ErrorsNoticed
<1>1. PICK j \in Collections(outcome.cells, r, s) : Create(outcome.cells, j, r, s)
  BY DEF Deliver
<1>2. IsBatch(outcome.cells) /\ j \in 0 .. Len(outcome.cells)
  BY <1>1, CollectionsType DEF IsResult
<1>3. QED BY <1>1, <1>2, CreateNoticed DEF Create

LEMMA ExtendNoticed ==
    ASSUME NEW body, NEW r, NEW s, ExtendEnvironment(body, r, s)
    PROVE  ErrorsNoticed
<1>1. PICK j : heap' = IF j = 0 THEN heap ELSE Keep(heap, Marked(r, s) \cup code)
  BY DEF ExtendEnvironment
<1>2. have_error' = have_error
  BY DEF ExtendEnvironment
<1>3. QED BY <1>1, <1>2, HeapSame, FewerCells

LEMMA AppendNoticed ==
    ASSUME MemoryOK, NEW label, NEW r \in Registers, NEW s, NEW r2, NEW s2, AppendToLast(label, r, s, r2, s2)
    PROVE  ErrorsNoticed
<1> DEFINE cells == <<Pair(r.val, NIL)>>
<1>1. PICK j \in Collections(cells, r, s) :
         /\ heap' = IF r.last = NULL THEN HeapAfter(cells, j, r, s)
                    ELSE [HeapAfter(cells, j, r, s) EXCEPT ![r.last].cdr = fresh]
         /\ Created(cells)
  BY DEF AppendToLast
<1>2. IsBatch(cells)
  <2>1. r.val \in Int /\ NIL \in Int
    BY RegisterTypes DEF NIL
  <2>2. QED BY <2>1, PairIsCell, OneCell
<1> HIDE DEF cells
<1>3. j \in 0 .. Len(cells)
  BY <1>1, <1>2, CollectionsType
<1> DEFINE after == HeapAfter(cells, j, r, s)
<1>4. ASSUME ~ have_error', NoErrorIn(heap) PROVE NoErrorIn(heap')
  <2>1. NoErrorIn(after) /\ CellsOK(after)
    BY <1>1, <1>2, <1>3, <1>4, BatchNoticed, HeapAfterType
  <2> HIDE DEF after
  <2>2. CASE heap' = after
    BY <2>1, <2>2
  <2>3. CASE heap' = [after EXCEPT ![r.last].cdr = fresh]
    <3>1. DOMAIN heap' = DOMAIN after
      BY <2>3
    <3>2. ASSUME NEW a \in DOMAIN after PROVE heap'[a].type = after[a].type
      <4>1. CASE a # r.last
        BY <2>3, <4>1
      <4>2. CASE a = r.last
        <5> DEFINE c == after[a]
        <5>1. heap'[a] = [c EXCEPT !.cdr = fresh]
          BY <2>3, <4>2
        <5>2. DOMAIN c = DOMAIN BadCell
          BY <2>1 DEF CellsOK, IsCell
        <5>3. "type" \in DOMAIN c
          BY <5>2 DEF BadCell, Text
        <5> HIDE DEF c
        <5>4. QED BY <5>1, <5>3 DEF c
      <4>3. QED BY <4>1, <4>2
    <3>3. QED BY <2>1, <3>1, <3>2 DEF NoErrorIn
  <2>4. QED BY <1>1, <2>2, <2>3 DEF after
<1>5. QED BY <1>1, <1>4, CreatedFlag DEF ErrorsNoticed

LEMMA EnterNoticed ==
    ASSUME MemoryOK, NEW program, IsOutcome(program), NEW caller, NEW r, NEW s, Enter(program, caller, r, s)
    PROVE  ErrorsNoticed
<1>1. CASE UNCHANGED memory
  BY <1>1, HeapSame DEF memory
<1>2. CASE heap' = Over(Relocated(program.cells), heap) /\ UNCHANGED have_error
  <2> DEFINE cells == program.cells
  <2>1. IsBatch(cells) /\ \A i \in 1 .. Len(cells) : cells[i].type # "error"
    BY DEF IsOutcome, IsBatch
  <2> HIDE DEF cells
  <2>2. /\ DOMAIN Relocated(cells) = fresh .. fresh + Len(cells) - 1
        /\ \A a \in DOMAIN Relocated(cells) : Relocated(cells)[a].type = cells[a - fresh + 1].type
    BY <2>1, RelocatedType
  <2>3. NoErrorIn(Relocated(cells))
    <3>1. ASSUME NEW a \in DOMAIN Relocated(cells) PROVE Relocated(cells)[a].type # "error"
      <4>1. a - fresh + 1 \in 1 .. Len(cells)
        BY <2>1, <2>2 DEF MemoryOK, IsBatch
      <4>2. QED BY <2>1, <2>2, <4>1
    <3>2. QED BY <3>1 DEF NoErrorIn
  <2>4. heap' = Over(Relocated(cells), heap)
    BY <1>2 DEF cells
  <2>5. NoErrorIn(heap) => NoErrorIn(heap')
    BY <2>3, <2>4 DEF NoErrorIn, Over
  <2>6. QED BY <1>2, <2>5 DEF ErrorsNoticed
<1>3. QED BY <1>1, <1>2 DEF Enter

LEMMA EvalOnStringNoticed ==
    ASSUME MemoryOK, NEW p, NEW r, NEW s, run_eval_on_string(p, r, s)
    PROVE  ErrorsNoticed
<1>1. CASE TextOf(p) \in DOMAIN Image
  <2>1. IsOutcome(Image[TextOf(p)])
    BY <1>1, EvaluatorAssumption
  <2>2. PICK r2, s2 : Enter(Image[TextOf(p)], "string", r2, s2)
    BY <1>1 DEF run_eval_on_string, Nested
  <2>3. QED BY <2>1, <2>2, EnterNoticed
<1>2. CASE TextOf(p) \notin DOMAIN Image
  BY <1>2, DeliverNoticed, ErrorResult DEF run_eval_on_string
<1>3. QED BY <1>1, <1>2

LEMMA EvalOnFileNoticed ==
    ASSUME MemoryOK, NEW name, NEW caller, NEW r, NEW s, run_eval_on_file(name, caller, r, s)
    PROVE  ErrorsNoticed
<1>1. CASE name \in Files \cap DOMAIN Image
  <2>1. IsOutcome(Image[name])
    BY <1>1, EvaluatorAssumption
  <2>2. PICK r2, s2 : Enter(Image[name], caller, r2, s2)
    BY <1>1 DEF run_eval_on_file, Nested
  <2>3. QED BY <2>1, <2>2, EnterNoticed
<1>2. CASE name \notin Files \cap DOMAIN Image
  <2>1. PICK r2, s2 : Deliver(Creates(Error("problem with file")), "continue", r2, s2)
    BY <1>2 DEF run_eval_on_file
  <2>2. QED BY <2>1, DeliverNoticed, ErrorResult
<1>3. QED BY <1>1, <1>2

LEMMA NamedCodeNoticed ==
    ASSUME MemoryOK, NEW cell, IsCell(cell), NamedCode(cell)
    PROVE  ErrorsNoticed
<1> DEFINE cells == <<cell>>
<1>1. PICK r : \E j \in Collections(cells, r, stack) : heap' = HeapAfter(cells, j, r, stack) /\ Created(cells)
  BY DEF NamedCode
<1>2. IsBatch(cells)
  BY OneCell
<1> HIDE DEF cells
<1>3. PICK j \in Collections(cells, r, stack) : heap' = HeapAfter(cells, j, r, stack) /\ Created(cells)
  BY <1>1
<1>4. j \in 0 .. Len(cells)
  BY <1>2, CollectionsType
<1>5. QED BY <1>2, <1>3, <1>4, CreateNoticed

LEMMA DispatchNoticed ==
    ASSUME Ready, Dispatch
    PROVE  ErrorsNoticed
<1>1. MemoryOK /\ reg \in Registers /\ reg.exp \in Nat /\ reg.env \in Nat
      /\ \A p : CADR(p) \in Nat /\ CDR(p) \in Nat /\ CDDR(p) \in Nat
  BY ReadyTypes
<1>2. CASE UNCHANGED memory
  BY <1>2, HeapSame DEF memory
<1>3. ASSUME NEW o, IsResult(o), NEW r, Deliver(o, "continue", r, stack) PROVE ErrorsNoticed
  BY <1>1, <1>3, DeliverNoticed
<1>4. CASE EvalVariable
  BY <1>1, <1>3, <1>4, LookupResult DEF EvalVariable
<1>5. CASE EvalQuoted
  <2> DEFINE text == TextOf(reg.exp)
             root == Image[text].cells[-Image[text].val]
             o == IF text \in Quoted THEN [Image[text] EXCEPT !.val = root.car] ELSE Returns(reg.exp)
  <2>1. IsResult(o)
    <3>1. CASE text \in Quoted
      <4>1. IsOutcome(Image[text]) /\ Image[text].val < 0
        BY <3>1, EvaluatorAssumption
      <4>2. root.car \in Int
        BY <4>1 DEF IsOutcome, IsCell
      <4>3. QED BY <3>1, <4>1, <4>2, OutcomeResult DEF IsResult
    <3>2. CASE text \notin Quoted
      BY <1>1, <3>2, ReturnsType
    <3>3. QED BY <3>1, <3>2
  <2>2. Deliver(o, "continue", reg, stack)
    BY <1>5 DEF EvalQuoted
  <2> HIDE DEF o
  <2>3. QED BY <1>3, <2>1, <2>2
<1>6. CASE EvalLambda
  <2> DEFINE r == [reg EXCEPT !.unev = CADR(reg.exp), !.exp = CDDR(reg.exp)]
  <2>1. r.unev = CADR(reg.exp) /\ r.exp = CDDR(reg.exp) /\ r.env = reg.env
    BY <1>1, RegisterNames DEF Registers
  <2>2. Deliver(Creates(Procedure(r.unev, r.exp, r.env)), "continue", r, stack)
    BY <1>6 DEF EvalLambda
  <2> HIDE DEF r
  <2>3. IsResult(Creates(Procedure(r.unev, r.exp, r.env)))
    BY <1>1, <2>1, CellTypes, CreatesType
  <2>4. QED BY <1>3, <2>2, <2>3
<1>7. CASE EvalDefineLambda
  <2>1. IsCell(Procedure(CDR(CADR(reg.exp)), CDDR(reg.exp), reg.env))
    BY <1>1, CellTypes
  <2>2. QED BY <1>1, <1>7, <2>1, NamedCodeNoticed DEF EvalDefineLambda
<1>8. CASE EvalMacroLambda
  <2>1. IsCell(Macro(CDR(CADR(reg.exp)), CDDR(reg.exp)))
    BY <1>1, CellTypes
  <2>2. QED BY <1>1, <1>8, <2>1, NamedCodeNoticed DEF EvalMacroLambda
<1>9. CASE EvalEval
  <2>1. \/ \E p, r : run_eval_on_string(p, r, stack)
        \/ \E r : Deliver(Creates(Error("argument to eval")), "continue", r, stack)
    BY <1>9, Zenon DEF EvalEval
  <2>2. QED BY <1>1, <1>3, <2>1, EvalOnStringNoticed, ErrorResult
<1>10. CASE EvalImport
  <2>1. \/ \E name, r : run_eval_on_file(name, "import", r, stack)
        \/ \E text, r : Deliver(Creates(Error(text)), "continue", r, stack)
        \/ UNCHANGED memory
    BY <1>10, Zenon DEF EvalImport
  <2>2. QED BY <1>1, <1>2, <1>3, <2>1, EvalOnFileNoticed, ErrorResult
<1>11. CASE EvalSelf \/ EvalIf \/ EvalAssignment \/ EvalDefinition \/ EvalApplication
  BY <1>2, <1>11 DEF EvalSelf, At, EvalIf, EvalAssignment, EvalDefinition, EvalStore, EvalApplication
<1>12. QED BY <1>4, <1>5, <1>6, <1>7, <1>8, <1>9, <1>10, <1>11 DEF Dispatch

LEMMA DidOperatorNoticed ==
    ASSUME Ready, DidOperator
    PROVE  ErrorsNoticed
<1> DEFINE r == [Unwound EXCEPT !.argl = NIL, !.last = NULL, !.proc = reg.val]
           found == IF IsStringType(reg.val) THEN lookup_variable_value(reg.val, r.env) ELSE Returns(reg.val)
           called == [r EXCEPT !.proc = Address(found.val)]
           entered == [called EXCEPT !.cont = JUMP_MACRO_FINISH, !.argl = r.unev, !.unev = CAR(called.proc)]
<1>1. PICK j \in Collections(found.cells, r, Rest) :
         IF Cell(called.proc).type = "macro"
         THEN ExtendEnvironment(CDR(called.proc), entered, Push(Rest, <<Cont(JUMP_MACRO_FINISH)>>))
         ELSE /\ Create(found.cells, j, r, Rest)
              /\ IF r.unev = NIL THEN To("apply", called, Rest)
                 ELSE To("operand_loop", called, Push(Rest, <<Data(called.proc)>>))
  BY Zenon DEF DidOperator
<1>2. MemoryOK /\ IsResult(found)
  BY LookupResult, ReturnsType, ReadyTypes
<1> HIDE DEF r, found, called, entered
<1>3. IsBatch(found.cells) /\ j \in 0 .. Len(found.cells)
  BY <1>1, <1>2, CollectionsType DEF IsResult
<1>4. QED BY <1>1, <1>2, <1>3, ExtendNoticed, CreateNoticed DEF Create

LEMMA ContinuationNoticed ==
    ASSUME Ready, Continuation
    PROVE  ErrorsNoticed
<1>1. MemoryOK /\ reg \in Registers /\ Unwound \in Registers
  BY ReadyTypes, UnwoundType
<1>2. CASE IfDecide \/ OperandLoop \/ SequenceContinue \/ MacroFinish
  BY <1>2, HeapSame DEF IfDecide, OperandLoop, SequenceContinue, MacroFinish, At, memory
<1>3. CASE Assignment1 \/ Definition1
  BY <1>3, HeapSame DEF Assignment1, Definition1, Store
<1>4. CASE AccumulateArg
  BY <1>1, <1>4, AppendNoticed DEF AccumulateArg
<1>5. CASE AccumLastArg
  <2>1. [Unwound EXCEPT !.proc = reg.proc] \in Registers
    BY <1>1, ReadyTypes, Assign
  <2>2. QED BY <1>1, <1>5, <2>1, AppendNoticed DEF AccumLastArg
<1>6. CASE ImportAux
  <2>1. \/ \E name, r, s : run_eval_on_file(name, "import_aux", r, s)
        \/ \E text, r, s : Deliver(Creates(Error(text)), "continue", r, s)
    BY <1>6, Zenon DEF ImportAux
  <2>2. QED BY <1>1, <2>1, EvalOnFileNoticed, DeliverNoticed, ErrorResult
<1>7. QED BY <1>2, <1>3, <1>4, <1>5, <1>6, DidOperatorNoticed DEF Continuation

LEMMA ApplyNoticed ==
    ASSUME Ready, Apply
    PROVE  ErrorsNoticed
<1>1. MemoryOK
  BY ReadyTypes
<1>2. CASE PrimitiveApply
  BY <1>1, <1>2, PrimitiveResult, DeliverNoticed DEF PrimitiveApply
<1>3. CASE CompoundApply
  BY <1>3, ExtendNoticed DEF CompoundApply
<1>4. CASE UnknownProcedure
  <2>1. \E text, r, s : Deliver(Creates(Error(text)), "exit", r, s)
    BY <1>4, Zenon DEF UnknownProcedure
  <2>2. QED BY <1>1, <2>1, DeliverNoticed, ErrorResult
<1>5. QED BY <1>2, <1>3, <1>4 DEF Apply

LEMMA ExitNoticed ==
    ASSUME Exit
    PROVE  ErrorsNoticed
<1>1. heap' = Keep(heap, DOMAIN heap \ {reg.top}) /\ have_error' = have_error
  BY DEF Exit
<1>2. QED BY <1>1, FewerCells

LEMMA PluginNoticed ==
    ASSUME Ready, PluginOK, EnvRestore
    PROVE  ErrorsNoticed
<1>1. MemoryOK
  BY ReadyTypes
<1>2. CASE UNCHANGED <<heap, have_error>>
  BY <1>2, HeapSame
<1>3. CASE env_restore
  <2>1. \/ UNCHANGED memory
        \/ /\ \E j : heap' = IF j = 0 THEN heap ELSE Keep(heap, Marked(reg, stack) \cup code)
           /\ have_error' = have_error
    BY <1>3 DEF env_restore
  <2>2. QED BY <2>1, HeapSame, FewerCells DEF memory
<1>4. CASE data_restore_cell
  <2> DEFINE shared == Copied.type \in {"nil", "true"}
             cells == IF shared THEN <<>> ELSE <<RestoredCell>>
  <2>1. PICK j \in Room(cells) : Create(cells, j, reg, stack)
    BY <1>4 DEF data_restore_cell
  <2>2. IsBatch(cells)
    <3>1. IsCell(RestoredCell)
      <4>1. IsTask(Task)
        BY <1>4, RestoringTypes, TodoTail DEF Task, data_restore_cell, Restoring
      <4>2. QED BY <4>1, RestoredCellType
    <3>2. IsBatch(<<>>) /\ IsBatch(<<RestoredCell>>)
      BY <3>1, OneCell DEF IsBatch
    <3>3. QED BY <3>2
  <2> HIDE DEF cells
  <2>3. j \in 0 .. Len(cells)
    <3>1. j \in Collections(cells, reg, stack) \/ j = 0
      BY <2>1 DEF Room
    <3>2. QED BY <2>2, <3>1, CollectionsType DEF IsBatch
  <2>4. QED BY <1>1, <2>1, <2>2, <2>3, CreateNoticed DEF Create
<1>5. CASE rec_set_new_pointers
  <2>1. PICK a, f : heap' = heap \/ heap' = [heap EXCEPT ![a].env = f]
    BY <1>5 DEF rec_set_new_pointers
  <2>2. have_error' = have_error
    BY <1>5 DEF rec_set_new_pointers
  <2>3. CASE heap' = [heap EXCEPT ![a].env = f]
    <3>1. DOMAIN heap' = DOMAIN heap
      BY <2>3
    <3>2. ASSUME NEW x \in DOMAIN heap PROVE heap'[x].type = heap[x].type
      <4>1. CASE x # a
        BY <2>3, <4>1
      <4>2. CASE x = a
        <5> DEFINE c == heap[x]
        <5>1. heap'[x] = [c EXCEPT !.env = f]
          BY <2>3, <4>2
        <5>2. DOMAIN c = DOMAIN BadCell
          BY <1>1 DEF MemoryOK, CellsOK, IsCell
        <5>3. "type" \in DOMAIN c
          BY <5>2 DEF BadCell, Text
        <5> HIDE DEF c
        <5>4. QED BY <5>1, <5>3 DEF c
      <4>3. QED BY <4>1, <4>2
    <3>3. QED BY <2>2, <3>1, <3>2, CellsKept
  <2>4. CASE heap' = heap
    BY <2>2, <2>4, HeapSame
  <2>5. QED BY <2>1, <2>3, <2>4, Zenon
<1>6. CASE \/ env_restore_plugin_save \/ env_restore_plugin_restore \/ data_restore \/ env_restore_bind
           \/ eval_set_new_pointers \/ env_restore_plugin_return
  BY <1>2, <1>6 DEF env_restore_plugin_save, env_restore_plugin_restore, data_restore, env_restore_bind,
                    eval_set_new_pointers, env_restore_plugin_return, memory
<1>7. QED BY <1>3, <1>4, <1>5, <1>6 DEF EnvRestore

LEMMA StepNoticed ==
    ASSUME Inv, ~ KillIfError, [Next]_vars
    PROVE  ErrorsNoticed
<1>1. Ready /\ PluginOK /\ MemoryOK
  BY TypeParts, ReadyTypes DEF Inv, Ready, PluginOK
<1>2. CASE Run
  <2>1. CASE EvalBegin \/ Sequence
    BY <2>1, HeapSame DEF EvalBegin, Sequence, At, memory
  <2>2. CASE Continue
    BY <2>2 DEF Continue, ErrorsNoticed
  <2>3. CASE Dispatch \/ Continuation \/ Apply \/ Exit \/ EnvRestore
    BY <1>1, <2>3, DispatchNoticed, ContinuationNoticed, ApplyNoticed, ExitNoticed, PluginNoticed
  <2>4. QED BY <1>2, <2>1, <2>2, <2>3 DEF Run
<1>3. CASE Eval
  <2>1. Enter(script.programs[asked + 1], "host", reg, stack)
    BY <1>3 DEF Eval
  <2>2. asked + 1 \in DOMAIN script.programs
    <3>1. asked \in 0 .. Len(script.programs) /\ asked < Len(script.programs)
      BY <1>1, <1>3 DEF Eval, Ready, CoreOK, CallsOK
    <3>2. script.programs \in Seq({script.programs[i] : i \in DOMAIN script.programs})
      BY EvaluatorAssumption DEF Inv
    <3>3. QED BY <3>1, <3>2
  <2>3. IsOutcome(script.programs[asked + 1])
    BY <2>2, EvaluatorAssumption DEF Inv
  <2>4. QED BY <1>1, <2>1, <2>3, EnterNoticed
<1>4. CASE Undefined \/ UNCHANGED vars
  BY <1>4, HeapSame DEF Undefined, vars, memory
<1>5. QED BY <1>2, <1>3, <1>4 DEF Next

LEMMA ErrorIsCell ==
    ASSUME NEW cells, NEW p, CellIn(cells, p).type = "error"
    PROVE  ~ NoErrorIn(cells)
<1>1. NilCell.type = "nil" /\ TrueCell.type = "true" /\ BadCell.type = "bad"
  BY DEF NilCell, TrueCell, BadCell, Pair, Text
<1>2. p \in DOMAIN cells /\ CellIn(cells, p) = cells[p]
  <2>1. CellIn(cells, p) \notin {NilCell, TrueCell, BadCell}
    BY <1>1
  <2>2. QED BY <2>1 DEF CellIn
<1>3. QED BY <1>2 DEF NoErrorIn

\* Until the first error every frame is where its continuation expects it.
UnlessError == Inv /\ ErrorsFlagged /\ (~ have_error => FrameInv)

LEMMA UnlessErrorInit ==
    ASSUME Init
    PROVE  UnlessError
<1>1. DOMAIN heap = {}
  BY DEF Init
<1>2. QED BY <1>1, InvInit, FrameInit DEF UnlessError, ErrorsFlagged, NoErrorIn

LEMMA UnlessErrorStep ==
    ASSUME UnlessError, ~ KillIfError, StackNeverFull', [Next]_vars
    PROVE  UnlessError'
<1>1. Inv' /\ ErrorsNoticed
  BY InvNext, StepNoticed DEF UnlessError
<1>2. ErrorsFlagged'
  BY <1>1 DEF UnlessError, ErrorsFlagged, ErrorsNoticed
<1>3. ASSUME ~ have_error' PROVE FrameInv'
  <2>1. FrameInv
    BY <1>1, <1>3 DEF UnlessError, ErrorsNoticed
  <2>2. NoAbort'
    BY <1>2, <1>3, ErrorIsCell DEF ErrorsFlagged, NoAbort, Cell
  <2>3. QED BY <2>1, <2>2, FrameStep DEF UnlessError
<1>4. QED BY <1>1, <1>2, <1>3 DEF UnlessError

\* Whatever is evaluated, by calls in tail position or nested, through macros,
\* imports and restored environments: unless an error ends an evaluation or the
\* stack is full, every label finds the entries that were pushed for it, down to
\* the registers of the host.
THEOREM FramesCorrect == Spec /\ [](NoAbort /\ StackNeverFull) => []FramesMatch
<1>1. Init => Inv /\ FrameInv
  BY InvInit, FrameInit
<1>2. Inv /\ FrameInv /\ [Next]_vars /\ (NoAbort /\ StackNeverFull)' => (Inv /\ FrameInv)'
  BY InvNext, FrameStep
<1>3. Inv /\ FrameInv => FramesMatch
  BY FramesMatched
<1>4. QED BY <1>1, <1>2, <1>3, PTL DEF Spec

\* And eval returns with the registers it was called with and an empty stack.
THEOREM SavedRestored == Spec /\ [](NoAbort /\ StackNeverFull) => []SaveRestoreBalanced
<1>1. Init => Inv /\ FrameInv
  BY InvInit, FrameInit
<1>2. Inv /\ FrameInv /\ [Next]_vars /\ (NoAbort /\ StackNeverFull)' => (Inv /\ FrameInv)'
  BY InvNext, FrameStep
<1>3. Inv /\ FrameInv => SaveRestoreBalanced
  BY DEF FrameInv, SaveRestoreBalanced
<1>4. QED BY <1>1, <1>2, <1>3, PTL DEF Spec

\* With kill_if_error off, have_error tells whether any evaluation has been left
\* because of an error: as long as it is not set, eval returns with the registers
\* and the stack it was called with.
THEOREM RegistersCorrect ==
    ASSUME ~ KillIfError
    PROVE  Spec /\ []StackNeverFull => []RegistersRestored
<1>1. Init => UnlessError
  BY UnlessErrorInit
<1>2. UnlessError /\ [Next]_vars /\ StackNeverFull' => UnlessError'
  BY UnlessErrorStep
<1>3. UnlessError => RegistersRestored
  BY DEF UnlessError, FrameInv, RegistersRestored
<1>4. QED BY <1>1, <1>2, <1>3, PTL DEF Spec
=============================================================================
