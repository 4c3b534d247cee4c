-------------------------- MODULE InductionLemmas --------------------------
(***************************************************************************)
(* Induction over the natural numbers with a set in place of a predicate,   *)
(* from the fact that < is well-founded on Nat.  The other modules of       *)
(* proofs take from here what their recursive functions need.               *)
(***************************************************************************)
EXTENDS Naturals, Sequences, SequencesExt, WellFoundedInduction, TLAPS

(* Every set of natural numbers that has an element has a smallest one.     *)
LEMMA SmallestExists ==
    ASSUME NEW S \in SUBSET Nat, S # {}
    PROVE  \E k \in S : \A j \in S : k <= j
<1> DEFINE R == OpToRel(<, Nat)
<1>1. \E x \in S : \A y \in S : <<y, x>> \notin R
  <2> HIDE DEF R
  <2>1. IsWellFoundedOn(R, Nat)
    BY NatLessThanWellFounded, Zenon DEF R
  <2>2. QED
    BY <2>1, WFMin, Zenon
<1>2. \A x, y \in Nat : <<y, x>> \notin R => x <= y
  BY SMT DEF OpToRel
<1> HIDE DEF R
<1>3. QED
  BY <1>1, <1>2, Zenon

(* A set of numbers from 0 to n that has 0, and with each number below n    *)
(* the next one, has all of them.                                           *)
LEMMA InductionUpTo ==
    ASSUME NEW n \in Nat, NEW S, 0 \in S, \A k \in 0 .. n - 1 : k \in S => k + 1 \in S
    PROVE  \A k \in 0 .. n : k \in S
<1> DEFINE Missing == (0 .. n) \ S
<1>1. SUFFICES ASSUME Missing # {} PROVE FALSE
  OBVIOUS
<1>2. PICK k \in Missing : \A j \in Missing : k <= j
  <2>1. Missing \in SUBSET Nat
    OBVIOUS
  <2> HIDE DEF Missing
  <2>2. QED
    BY <1>1, <2>1, SmallestExists
<1>3. k \in 0 .. n /\ k # 0
  OBVIOUS
<1>4. k - 1 \in 0 .. n - 1 /\ k - 1 \in S
  BY <1>2, <1>3
<1>5. QED
  BY <1>2, <1>3, <1>4

(* The function on 0 .. n that begins with base and of which step makes     *)
(* each value from the one before.                                          *)
Iterates(f, n, S, base, step) ==
    /\ f \in [0 .. n -> S] /\ f[0] = base
    /\ \A k \in 1 .. n : f[k] = step[<<f[k - 1], k>>]

(* There is one.                                                            *)
LEMMA RecursionUpTo ==
    ASSUME NEW n \in Nat, NEW S, NEW base \in S, NEW step \in [S \X (1 .. n) -> S]
    PROVE  \E f : Iterates(f, n, S, base, step)
<1> DEFINE Builds(f, m) == f[0] = base /\ \A k \in 1 .. m : f[k] = step[<<f[k - 1], k>>]
           Reached == {m \in 0 .. n : \E f \in [0 .. m -> S] : Builds(f, m)}
<1>1. 0 \in Reached
  <2> DEFINE f == [k \in 0 .. 0 |-> base]
  <2>1. f \in [0 .. 0 -> S] /\ Builds(f, 0)
    OBVIOUS
  <2> HIDE DEF Builds, f
  <2>2. QED
    BY <2>1
<1>2. ASSUME NEW m \in 0 .. n - 1, m \in Reached PROVE m + 1 \in Reached
  <2>1. PICK f \in [0 .. m -> S] : Builds(f, m)
    BY <1>2
  <2> DEFINE g == [k \in 0 .. m + 1 |-> IF k = m + 1 THEN step[<<f[m], m + 1>>] ELSE f[k]]
  <2>2. step[<<f[m], m + 1>>] \in S
    <3>1. m \in 0 .. m /\ m + 1 \in 1 .. n
      BY SMT
    <3>2. <<f[m], m + 1>> \in S \X (1 .. n)
      BY <3>1, Zenon
    <3>3. QED
      BY <3>2, Zenon
  <2>3. g \in [0 .. m + 1 -> S]
    BY <2>2, SMT
  <2>4. /\ m + 1 \in 0 .. n /\ m + 1 \in 0 .. m + 1
        /\ \A k \in 0 .. m : k # m + 1 /\ k \in 0 .. m + 1
        /\ \A k \in 1 .. m : k \in 0 .. m /\ k - 1 \in 0 .. m
    BY SMT
  <2>5. g[m + 1] = step[<<f[m], m + 1>>] /\ \A k \in 0 .. m : g[k] = f[k]
    BY <2>4, Zenon
  <2> HIDE DEF g
  <2>6. g[0] = base
    BY <2>1, <2>5, SMT
  <2>7. ASSUME NEW k \in 1 .. m + 1 PROVE g[k] = step[<<g[k - 1], k>>]
    <3>1. CASE k = m + 1
      <4>1. k - 1 = m /\ m \in 0 .. m
        BY <3>1, SMT
      <4>2. QED
        BY <2>5, <3>1, <4>1, Zenon
    <3>2. CASE k # m + 1
      <4>1. k \in 1 .. m
        BY <3>2, SMT
      <4>2. g[k] = f[k] /\ g[k - 1] = f[k - 1]
        BY <2>4, <2>5, <4>1, Zenon
      <4>3. QED
        BY <2>1, <4>1, <4>2, Zenon
    <3>3. QED
      BY <3>1, <3>2
  <2>8. QED
    BY <2>3, <2>4, <2>6, <2>7, Zenon
<1>3. n \in Reached
  <2> HIDE DEF Reached
  <2>1. \A m \in 0 .. n : m \in Reached
    BY <1>1, <1>2, InductionUpTo
  <2>2. QED
    BY <2>1, SMT
<1>4. QED
  BY <1>3 DEF Iterates

(* FlattenSeq appends one sequence after the other.                         *)
LEMMA Flattened ==
    ASSUME NEW S, NEW texts \in Seq(Seq(S))
    PROVE  \E g \in [0 .. Len(texts) -> Seq(S)] :
              /\ g[0] = <<>> /\ g[Len(texts)] = FlattenSeq(texts)
              /\ \A k \in 1 .. Len(texts) : g[k] = g[k - 1] \o texts[k]
<1> DEFINE n == Len(texts)
            step == [p \in Seq(S) \X (1 .. n) |-> p[1] \o texts[p[2]]]
<1>1. n \in Nat /\ <<>> \in Seq(S) /\ \A k \in 1 .. n : texts[k] \in Seq(S)
  OBVIOUS
<1>2. step \in [Seq(S) \X (1 .. n) -> Seq(S)]
  BY <1>1, SMT
<1>3. PICK g \in [0 .. n -> Seq(S)] : g[0] = <<>> /\ \A k \in 1 .. n : g[k] = step[<<g[k - 1], k>>]
  <2> DEFINE T == Seq(S)
              base == <<>>
  <2>1. n \in Nat /\ base \in T /\ step \in [T \X (1 .. n) -> T]
    BY <1>1, <1>2
  <2> HIDE DEF T, base, n, step
  <2>2. \E g : Iterates(g, n, T, base, step)
    BY <2>1, RecursionUpTo
  <2> QED BY <2>2 DEF T, base, Iterates
<1>4. \A k \in 1 .. n : g[k] = g[k - 1] \o texts[k]
  <2> SUFFICES ASSUME NEW k \in 1 .. n PROVE g[k] = g[k - 1] \o texts[k]
    OBVIOUS
  <2>1. k - 1 \in 0 .. n
    BY <1>1, SMT
  <2>2. <<g[k - 1], k>> \in Seq(S) \X (1 .. n)
    BY <2>1, Zenon
  <2>3. step[<<g[k - 1], k>>] = g[k - 1] \o texts[k]
    BY <2>2, Zenon
  <2> QED BY <1>3, <2>3, Zenon
<1>5. g[n] = FlattenSeq(texts)
  <2>1. CASE n = 0
    BY <1>1, <1>3, <2>1, SMT DEF FlattenSeq
  <2>2. CASE n # 0
    <3> DEFINE Flattens(f) == f = [i \in 1 .. n |-> IF i = 1 THEN texts[i] ELSE f[i - 1] \o texts[i]]
                h == [i \in 1 .. n |-> g[i]]
                flatten == CHOOSE f : Flattens(f)
    <3>1. ASSUME NEW i \in 1 .. n PROVE h[i] = IF i = 1 THEN texts[i] ELSE h[i - 1] \o texts[i]
      <4>1. h[i] = g[i - 1] \o texts[i]
        BY <1>4
      <4>2. CASE i = 1
        BY <1>1, <1>3, <4>1, <4>2, SMT
      <4>3. CASE i # 1
        <5>1. i - 1 \in 1 .. n
          BY <1>1, <4>3, SMT
        <5> QED BY <4>1, <4>3, <5>1, Zenon
      <4> QED BY <4>2, <4>3
    <3>2. Flattens(h)
      BY <3>1, Zenon
    <3>3. Flattens(flatten)
      <4> HIDE DEF Flattens
      <4> QED BY <3>2, Zenon
    <3>4. FlattenSeq(texts) = flatten[n]
      BY <2>2 DEF FlattenSeq
    <3> HIDE DEF flatten
    <3> DEFINE Same == {k \in 0 .. n : k > 0 => flatten[k] = g[k]}
    <3>5. 0 \in Same
      BY <1>1, SMT
    <3>6. ASSUME NEW k \in 0 .. n - 1, k \in Same PROVE k + 1 \in Same
      <4>1. k + 1 \in 1 .. n /\ k + 1 \in 0 .. n /\ (k + 1) - 1 = k /\ k \in Nat
        BY <1>1, SMT
      <4>2. flatten[k + 1] = IF k + 1 = 1 THEN texts[k + 1] ELSE flatten[(k + 1) - 1] \o texts[k + 1]
        BY <3>3, <4>1, Zenon
      <4>3. CASE k = 0
        <5>1. flatten[k + 1] = texts[k + 1]
          BY <4>2, <4>3, SMT
        <5>2. g[k + 1] = g[k] \o texts[k + 1] /\ g[k] = <<>>
          BY <1>3, <1>4, <4>1, <4>3, Zenon
        <5>3. <<>> \o texts[k + 1] = texts[k + 1]
          BY <1>1, <4>1, SMT
        <5> QED BY <4>1, <5>1, <5>2, <5>3, Zenon
      <4>4. CASE k # 0
        <5>1. flatten[k] = g[k]
          BY <4>1, <4>4, <3>6, SMT
        <5>2. k + 1 # 1
          BY <4>1, <4>4, SMT
        <5>3. flatten[k + 1] = flatten[k] \o texts[k + 1]
          BY <4>1, <4>2, <5>2, Zenon
        <5>4. g[k + 1] = g[k] \o texts[k + 1]
          BY <1>4, <4>1, Zenon
        <5> QED BY <4>1, <5>1, <5>3, <5>4, Zenon
      <4> QED BY <4>3, <4>4
    <3> HIDE DEF Same
    <3>7. n \in Same
      <4>1. \A k \in 0 .. n : k \in Same
        BY <1>1, <3>5, <3>6, InductionUpTo
      <4> QED BY <1>1, <4>1, SMT
    <3> QED BY <1>1, <2>2, <3>4, <3>7, SMT DEF Same
  <2> QED BY <2>1, <2>2
<1> QED BY <1>3, <1>4, <1>5
=============================================================================
