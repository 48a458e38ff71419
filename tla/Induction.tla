------------------------------ MODULE Induction ------------------------------
(****************************************************************************)
(* Facts of the natural numbers the other proofs cite: a set of them has a  *)
(* least element, and induction, stated for a set, with what it gives of    *)
(* recursive functions.  The library's induction theorems take a predicate  *)
(* or an operator as a parameter; these take a set and a function.          *)
(****************************************************************************)
EXTENDS Naturals, TLAPS, FiniteSetTheorems, WellFoundedInduction

\* The intervals 0 .. x, ordered by inclusion, have a smallest one.
LEMMA LeastElement ==
  ASSUME NEW S \in SUBSET Nat, S # {}
  PROVE  \E x \in S : \A y \in S : x <= y
  <1> DEFINE T == {0 .. x : x \in S}
  <1>1. IsWellFoundedOn(StrictSubsetOrdering(Nat), FiniteSubsetsOf(Nat))
    BY FS_StrictSubsetOrderingWellFounded
  <1>2. \A x \in Nat : 0 .. x \in FiniteSubsetsOf(Nat)
    BY FS_Interval DEF FiniteSubsetsOf
  <1>3. T \subseteq FiniteSubsetsOf(Nat) /\ T # {}
    BY <1>2
  <1> HIDE DEF T
  <1>4. PICK t \in T : \A u \in T : <<u, t>> \notin StrictSubsetOrdering(Nat)
    BY <1>1, <1>3, WFMin
  <1> USE DEF T
  <1>5. PICK x \in S : t = 0 .. x
    BY <1>4
  <1>6. \A y \in S : <<0 .. y, 0 .. x>> \notin StrictSubsetOrdering(Nat)
    BY <1>4, <1>5
  <1>7. ASSUME NEW y \in S, y < x
        PROVE  FALSE
    <2>1. 0 .. y \in SUBSET Nat /\ 0 .. x \in SUBSET Nat
      OBVIOUS
    <2>2. 0 .. y \subseteq 0 .. x /\ x \in 0 .. x /\ x \notin 0 .. y
      BY <1>7
    <2>3. <<0 .. y, 0 .. x>> \in StrictSubsetOrdering(Nat)
      BY <2>1, <2>2 DEF StrictSubsetOrdering
    <2> QED BY <1>6, <2>3
  <1>8. \A y \in S : x <= y
    BY <1>7
  <1> QED BY <1>8

\* A set that holds 0, and n + 1 whenever it holds n, holds every number.
LEMMA SetInduction ==
  ASSUME NEW L, 0 \in L, \A n \in Nat : n \in L => n + 1 \in L
  PROVE  Nat \subseteq L
  <1>1. SUFFICES ASSUME Nat \ L # {} PROVE FALSE
    OBVIOUS
  <1>2. PICK x \in Nat \ L : \A y \in Nat \ L : x <= y
    BY <1>1, LeastElement
  <1>3. x # 0 /\ x - 1 \in Nat
    BY <1>2
  <1>4. x - 1 \in L
    BY <1>2, <1>3
  <1> QED BY <1>2, <1>3, <1>4

\* The same up to n.
LEMMA IntervalInduction ==
  ASSUME NEW n \in Nat, NEW L, 0 \in L, \A i \in 1 .. n : i - 1 \in L => i \in L
  PROVE  0 .. n \subseteq L
  <1> DEFINE M == {i \in Nat : i <= n => i \in L}
  <1>1. 0 \in M
    OBVIOUS
  <1>2. ASSUME NEW i \in Nat, i \in M
        PROVE  i + 1 \in M
    <2>1. i + 1 <= n => i + 1 \in 1 .. n /\ (i + 1) - 1 = i
      OBVIOUS
    <2> QED BY <1>2, <2>1
  <1> HIDE DEF M
  <1>3. Nat \subseteq M
    BY <1>1, <1>2, SetInduction
  <1> QED BY <1>3 DEF M

\* f starts from x0, and each value of it comes from the one before.
Iterates(f, n, x0, G) ==
    f[0] = x0 /\ \A i \in 1 .. n : f[i] = G[<<i, f[i - 1]>>]

LEMMA Iteration ==
  ASSUME NEW n \in Nat, NEW x0, NEW G
  PROVE  \E f : Iterates(f, n, x0, G)
  <1> DEFINE Runs(m, f) ==
               f = [i \in 0 .. m |-> IF i = 0 THEN x0 ELSE G[<<i, f[i - 1]>>]]
             L == {m \in Nat : \E f : Runs(m, f)}
  <1>1. 0 \in L
    <2>1. Runs(0, [i \in 0 .. 0 |-> x0])
      OBVIOUS
    <2> QED BY <2>1
  <1>2. ASSUME NEW m \in Nat, m \in L
        PROVE  m + 1 \in L
    <2>1. PICK f : Runs(m, f)
      BY <1>2
    <2> DEFINE g == [i \in 0 .. m + 1 |-> IF i = m + 1 THEN G[<<i, f[m]>>] ELSE f[i]]
    <2>2. \A i \in 0 .. m : g[i] = f[i]
      OBVIOUS
    <2>3. \A i \in 0 .. m : f[i] = IF i = 0 THEN x0 ELSE G[<<i, f[i - 1]>>]
      BY <2>1
    <2>4. ASSUME NEW i \in 0 .. m + 1
          PROVE  g[i] = IF i = 0 THEN x0 ELSE G[<<i, g[i - 1]>>]
      <3>1. CASE i = m + 1
        BY <3>1, <2>2
      <3>2. CASE i # m + 1
        <4>1. i \in 0 .. m /\ (i # 0 => i - 1 \in 0 .. m)
          BY <3>2
        <4> HIDE DEF g
        <4> QED BY <4>1, <2>2, <2>3
      <3> QED BY <3>1, <3>2
    <2>5. g = [i \in 0 .. m + 1 |-> g[i]]
      OBVIOUS
    <2> HIDE DEF g
    <2>6. Runs(m + 1, g)
      BY <2>4, <2>5
    <2> QED BY <2>6
  <1> HIDE DEF L
  <1>3. PICK f : Runs(n, f)
    <2>1. n \in L
      BY <1>1, <1>2, SetInduction
    <2> QED BY <2>1 DEF L
  <1>4. \A i \in 0 .. n : f[i] = IF i = 0 THEN x0 ELSE G[<<i, f[i - 1]>>]
    BY <1>3
  <1>5. f[0] = x0
    <2>1. 0 \in 0 .. n
      OBVIOUS
    <2> QED BY <1>4, <2>1
  <1>6. \A i \in 1 .. n : i \in 0 .. n /\ i # 0
    OBVIOUS
  <1>7. \A i \in 1 .. n : f[i] = G[<<i, f[i - 1]>>]
    BY <1>4, <1>6
  <1> QED BY <1>5, <1>7 DEF Iterates
==============================================================================
