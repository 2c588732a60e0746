----------------------------- MODULE Recursion ------------------------------
(***************************************************************************)
(* Places of sequences and of loops: a set of them has a first and a last, *)
(* and a function that is defined from its value one place before exists.  *)
(* With the first place at which it would fail, these stand for proofs by  *)
(* induction in the modules that extend this one.                          *)
(***************************************************************************)
EXTENDS Naturals, WellFoundedInduction, TLAPS

(* A set of places has a first.                                            *)
LEMMA FirstExists ==
  ASSUME NEW S \in SUBSET Nat, S # {}
  PROVE  \E s \in S : \A t \in S : s <= t
<1>1. PICK s \in S : \A t \in S : ~ (<<t, s>> \in OpToRel(<, Nat))
  BY NatLessThanWellFounded, WFMin
<1>2. \A t \in S : s <= t
  <2>. SUFFICES ASSUME NEW t \in S, ~ (s <= t) PROVE FALSE
    OBVIOUS
  <2>1. t \in Nat /\ s \in Nat /\ t < s
    OBVIOUS
  <2>2. <<t, s>> \in Nat \X Nat /\ <<t, s>>[1] = t /\ <<t, s>>[2] = s
    BY <2>1
  <2>3. <<t, s>> \in OpToRel(<, Nat)
    BY <2>1, <2>2 DEF OpToRel
  <2>. QED
    BY <1>1, <2>3
<1>. QED
  BY <1>2

(* A set of places up to n has a last.                                     *)
LEMMA LastExists ==
  ASSUME NEW n \in Nat, NEW S \in SUBSET (1..n), S # {}
  PROVE  \E s \in S : \A t \in S : t <= s
<1>. DEFINE T == {n - s : s \in S}
<1>1. T \in SUBSET Nat /\ T # {}
  <2>1. \A s \in S : s \in Nat /\ n - s \in Nat
    OBVIOUS
  <2>2. T # {}
    OBVIOUS
  <2>. QED
    BY <2>1, <2>2
<1>. HIDE DEF T
<1>2. PICK t \in T : \A u \in T : t <= u
  BY <1>1, FirstExists
<1>3. PICK s \in S : t = n - s
  BY DEF T
<1>4. \A u \in S : u <= s
  <2>. SUFFICES ASSUME NEW u \in S PROVE u <= s
    OBVIOUS
  <2>1. n - u \in T
    BY DEF T
  <2>2. n - s <= n - u /\ s \in Nat /\ u \in Nat
    BY <1>2, <1>3, <2>1
  <2>. QED
    BY <2>2
<1>. QED
  BY <1>4

(* f is the function that has a at first, and afterwards what h makes of   *)
(* its value one place before.                                             *)
Follows(f, n, a, h) == f = [i \in 0 .. n |-> IF i = 0 THEN a ELSE h[i][f[i - 1]]]

(* The first place up to which it does not would have one before it.       *)
LEMMA RecursionExists ==
  ASSUME NEW S, NEW a \in S, NEW N \in Nat, NEW h \in [1 .. N -> [S -> S]]
  PROVE  \E f \in [0 .. N -> S] : Follows(f, N, a, h)
<1>. DEFINE Bad == {n \in 0 .. N : ~ \E f \in [0 .. n -> S] : Follows(f, n, a, h)}
<1>1. SUFFICES Bad = {}
  BY N \in 0 .. N
<1>2. SUFFICES ASSUME Bad # {} PROVE FALSE
  OBVIOUS
<1>3. Bad \in SUBSET Nat
  OBVIOUS
<1>. HIDE DEF Bad
<1>4. PICK n \in Bad : \A m \in Bad : n <= m
  BY <1>2, <1>3, FirstExists
<1>5. n \in 0 .. N /\ ~ \E f \in [0 .. n -> S] : Follows(f, n, a, h)
  BY DEF Bad
<1>6. CASE n = 0
  <2>. DEFINE f == [i \in 0 .. 0 |-> a]
  <2>1. f \in [0 .. 0 -> S] /\ f = [i \in 0 .. 0 |-> IF i = 0 THEN a ELSE h[i][f[i - 1]]]
    OBVIOUS
  <2>. QED
    BY <1>5, <1>6, <2>1 DEF Follows
<1>7. CASE n # 0
  <2>1. n - 1 \in 0 .. N /\ n - 1 \notin Bad
    BY <1>4, <1>5, <1>7
  <2>2. PICK f \in [0 .. n - 1 -> S] : Follows(f, n - 1, a, h)
    BY <2>1 DEF Bad
  <2>. DEFINE g == [i \in 0 .. n |-> IF i = n THEN h[n][f[n - 1]] ELSE f[i]]
  <2>3. h[n] \in [S -> S] /\ f[n - 1] \in S
    BY <1>5, <1>7
  <2>4. g \in [0 .. n -> S]
    BY <1>5, <2>3
  <2>5. \A i \in 0 .. n - 1 : f[i] = IF i = 0 THEN a ELSE h[i][f[i - 1]]
    BY <2>2 DEF Follows
  <2>6. \A i \in 0 .. n : g[i] = IF i = n THEN h[n][f[n - 1]] ELSE f[i]
    OBVIOUS
  <2>. HIDE DEF g
  <2>7. ASSUME NEW i \in 0 .. n PROVE g[i] = IF i = 0 THEN a ELSE h[i][g[i - 1]]
    <3>1. CASE i = n
      <4>1. n - 1 \in 0 .. n /\ n - 1 # n
        BY <1>5, <1>7
      <4>2. g[n - 1] = f[n - 1]
        BY <2>6, <4>1
      <4>. QED
        BY <1>7, <2>6, <3>1, <4>2
    <3>2. CASE i # n
      <4>1. i \in 0 .. n - 1
        BY <1>5, <3>2
      <4>2. g[i] = f[i]
        BY <2>6, <3>2
      <4>3. i # 0 => i - 1 \in 0 .. n /\ i - 1 # n
        BY <1>5, <3>2
      <4>4. i # 0 => g[i - 1] = f[i - 1]
        BY <2>6, <4>3
      <4>. QED
        BY <2>5, <4>1, <4>2, <4>4
    <3>. QED
      BY <3>1, <3>2
  <2>8. Follows(g, n, a, h)
    BY <2>4, <2>7 DEF Follows
  <2>. QED
    BY <1>5, <2>4, <2>8
<1>. QED
  BY <1>6, <1>7

(* What holds at the first place, and at a place if it does at the one     *)
(* before, holds at every place.                                           *)
LEMMA EveryPlace ==
  ASSUME NEW N \in Nat, NEW G, 0 \in G,
         \A i \in 1 .. N : i - 1 \in G => i \in G
  PROVE  \A i \in 0 .. N : i \in G
<1>. DEFINE Bad == {i \in 0 .. N : i \notin G}
<1>1. SUFFICES ASSUME Bad # {} PROVE FALSE
  OBVIOUS
<1>2. Bad \in SUBSET Nat
  OBVIOUS
<1>. HIDE DEF Bad
<1>3. PICK i \in Bad : \A j \in Bad : i <= j
  BY <1>1, <1>2, FirstExists
<1>4. i \in 0 .. N /\ i \notin G /\ i # 0
  BY DEF Bad
<1>5. i - 1 \in 0 .. N /\ i - 1 \notin Bad
  BY <1>3, <1>4
<1>. QED
  BY <1>4, <1>5 DEF Bad

LEMMA StaysIn ==
  ASSUME NEW N \in Nat, NEW S, NEW w, w[0] \in S,
         \A i \in 1 .. N : w[i - 1] \in S => w[i] \in S
  PROVE  \A i \in 0 .. N : w[i] \in S
<1>. DEFINE G == {i \in 0 .. N : w[i] \in S}
<1>1. 0 \in G /\ \A i \in 1 .. N : i - 1 \in G => i \in G
  OBVIOUS
<1>. HIDE DEF G
<1>2. \A i \in 0 .. N : i \in G
  BY <1>1, EveryPlace
<1>. QED
  BY <1>2 DEF G
=============================================================================
