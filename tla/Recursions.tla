----------------------------- MODULE Recursions -----------------------------
(***************************************************************************)
(* Induction over numbers, stated with a set in the place of a predicate,  *)
(* and what it says of functions that are defined by recursion on their    *)
(* argument: that they exist.                                              *)
(***************************************************************************)
EXTENDS Naturals, WellFoundedInduction, TLAPS

(* A set of numbers that is not empty has a least one. *)
LEMMA LeastNumber ==
    ASSUME NEW B \in SUBSET Nat, B # {}
    PROVE  \E x \in B : \A y \in B : x <= y
<1> DEFINE R == OpToRel(<, Nat)
<1>1. IsWellFoundedOn(R, Nat)
  BY NatLessThanWellFounded
<1>2. PICK x \in B : \A y \in B : ~ (<<y, x>> \in R)
  <2> HIDE DEF R
  <2> QED BY <1>1, WFMin
<1>3. ASSUME NEW y \in B, ~(x <= y) PROVE FALSE
  <2>1. y < x /\ x \in Nat /\ y \in Nat
    BY <1>3
  <2>2. <<y, x>> \in R
    BY <2>1 DEF OpToRel
  <2> HIDE DEF R
  <2> QED BY <1>2, <2>2
<1> QED BY <1>3

(* A set of numbers with 0 and with the successors of its elements has every number. *)
LEMMA SetInduction ==
    ASSUME NEW T, 0 \in T, \A n \in Nat : n \in T => n + 1 \in T
    PROVE  Nat \subseteq T
<1> DEFINE B == Nat \ T
<1>1. SUFFICES ASSUME B # {} PROVE FALSE
  OBVIOUS
<1>2. PICK x \in B : \A y \in B : x <= y
  BY <1>1, LeastNumber
<1>3. x \in Nat /\ x # 0 /\ x - 1 \in Nat /\ ~(x <= x - 1)
  OBVIOUS
<1>4. x - 1 \in T
  BY <1>2, <1>3
<1> QED BY <1>3, <1>4

IsRecursion(f, base, g, n) == f[0] = base /\ \A i \in 1 .. n : f[i] = g[i][f[i - 1]]

(* A recursion over 1 .. n with a value in X at every step is a function. *)
LEMMA RecursionExists ==
    ASSUME NEW X, NEW base \in X, NEW n \in Nat, NEW g \in [1 .. n -> [X -> X]]
    PROVE  \E f \in [0 .. n -> X] : IsRecursion(f, base, g, n)
<1> DEFINE Upto(f, k) == f[0] = base /\ \A i \in 1 .. k : f[i] = g[i][f[i - 1]]
           T == {k \in Nat : k <= n => \E f \in [0 .. k -> X] : Upto(f, k)}
<1>1. 0 \in T
  <2> DEFINE f == [i \in 0 .. 0 |-> base]
  <2>1. f \in [0 .. 0 -> X] /\ Upto(f, 0)
    OBVIOUS
  <2> HIDE DEF f
  <2> QED BY <2>1
<1>2. ASSUME NEW k \in Nat, k \in T PROVE k + 1 \in T
  <2>1. SUFFICES ASSUME k + 1 <= n PROVE \E f \in [0 .. k + 1 -> X] : Upto(f, k + 1)
    OBVIOUS
  <2>2. PICK f \in [0 .. k -> X] : Upto(f, k)
    BY <1>2, <2>1
  <2>3. f[k] \in X /\ g[k + 1] \in [X -> X] /\ g[k + 1][f[k]] \in X
    BY <2>1
  <2> DEFINE h == [i \in 0 .. k + 1 |-> IF i = k + 1 THEN g[k + 1][f[k]] ELSE f[i]]
  <2>4. h \in [0 .. k + 1 -> X] /\ h[0] = base
    BY <2>2, <2>3
  <2>5. ASSUME NEW i \in 1 .. k + 1 PROVE h[i] = g[i][h[i - 1]]
    <3>1. i - 1 \in 0 .. k /\ i - 1 # k + 1 /\ i - 1 \in 0 .. k + 1 /\ i \in 0 .. k + 1
      BY <2>5
    <3>2. h[i - 1] = f[i - 1]
      BY <3>1
    <3>3. CASE i = k + 1
      <4>1. h[i] = g[k + 1][f[k]] /\ i - 1 = k
        BY <3>1, <3>3
      <4> HIDE DEF h
      <4> QED BY <3>2, <3>3, <4>1
    <3>4. CASE i # k + 1
      <4>1. h[i] = f[i] /\ i \in 1 .. k
        BY <3>1, <3>4
      <4> HIDE DEF h
      <4> QED BY <3>2, <4>1, <2>2
    <3> QED BY <3>3, <3>4
  <2> HIDE DEF h
  <2> QED BY <2>4, <2>5
<1> HIDE DEF T
<1>3. Nat \subseteq T
  BY <1>1, <1>2, SetInduction
<1> QED BY <1>3 DEF T, IsRecursion

=============================================================================
