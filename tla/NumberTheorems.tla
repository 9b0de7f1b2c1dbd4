--------------------------- MODULE NumberTheorems ---------------------------
(***************************************************************************)
(* Facts about naturals that the proofs of several components need: least  *)
(* elements, and the Min and Max of the community modules.                 *)
(***************************************************************************)
EXTENDS Integers, FiniteSetsExt, WellFoundedInduction, TLAPS

(* A set of naturals that is not empty has a least element.                *)
LEMMA LeastNatural ==
  ASSUME NEW T \in SUBSET Nat, T # {}
  PROVE  \E x \in T : \A y \in T : x <= y
<1>1. IsWellFoundedOn(OpToRel(<, Nat), Nat)
  BY NatLessThanWellFounded
<1>2. PICK x \in T : \A y \in T : ~(<<y, x>> \in OpToRel(<, Nat))
  BY <1>1, WFMin
<1>3. \A y, z \in Nat : y < z => <<y, z>> \in OpToRel(<, Nat)
  BY Zenon DEF OpToRel
<1>4. \A y \in T : ~(y < x)
  BY <1>2, <1>3
<1> QED
  BY <1>4

(* A list of naturals that is not empty has a largest element: otherwise   *)
(* take the shortest of its prefixes that has none.                        *)
LEMMA MaximumExists ==
  ASSUME NEW n \in Nat, NEW f \in [1..n -> Nat], n > 0
  PROVE  \E m \in 1..n : \A i \in 1..n : f[m] >= f[i]
<1> DEFINE T == {k \in Nat : k \in 1..n /\ ~\E m \in 1..k : \A i \in 1..k : f[m] >= f[i]}
<1>1. n \notin T => \E m \in 1..n : \A i \in 1..n : f[m] >= f[i]
  OBVIOUS
<1> SUFFICES ASSUME T # {} PROVE FALSE
  BY <1>1
<1>2. PICK k \in T : \A y \in T : k <= y
  BY LeastNatural
<1>3. k \in 1..n /\ ~\E m \in 1..k : \A i \in 1..k : f[m] >= f[i]
  BY <1>2
<1>4. k # 1
  <2>1. f[1] >= f[1] /\ 1 \in 1..1 /\ \A i \in 1..1 : i = 1
    BY <1>3
  <2> QED
    BY <1>3, <2>1
<1>5. k - 1 \in 1..n /\ k - 1 \notin T
  <2>1. k - 1 \in 1..n /\ ~(k <= k - 1)
    BY <1>3, <1>4
  <2> QED
    BY <1>2, <2>1
<1>6. PICK m \in 1..(k - 1) : \A i \in 1..(k - 1) : f[m] >= f[i]
  BY <1>5
<1> HIDE DEF T
<1>7. /\ k \in 1..k /\ m \in 1..k
      /\ \A i \in 1..k : f[i] \in Nat /\ (i = k \/ i \in 1..(k - 1))
  BY <1>3, <1>6
<1>8. CASE f[k] >= f[m]
  <2>1. ASSUME NEW i \in 1..k PROVE f[k] >= f[i]
    BY <1>6, <1>7, <1>8
  <2> QED
    BY <1>3, <1>7, <2>1
<1>9. CASE ~(f[k] >= f[m])
  <2>1. ASSUME NEW i \in 1..k PROVE f[m] >= f[i]
    BY <1>6, <1>7, <1>9
  <2> QED
    BY <1>3, <1>7, <2>1
<1> QED
  BY <1>8, <1>9

(* The maximum of such a list is one of its elements.                      *)
LEMMA MaxIsNatural ==
  ASSUME NEW n \in Nat, NEW f \in [1..n -> Nat], n > 0
  PROVE  Max({f[i] : i \in 1..n}) \in Nat
<1> DEFINE S == {f[i] : i \in 1..n}
<1>1. \E x \in S : \A y \in S : x >= y
  BY MaximumExists
<1>2. Max(S) \in S
  BY <1>1 DEF Max
<1> QED
  BY <1>2

(* The least of two numbers.                                               *)
LEMMA MinOfTwo ==
  ASSUME NEW a \in Nat, NEW b \in Nat
  PROVE  Min({a, b}) \in {a, b} /\ Min({a, b}) <= a /\ Min({a, b}) <= b
<1>1. \E x \in {a, b} : \A y \in {a, b} : x <= y
  OBVIOUS
<1> QED
  BY <1>1 DEF Min

(* The least of a set of numbers, given one that is.                       *)
LEMMA MinIs ==
  ASSUME NEW S \in SUBSET Nat, NEW m \in S, \A y \in S : m <= y
  PROVE  Min(S) = m
<1>1. \E x \in S : \A y \in S : x <= y
  OBVIOUS
<1>2. Min(S) \in S /\ \A y \in S : Min(S) <= y
  BY <1>1 DEF Min
<1>3. Min(S) \in Nat /\ m \in Nat /\ Min(S) <= m /\ m <= Min(S)
  BY <1>2
<1> QED
  BY <1>3
=============================================================================
