------------------------------- MODULE Induction -------------------------------
(***************************************************************************)
(* Induction over the natural numbers with sets for predicates, so that a  *)
(* proof about a recursive function can cite it.  It comes from the        *)
(* well-foundedness of the strict order on finite sets: 1..m is a part of  *)
(* 1..n exactly when m is at most n.                                       *)
(***************************************************************************)
EXTENDS Integers, FiniteSetTheorems, TLAPS

\* A set of natural numbers has a least element.
LEMMA LeastNatural ==
  ASSUME NEW T \in SUBSET Nat, T # {}
  PROVE  \E n \in T : \A m \in T : n <= m
<1>1. PICK F : F = {1..n : n \in T}
  OBVIOUS
<1>2. F \subseteq FiniteSubsetsOf(Nat) /\ F # {}
  <2>1. \A n \in T : IsFiniteSet(1..n)
    BY FS_Interval
  <2>2. \A n \in T : 1..n \in SUBSET Nat
    OBVIOUS
  <2>3. \A n \in T : 1..n \in FiniteSubsetsOf(Nat)
    BY <2>1, <2>2 DEF FiniteSubsetsOf
  <2> QED  BY <1>1, <2>3
<1>3. PICK A \in F : \A B \in F : ~(<<B, A>> \in StrictSubsetOrdering(Nat))
  BY <1>2, FS_StrictSubsetOrderingWellFounded, WFMin
<1>4. PICK n \in T : A = 1..n
  BY <1>1, <1>3
<1>5. ASSUME NEW m \in T, ~(n <= m) PROVE FALSE
  <2>1. 1..m \in F /\ 1..m \subseteq 1..n /\ n \in 1..n /\ n \notin 1..m
    BY <1>1, <1>5
  <2>2. <<1..m, A>> \in StrictSubsetOrdering(Nat)
    BY <1>4, <2>1 DEF StrictSubsetOrdering
  <2> QED  BY <1>3, <2>1, <2>2
<1> QED  BY <1>5

\* What holds of 0, and of n + 1 if it holds of n, holds of all.
LEMMA InductionOnNat ==
  ASSUME NEW T, 0 \in T, \A n \in Nat : n \in T => n + 1 \in T
  PROVE  \A n \in Nat : n \in T
<1>1. SUFFICES ASSUME Nat \ T # {} PROVE FALSE
  OBVIOUS
<1>2. PICK n \in Nat \ T : \A m \in Nat \ T : n <= m
  BY <1>1, LeastNatural
<1>3. n # 0 /\ n - 1 \in Nat /\ ~(n <= n - 1) /\ (n - 1) + 1 = n
  BY <1>2
<1>4. n - 1 \in T
  BY <1>2, <1>3
<1> QED  BY <1>2, <1>3, <1>4

\* The same up to a bound.
LEMMA InductionTo ==
  ASSUME NEW T, NEW b \in Nat, 0 \in T, \A n \in Nat : n < b /\ n \in T => n + 1 \in T
  PROVE  \A n \in 0..b : n \in T
<1>1. PICK U : U = {n \in Nat : n <= b => n \in T}
  OBVIOUS
<1>2. 0 \in U /\ \A n \in Nat : n \in U => n + 1 \in U
  BY <1>1
<1>3. \A n \in Nat : n \in U
  BY <1>2, InductionOnNat
<1> QED  BY <1>1, <1>3

\* A set of natural numbers with an upper bound has a greatest element.
LEMMA GreatestNatural ==
  ASSUME NEW b \in Nat, NEW T \in SUBSET (0..b), T # {}
  PROVE  \E n \in T : \A m \in T : m <= n
<1>1. PICK U : U = {b - n : n \in T}
  OBVIOUS
<1>2. U \in SUBSET Nat /\ U # {}
  <2>1. \A n \in T : b - n \in Nat /\ b - n \in U
    BY <1>1
  <2> QED  BY <1>1, <2>1
<1>3. PICK x \in U : \A y \in U : x <= y
  BY <1>2, LeastNatural
<1>4. PICK n \in T : x = b - n
  BY <1>1, <1>3
<1>5. \A m \in T : b - m \in U /\ m \in Int /\ n \in Int
  BY <1>1, <1>4
<1>6. \A m \in T : b - n <= b - m
  BY <1>3, <1>4, <1>5
<1> QED  BY <1>4, <1>5, <1>6
=============================================================================
