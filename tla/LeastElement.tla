---------------------------- MODULE LeastElement ----------------------------
(***************************************************************************)
(* The least element of a set of naturals: what the loops that search a    *)
(* table from its start find.                                              *)
(***************************************************************************)
EXTENDS Integers, FiniteSetsExt, WellFoundedInduction, TLAPS

(* A nonempty set of naturals has a least element, which Min denotes. *)
LEMMA MinNat ==
    ASSUME NEW T \in SUBSET Nat, T # {}
    PROVE  Min(T) \in T /\ \A y \in T : Min(T) <= y
<1> DEFINE R == OpToRel(<, Nat)
<1>1. IsWellFoundedOn(R, Nat)
  BY NatLessThanWellFounded, Zenon
<1>2. PICK x \in T : \A y \in T : ~(<<y, x>> \in R)
  <2> HIDE DEF R
  <2> QED BY <1>1, WFMin
<1>3. \A y \in T : x <= y
  <2> SUFFICES ASSUME NEW y \in T, y < x PROVE FALSE
    OBVIOUS
  <2> QED BY <1>2 DEF OpToRel
<1> QED BY <1>3 DEF Min

(* An element that is a lower bound is the least one. *)
LEMMA MinIs ==
    ASSUME NEW T \in SUBSET Nat, NEW x \in T, \A y \in T : x <= y
    PROVE  Min(T) = x
<1>1. Min(T) \in T /\ Min(T) <= x
  BY MinNat
<1>2. x <= Min(T) /\ Min(T) \in Nat /\ x \in Nat
  BY <1>1
<1>3. \A m, n \in Nat : m <= n /\ n <= m => m = n
  OBVIOUS
<1> QED BY <1>1, <1>2, <1>3
=============================================================================
