---------------------------- MODULE LeastElement ----------------------------
(***************************************************************************)
(* The least-element fact the parsers' and the lookups' proofs rest on:   *)
(* the code scans a table or a list from its start and stops at the first *)
(* match, which the models state as the least index of a set of matches.  *)
(***************************************************************************)
EXTENDS Naturals, WellFoundedInduction, TLAPS

(* A non-empty set of natural numbers has a least element: the first     *)
(* match of a scan from index 1 exists once one index matches.           *)
LEMMA LeastNat ==
    ASSUME NEW T, T \subseteq Nat, T # {}
    PROVE  \E x \in T : \A y \in T : x <= y
<1>1. \E x \in T : \A y \in T : ~(<<y, x>> \in OpToRel(<, Nat))
    BY NatLessThanWellFounded, WFMin
<1>2. PICK x \in T : \A y \in T : ~(<<y, x>> \in OpToRel(<, Nat))
    BY <1>1
<1>3. \A y \in T : x <= y
    <2>. TAKE y \in T
    <2>1. y \in Nat /\ x \in Nat
        OBVIOUS
    <2>2. ~(y < x)
        BY <1>2, <2>1 DEF OpToRel
    <2>. QED
        BY <2>1, <2>2
<1>. QED
    BY <1>3
=============================================================================
