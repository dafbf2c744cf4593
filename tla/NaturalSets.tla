---------------------------- MODULE NaturalSets ----------------------------
(***************************************************************************)
(* Least and greatest elements of sets of natural numbers, which the other *)
(* proofs use where they would otherwise need induction.                   *)
(***************************************************************************)
EXTENDS Integers, WellFoundedInduction, TLAPS

\* A set of naturals that is not empty has a least element.
LEMMA LeastExists ==
    ASSUME NEW S, S \subseteq Nat, S # {}
    PROVE  \E m \in S : \A n \in S : m <= n
<1>1. PICK m \in S : \A n \in S : ~(<<n, m>> \in OpToRel(<, Nat))
  BY NatLessThanWellFounded, WFMin, Zenon
<1>2. ASSUME NEW n \in S PROVE m <= n
  <2>1. <<n, m>> \in Nat \X Nat /\ <<n, m>>[1] = n /\ <<n, m>>[2] = m
    OBVIOUS
  <2>2. ~(n < m)
    BY <1>1, <2>1 DEF OpToRel
  <2> QED BY <2>2
<1> QED BY <1>2

\* One that has an upper bound has a greatest element: its least upper bound.
LEMMA BoundedGreatest ==
    ASSUME NEW S, S \subseteq Nat, S # {}, NEW b \in Nat, \A n \in S : n <= b
    PROVE  \E m \in S : \A n \in S : n <= m
<1> DEFINE U == {u \in Nat : \A n \in S : n <= u}
<1>1. PICK m \in U : \A u \in U : m <= u
  <2>1. U \subseteq Nat /\ b \in U
    OBVIOUS
  <2> HIDE DEF U
  <2> QED BY <2>1, LeastExists, Zenon
<1>2. m \in S
  <2> SUFFICES ASSUME m \notin S PROVE FALSE
    OBVIOUS
  <2>1. PICK n \in S : TRUE
    OBVIOUS
  <2>2. m \in Nat /\ n <= m /\ n # m /\ n \in Nat
    OBVIOUS
  <2>3. m - 1 \in Nat /\ m - 1 < m
    BY <2>2
  <2>4. \A x \in S : x \in Nat /\ x <= m /\ x # m
    OBVIOUS
  <2>5. \A x \in S : x <= m - 1
    BY <2>2, <2>4
  <2> QED BY <1>1, <2>3, <2>5
<1> QED BY <1>1, <1>2
=============================================================================
