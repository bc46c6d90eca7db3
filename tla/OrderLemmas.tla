----------------------------- MODULE OrderLemmas -----------------------------
(* Least and greatest numbers, which take the place of induction in the proofs *)
(* about positions of lists and queues.                                        *)
EXTENDS Naturals, WellFoundedInduction, TLAPS

\* Of some numbers one is the least: there is a first route to resolve.
LEMMA LeastOf ==
    ASSUME NEW T \in SUBSET Nat, T # {}
    PROVE  \E x \in T : \A y \in T : x <= y
<1> DEFINE R == {ss \in Nat \X Nat : ss[1] < ss[2]}
<1>1. IsWellFoundedOn(R, Nat)
    BY NatLessThanWellFounded DEF OpToRel
<1> HIDE DEF R
<1>2. \A x, y \in Nat : y < x => <<y, x>> \in R
    BY DEF R
<1>3. PICK x \in T : \A y \in T : ~(<<y, x>> \in R)
    BY <1>1, WFMin
<1>4. \A y \in T : ~(y < x)
    BY <1>2, <1>3
<1>5. \A y \in T : x <= y
    BY <1>4
<1> QED BY <1>5

\* Of some numbers up to n one is the greatest: there is a last message in a queue.
LEMMA GreatestOf ==
    ASSUME NEW T \in SUBSET Nat, T # {}, NEW n \in Nat, \A x \in T : x <= n
    PROVE  \E x \in T : \A y \in T : y <= x
<1> DEFINE S == {k \in Nat : \E x \in T : x + k = n}
<1>1. S # {}
    <2>1. PICK x \in T : TRUE
        OBVIOUS
    <2>2. x \in Nat /\ n - x \in Nat /\ x + (n - x) = n
        OBVIOUS
    <2> QED BY <2>2
<1>2. PICK k \in S : \A j \in S : k <= j
    <2> HIDE DEF S
    <2>1. S \in SUBSET Nat
        BY DEF S
    <2> QED BY <1>1, <2>1, LeastOf
<1>3. PICK x \in T : x + k = n
    BY <1>2
<1>4. ASSUME NEW y \in T PROVE y <= x
    <2>1. y \in Nat /\ n - y \in Nat /\ y + (n - y) = n
        OBVIOUS
    <2>2. k <= n - y
        BY <1>2, <2>1
    <2> QED BY <1>3, <2>1, <2>2
<1> QED BY <1>4
=============================================================================
