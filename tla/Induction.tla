-------------------------------- MODULE Induction --------------------------------
(***************************************************************************)
(* Induction over the natural numbers for sets of them, which are given by *)
(* what their members satisfy.  The proofs about loops and about functions *)
(* defined by recursion rest on it.                                        *)
(***************************************************************************)
EXTENDS Naturals, WellFoundedInduction, TLAPS

\* A set of natural numbers that is not empty has a least element.
LEMMA LeastOf ==
    ASSUME NEW S, S \subseteq Nat, S # {}
    PROVE  \E x \in S : \A y \in S : x <= y
<1>1. PICK x \in S : \A y \in S : ~(<<y, x>> \in OpToRel(<, Nat))
  BY NatLessThanWellFounded, WFMin
<1>2. ASSUME NEW y \in S PROVE x <= y
  <2>1. x \in Nat /\ y \in Nat
    OBVIOUS
  <2>2. ~(y < x)
    BY <1>1, <2>1 DEF OpToRel
  <2> QED
    BY <2>1, <2>2
<1> QED
  BY <1>2

\* Induction, for a set that is given by what its members satisfy.
LEMMA AllNaturals ==
    ASSUME NEW S, 0 \in S, \A n \in Nat : n \in S => n + 1 \in S
    PROVE  \A n \in Nat : n \in S
<1> DEFINE Out == {n \in Nat : n \notin S}
<1>1. SUFFICES ASSUME Out # {} PROVE FALSE
  OBVIOUS
<1>2. PICK x \in Out : \A y \in Out : x <= y
  BY <1>1, LeastOf
<1>3. x \in Nat /\ x # 0 /\ x \notin S
  OBVIOUS
<1>4. x - 1 \in Nat /\ ~(x <= x - 1) /\ (x - 1) + 1 = x
  BY <1>3
<1>5. x - 1 \in S
  BY <1>2, <1>4
<1> QED
  BY <1>3, <1>4, <1>5

-------------------------------------------------------------------------------
(* A sequence of steps: each value comes from the one before it.             *)

Stepwise(w, b, F, n) == w[0] = b /\ \A k \in 1 .. n : w[k] = F[<<w[k - 1], k>>]

\* There is one for every number of steps.
LEMMA StepsExist ==
    ASSUME NEW S, NEW b \in S, NEW F \in [S \X Nat -> S]
    PROVE  \A n \in Nat : \E w \in [0 .. n -> S] : Stepwise(w, b, F, n)
<1> DEFINE T == {n \in Nat : \E w \in [0 .. n -> S] : Stepwise(w, b, F, n)}
<1>1. 0 \in T
  <2> DEFINE w == [k \in 0 .. 0 |-> b]
  <2>1. w \in [0 .. 0 -> S] /\ Stepwise(w, b, F, 0)
    BY DEF Stepwise
  <2> QED
    BY <2>1
<1>2. ASSUME NEW n \in Nat, n \in T PROVE n + 1 \in T
  <2>1. PICK w \in [0 .. n -> S] : Stepwise(w, b, F, n)
    BY <1>2
  <2> DEFINE last == F[<<w[n], n + 1>>]
             v == [k \in 0 .. n + 1 |-> IF k = n + 1 THEN last ELSE w[k]]
  <2>2. last \in S
    <3>1. n \in 0 .. n /\ w[n] \in S
      BY <2>1
    <3> QED
      BY <3>1
  <2> HIDE DEF last
  <2>3. v \in [0 .. n + 1 -> S]
    BY <2>1, <2>2
  <2>4. ASSUME NEW k \in 1 .. n + 1 PROVE v[k] = F[<<v[k - 1], k>>]
    <3>1. k - 1 \in 0 .. n /\ k - 1 # n + 1
      OBVIOUS
    <3>2. v[k - 1] = w[k - 1]
      BY <3>1
    <3>3. CASE k = n + 1
      <4>1. v[k] = last /\ k - 1 = n
        BY <3>3
      <4> QED
        BY <3>2, <3>3, <4>1 DEF last
    <3>4. CASE k # n + 1
      <4>1. k \in 1 .. n /\ v[k] = w[k]
        BY <3>4
      <4>2. w[k] = F[<<w[k - 1], k>>]
        BY <2>1, <4>1 DEF Stepwise
      <4> QED
        BY <3>2, <4>1, <4>2
    <3> QED
      BY <3>3, <3>4
  <2>5. v[0] = b
    BY <2>1 DEF Stepwise
  <2> HIDE DEF v
  <2>6. Stepwise(v, b, F, n + 1)
    BY <2>4, <2>5 DEF Stepwise
  <2> QED
    BY <2>3, <2>6
<1> HIDE DEF T
<1>3. \A n \in Nat : n \in T
  BY <1>1, <1>2, AllNaturals
<1> QED
  BY <1>3 DEF T

\* All its values are of the kind that the steps keep.
LEMMA StepsType ==
    ASSUME NEW S, NEW b \in S, NEW F \in [S \X Nat -> S], NEW n \in Nat,
           NEW w, Stepwise(w, b, F, n)
    PROVE  \A k \in 0 .. n : w[k] \in S
<1> DEFINE T == {k \in Nat : k <= n => w[k] \in S}
<1>1. 0 \in T
  BY DEF Stepwise
<1>2. ASSUME NEW k \in Nat, k \in T PROVE k + 1 \in T
  <2>1. SUFFICES ASSUME k + 1 <= n PROVE w[k + 1] \in S
    OBVIOUS
  <2>2. k + 1 \in 1 .. n /\ (k + 1) - 1 = k /\ k <= n
    BY <2>1
  <2>3. w[k] \in S
    BY <1>2, <2>2
  <2>4. w[k + 1] = F[<<w[k], k + 1>>]
    BY <2>2 DEF Stepwise
  <2> QED
    BY <2>3, <2>4
<1> HIDE DEF T
<1>3. \A k \in Nat : k \in T
  BY <1>1, <1>2, AllNaturals
<1> QED
  BY <1>3 DEF T
==================================================================================
