----------------------------- MODULE FiniteOrders -----------------------------
(***************************************************************************)
(* A fact about finite sets that the proofs about row locks rest on: where *)
(* every element has a number, one of them has the greatest.               *)
(***************************************************************************)
EXTENDS Integers, FiniteSetTheorems, TLAPS

\* The strict subsets of a finite set are well-founded, so that some element has
\* a smallest set of elements above it, which can only be empty.
LEMMA GreatestExists ==
  ASSUME NEW D, IsFiniteSet(D), D # {},
         NEW f, \A r \in D : f[r] \in Nat
  PROVE  \E m \in D : \A s \in D : f[s] <= f[m]
<1> DEFINE Above(r) == {s \in D : f[r] < f[s]}
<1> DEFINE Tops == {Above(r) : r \in D}
<1>1. Tops \subseteq FiniteSubsetsOf(D) /\ Tops # {}
  <2>1. FiniteSubsetsOf(D) = SUBSET D
    BY FS_FiniteSubsetsOfFinite
  <2>2. Tops \subseteq SUBSET D
    OBVIOUS
  <2>3. Tops # {}
    OBVIOUS
  <2> QED
    BY <2>1, <2>2, <2>3
<1>2. IsWellFoundedOn(StrictSubsetOrdering(D), FiniteSubsetsOf(D))
  BY FS_StrictSubsetOrderingWellFounded
<1> HIDE DEF Tops
<1>3. PICK T \in Tops : \A U \in Tops : <<U, T>> \notin StrictSubsetOrdering(D)
  BY <1>1, <1>2, WFMin
<1> USE DEF Tops
<1>4. PICK m \in D : T = Above(m)
  OBVIOUS
<1>5. SUFFICES ASSUME NEW s \in D, ~(f[s] <= f[m]) PROVE FALSE
  OBVIOUS
<1>6. s \in Above(m) /\ s \notin Above(s)
  BY <1>5
<1>7. Above(s) \subseteq Above(m)
  BY <1>5
<1>8. <<Above(s), T>> \in StrictSubsetOrdering(D)
  BY <1>4, <1>6, <1>7 DEF StrictSubsetOrdering
<1> QED
  BY <1>3, <1>8
=============================================================================
