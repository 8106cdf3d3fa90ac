-------------------------- MODULE FiniteInduction --------------------------
(***************************************************************************)
(* Induction over numbers and over the subsets of a finite set, stated     *)
(* with sets: the facts to be carried along are the members of a set, so   *)
(* that no operator has to be instantiated.  The proofs about folds and    *)
(* about counting cite these.                                              *)
(***************************************************************************)
EXTENDS Integers, Sequences, FiniteSets, FiniteSetTheorems, WellFoundedInduction, TLAPS

\* A set of naturals that is not empty has a least member.
LEMMA LeastOf ==
  ASSUME NEW T \in SUBSET Nat, T # {}
  PROVE  \E x \in T : \A y \in T : x <= y
<1> DEFINE R == OpToRel(<, Nat)
<1>1. IsWellFoundedOn(R, Nat)
  BY NatLessThanWellFounded
<1>2. \A x, y \in Nat : x < y => <<x, y>> \in R
  BY DEF OpToRel
<1> HIDE DEF R
<1>3. PICK x \in T : \A y \in T : ~(<<y, x>> \in R)
  BY <1>1, WFMin
<1>4. \A y \in T : ~(y < x) /\ y \in Nat /\ x \in Nat
  BY <1>2, <1>3
<1> QED BY <1>4

\* A set of naturals that has 0 and, with a number, the next one has them all.
LEMMA Levels ==
  ASSUME NEW N, 0 \in N, \A n \in Nat : n \in N => n + 1 \in N
  PROVE  \A n \in Nat : n \in N
<1> DEFINE Bad == Nat \ N
<1>1. ASSUME Bad # {} PROVE FALSE
  <2>1. Bad \in SUBSET Nat
    OBVIOUS
  <2> HIDE DEF Bad
  <2>2. PICK n \in Bad : \A m \in Bad : n <= m
    BY <1>1, <2>1, LeastOf
  <2> USE DEF Bad
  <2>3. n # 0 /\ n - 1 \in Nat /\ ~(n <= n - 1)
    BY <2>2
  <2> QED BY <2>2, <2>3
<1> QED BY <1>1

\* The subsets of S of at most n elements.
UpTo(S, n) == {T \in SUBSET S : Cardinality(T) <= n}

\* They are none but {} at first, all of them at last, and each step adds sets
\* that are of the one before without any of their elements.
LEMMA UpToIs ==
  ASSUME NEW S, IsFiniteSet(S)
  PROVE  /\ UpTo(S, 0) = {{}} /\ UpTo(S, Cardinality(S)) = SUBSET S /\ Cardinality(S) \in Nat
         /\ \A n \in Nat : UpTo(S, n) \subseteq UpTo(S, n + 1)
         /\ \A n \in Nat : \A T \in UpTo(S, n + 1) : \A x \in T : T \ {x} \in UpTo(S, n)
<1>1. \A T \in SUBSET S : IsFiniteSet(T) /\ Cardinality(T) \in Nat
                         /\ Cardinality(T) <= Cardinality(S)
                          /\ (Cardinality(T) = 0 <=> T = {})
  BY FS_Subset, FS_CardinalityType, FS_EmptySet
<1>2. Cardinality(S) \in Nat
  BY FS_CardinalityType
<1>3. ASSUME NEW n \in Nat, NEW T \in UpTo(S, n + 1), NEW x \in T
      PROVE  T \ {x} \in UpTo(S, n)
  <2>1. IsFiniteSet(T) /\ Cardinality(T) \in Nat /\ Cardinality(T) <= n + 1 /\ T \ {x} \in SUBSET S
    BY <1>1, <1>3 DEF UpTo
  <2>2. Cardinality(T \ {x}) = Cardinality(T) - 1
    BY <2>1, FS_RemoveElement
  <2> QED BY <2>1, <2>2 DEF UpTo
<1>4. UpTo(S, 0) = {{}}
  BY <1>1 DEF UpTo
<1>5. UpTo(S, Cardinality(S)) = SUBSET S
  BY <1>1 DEF UpTo
<1>6. \A n \in Nat : UpTo(S, n) \subseteq UpTo(S, n + 1)
  BY <1>1 DEF UpTo
<1> QED BY <1>2, <1>3, <1>4, <1>5, <1>6

\* D has a set if it has that set without a certain element.
Climbs(S, D) ==
  /\ {} \in D
  /\ \A T \in SUBSET S : T # {} => \E x \in T : T \ {x} \in D => T \in D

\* A property of {} that a set has when it has it without the chosen element is one of
\* every subset of a finite set.
LEMMA SubsetInduction ==
  ASSUME NEW S, IsFiniteSet(S), NEW D,
         Climbs(S, D)
  PROVE  \A T \in SUBSET S : T \in D
<1> DEFINE N == {n \in Nat : UpTo(S, n) \subseteq D}
<1>1. 0 \in N
  <2>1. UpTo(S, 0) = {{}} /\ {} \in D
    BY UpToIs DEF Climbs
  <2> QED BY <2>1
<1>2. ASSUME NEW n \in Nat, n \in N PROVE n + 1 \in N
  <2>1. ASSUME NEW T \in UpTo(S, n + 1) PROVE T \in D
    <3>1. CASE T = {}
      BY <3>1 DEF Climbs
    <3>2. CASE T # {}
      <4>1. PICK x \in T : T \ {x} \in D => T \in D
        BY <3>2 DEF Climbs, UpTo
      <4>2. T \ {x} \in D
        BY <1>2, <4>1, UpToIs
      <4> QED BY <4>1, <4>2 DEF UpTo, Climbs
    <3> QED BY <3>1, <3>2
  <2> QED BY <2>1
<1> HIDE DEF N
<1>3. Cardinality(S) \in N
  BY <1>1, <1>2, Levels, UpToIs
<1> USE DEF N
<1> QED BY <1>3, UpToIs

\* A finite set of numbers has a greatest one.
LEMMA GreatestOf ==
  ASSUME NEW S \in SUBSET Nat, IsFiniteSet(S), NEW T \in SUBSET S, T # {}
  PROVE  \E x \in T : \A y \in T : x >= y
<1> DEFINE D == {A \in SUBSET S : A = {} \/ \E x \in A : \A y \in A : x >= y}
<1>1. ASSUME NEW A \in SUBSET S, NEW a \in A, A \ {a} \in D PROVE A \in D
  <2>1. CASE A \ {a} = {}
    BY <2>1
  <2>2. CASE \E x \in A \ {a} : \A y \in A \ {a} : x >= y
    <3>1. PICK x \in A \ {a} : \A y \in A \ {a} : x >= y
      BY <2>2
    <3>2. CASE x >= a
      BY <3>1, <3>2
    <3>3. CASE ~(x >= a)
      <4>1. \A y \in A : a >= y
        BY <3>1, <3>3
      <4> QED BY <4>1
    <3> QED BY <3>2, <3>3
  <2> QED BY <1>1, <2>1, <2>2
<1>2. {} \in D
  OBVIOUS
<1>3. Climbs(S, D)
  BY <1>1, <1>2 DEF Climbs
<1> HIDE DEF D
<1>4. T \in D
  BY <1>3, SubsetInduction
<1> QED BY <1>4 DEF D

\* The positions of a sequence.
LEMMA SeqFinite ==
  ASSUME NEW A, NEW q \in Seq(A)
  PROVE  IsFiniteSet(DOMAIN q) /\ Cardinality(DOMAIN q) = Len(q)
<1>1. DOMAIN q = 1..Len(q) /\ Len(q) \in Nat
  OBVIOUS
<1>2. IsFiniteSet(1..Len(q)) /\ Cardinality(1..Len(q)) = IF 1 > Len(q) THEN 0 ELSE Len(q) - 1 + 1
  BY <1>1, FS_Interval
<1> QED BY <1>1, <1>2
=============================================================================
