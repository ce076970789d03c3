------------------------------- MODULE Counting -------------------------------
(***************************************************************************)
(* Facts about sets of numbers that the proofs of several components cite:  *)
(* the least of them, the k-th of them, and how many there are.             *)
(***************************************************************************)
EXTENDS Integers, FiniteSets, FiniteSetTheorems, WellFoundedInduction, TLAPS

(* A set of numbers that is not empty has a least one. *)
LEMMA LeastOf ==
  ASSUME NEW S \in SUBSET Nat, S # {}
  PROVE  \E i \in S : \A j \in S : i <= j
<1> DEFINE Less == {pair \in Nat \X Nat : pair[1] < pair[2]}
<1>1. IsWellFoundedOn(Less, Nat)
  BY NatLessThanWellFounded, Zenon DEF OpToRel
<1>2. PICK i \in S : \A j \in S : <<j, i>> \notin Less
  <2> HIDE DEF Less
  <2>. QED
    BY <1>1, WFMin
<1>3. \A j \in S : ~(j < i)
  BY <1>2
<1>. QED
  BY <1>3

(* How many of I there are up to i. *)
Rank(I, i) == Cardinality(I \cap 1 .. i)

LEMMA RankType ==
  ASSUME NEW n \in Nat, NEW I \in SUBSET (1 .. n), NEW i \in Nat
  PROVE  /\ IsFiniteSet(I) /\ IsFiniteSet(I \cap 1 .. i)
         /\ Cardinality(I) \in Nat /\ Rank(I, i) \in Nat /\ Rank(I, i) <= Cardinality(I)
<1>1. IsFiniteSet(I)
  <2>1. IsFiniteSet(1 .. n)
    BY FS_Interval
  <2>. QED
    BY <2>1, FS_Subset
<1>2. I \cap 1 .. i \in SUBSET I
  OBVIOUS
<1>. QED
  BY <1>1, <1>2, FS_Subset, FS_CardinalityType DEF Rank

(* One step further there is one more of them, or not. *)
LEMMA RankStep ==
  ASSUME NEW n \in Nat, NEW I \in SUBSET (1 .. n), NEW i \in Nat \ {0}
  PROVE  Rank(I, i) = IF i \in I THEN Rank(I, i - 1) + 1 ELSE Rank(I, i - 1)
<1>0. i - 1 \in Nat
  OBVIOUS
<1>1. IsFiniteSet(I \cap 1 .. i - 1)
  BY <1>0, RankType
<1>2. CASE i \in I
  <2>1. I \cap 1 .. i = (I \cap 1 .. i - 1) \cup {i} /\ i \notin I \cap 1 .. i - 1
    BY <1>2
  <2>. QED
    BY <1>1, <1>2, <2>1, FS_AddElement DEF Rank
<1>3. CASE i \notin I
  <2>1. I \cap 1 .. i = I \cap 1 .. i - 1
    BY <1>3
  <2>. QED
    BY <1>3, <2>1 DEF Rank
<1>. QED
  BY <1>2, <1>3

(* Of two members, the greater has the greater rank. *)
LEMMA RankGrows ==
  ASSUME NEW n \in Nat, NEW I \in SUBSET (1 .. n), NEW i \in I, NEW j \in I, i < j
  PROVE  Rank(I, i) < Rank(I, j)
<1>1. i \in Nat /\ j \in Nat \ {0} /\ j - 1 \in Nat
  OBVIOUS
<1>2. I \cap 1 .. i \in SUBSET (I \cap 1 .. j - 1)
  BY <1>1
<1>3. IsFiniteSet(I \cap 1 .. j - 1)
  BY <1>1, RankType
<1>4. Rank(I, i) <= Rank(I, j - 1)
  BY <1>2, <1>3, FS_Subset DEF Rank
<1>5. Rank(I, j) = Rank(I, j - 1) + 1
  BY <1>1, RankStep
<1>6. Rank(I, i) \in Nat /\ Rank(I, j - 1) \in Nat
  BY <1>1, RankType
<1>. QED
  BY <1>4, <1>5, <1>6

(* There is a k-th of them, for every k up to their number. *)
LEMMA RankReached ==
  ASSUME NEW n \in Nat, NEW I \in SUBSET (1 .. n), NEW k \in 1 .. Cardinality(I)
  PROVE  \E i \in I : Rank(I, i) = k
<1> DEFINE S == {i \in Nat : Rank(I, i) >= k}
<1>1. n \in S /\ S \in SUBSET Nat
  <2>1. I \cap 1 .. n = I
    OBVIOUS
  <2>. QED
    BY <2>1, RankType DEF Rank
<1>2. PICK i \in S : \A j \in S : i <= j
  <2>. HIDE DEF S
  <2>. QED
    BY <1>1, LeastOf
<1>3. i # 0
  <2>1. I \cap 1 .. 0 = {}
    OBVIOUS
  <2>2. Rank(I, 0) = 0
    BY <2>1, FS_EmptySet DEF Rank
  <2>. QED
    BY <1>2, <2>2
<1>4. i \in Nat \ {0} /\ i - 1 \in Nat /\ i - 1 \notin S /\ Rank(I, i) >= k
  BY <1>1, <1>2, <1>3
<1>5. Rank(I, i - 1) \in Nat /\ Rank(I, i) \in Nat
  BY <1>4, RankType
<1>6. Rank(I, i) = IF i \in I THEN Rank(I, i - 1) + 1 ELSE Rank(I, i - 1)
  BY <1>4, RankStep
<1>7. Rank(I, i - 1) < k
  BY <1>4, <1>5
<1>. QED
  BY <1>4, <1>5, <1>6, <1>7

(* And only one: a member is the one of its rank. *)
LEMMA RankIsUnique ==
  ASSUME NEW n \in Nat, NEW I \in SUBSET (1 .. n), NEW i \in I
  PROVE  /\ Rank(I, i) \in 1 .. Cardinality(I)
         /\ \A j \in I : Rank(I, j) = Rank(I, i) => j = i
<1>1. Rank(I, i) \in 1 .. Cardinality(I)
  <2>1. i \in Nat \ {0} /\ i - 1 \in Nat
    OBVIOUS
  <2>2. Rank(I, i) = Rank(I, i - 1) + 1
    BY <2>1, RankStep
  <2>3. Rank(I, i - 1) \in Nat
    BY <2>1, RankType
  <2>4. Rank(I, i) <= Cardinality(I) /\ Cardinality(I) \in Nat
    BY <2>1, RankType
  <2>. QED
    BY <2>2, <2>3, <2>4
<1>2. ASSUME NEW j \in I, Rank(I, j) = Rank(I, i) PROVE j = i
  <2>1. i \in Nat /\ j \in Nat
    OBVIOUS
  <2>2. Rank(I, i) \in Nat
    BY <2>1, RankType
  <2>3. i < j => Rank(I, i) < Rank(I, j)
    BY RankGrows
  <2>4. j < i => Rank(I, j) < Rank(I, i)
    BY RankGrows
  <2>. QED
    BY <1>2, <2>1, <2>2, <2>3, <2>4
<1>. QED
  BY <1>1, <1>2
=============================================================================
