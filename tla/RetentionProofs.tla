----------------------------- MODULE RetentionProofs -----------------------------
(***************************************************************************)
(* What the limit keeps of a set of runs, for every limit: the lemmas that *)
(* RunLogProofs and RunFeedProofs rest on.                                 *)
(***************************************************************************)
EXTENDS Retention, FiniteSetTheorems, WellFoundedInduction, TLAPS

\* Fewer runs are later than i in a smaller set.
LEMMA LaterFewer ==
  ASSUME NEW T, IsFiniteSet(T), NEW S, S \subseteq T, NEW i
  PROVE  /\ IsFiniteSet(Later(T, i)) /\ IsFiniteSet(Later(S, i))
         /\ Cardinality(Later(S, i)) \in Nat /\ Cardinality(Later(T, i)) \in Nat
         /\ Cardinality(Later(S, i)) <= Cardinality(Later(T, i))
<1>1. Later(T, i) \in SUBSET T /\ Later(S, i) \in SUBSET Later(T, i)
  BY DEF Later
<1>2. IsFiniteSet(Later(T, i))
  BY <1>1, FS_Subset
<1>3. IsFiniteSet(Later(S, i)) /\ Cardinality(Later(S, i)) <= Cardinality(Later(T, i))
  BY <1>1, <1>2, FS_Subset
<1>4. QED
  BY <1>2, <1>3, FS_CardinalityType

\* What is kept of a set is kept of any part of it that it is in.
LEMMA NewestOfLess ==
  ASSUME NEW T, IsFiniteSet(T), NEW S, S \subseteq T
  PROVE  Newest(T) \cap S \subseteq Newest(S)
<1>1. CASE ~Limited
  BY <1>1 DEF Newest
<1>2. CASE Limited
  <2>1. SUFFICES ASSUME NEW i \in Newest(T) \cap S
                 PROVE  i \in Newest(S)
    OBVIOUS
  <2>2. Cardinality(Later(T, i)) < Keep /\ i \in S
    BY <1>2, <2>1 DEF Newest
  <2>3. Cardinality(Later(S, i)) < Keep
    BY <1>2, <2>2, LaterFewer, RetentionAssumption DEF Limited
  <2>4. QED
    BY <1>2, <2>2, <2>3 DEF Newest
<1>3. QED
  BY <1>1, <1>2

\* Of two runs the later one has fewer still later, and a run is not later than
\* itself.
LEMMA LaterLater ==
  ASSUME NEW T, T \subseteq Nat, NEW i \in Nat, NEW j \in Nat, i <= j
  PROVE  Later(T, j) \subseteq Later(T, i) /\ j \notin Later(T, j)
<1>1. ASSUME NEW k \in T, k > j
      PROVE  k > i
  <2>1. k \in Nat
    OBVIOUS
  <2>2. QED
    BY <1>1, <2>1
<1>2. ~(j > j)
  OBVIOUS
<1>3. QED
  BY <1>1, <1>2 DEF Later

\* Some member of a nonempty finite set of naturals has the fewest later ones
\* in T.
LEMMA FewestLater ==
  ASSUME NEW T, IsFiniteSet(T), NEW D, D \subseteq T, D # {}
  PROVE  \E m \in D : \A j \in D :
           Cardinality(Later(T, m)) <= Cardinality(Later(T, j))
<1> DEFINE Counts == {Cardinality(Later(T, m)) : m \in D}
<1>1. Counts \subseteq Nat /\ Counts # {}
  BY LaterFewer
<1>2. \E x \in Counts : \A y \in Counts : ~(<<y, x>> \in OpToRel(<, Nat))
  <2> HIDE DEF Counts
  <2>1. QED
    BY <1>1, WFMin, NatLessThanWellFounded
<1>3. PICK x \in Counts : \A y \in Counts : ~(<<y, x>> \in OpToRel(<, Nat))
  BY <1>2
<1>4. \A y \in Counts : x <= y
  <2>1. \A y \in Counts : ~(y < x)
    BY <1>1, <1>3 DEF OpToRel
  <2>2. QED
    BY <1>1, <2>1
<1>5. QED
  BY <1>4

\* A part of T that holds all that is kept of T decides what is kept of T.
LEMMA NewestSandwich ==
  ASSUME NEW T, IsFiniteSet(T), T \subseteq Nat, NEW S, S \subseteq T,
         Newest(T) \subseteq S
  PROVE  Newest(S) = Newest(T)
<1>1. CASE ~Limited
  <2>1. Newest(T) = T /\ Newest(S) = S
    BY <1>1 DEF Newest
  <2>2. QED
    BY <2>1
<1>2. CASE Limited
  <2>0. Keep \in Nat
    BY <1>2, RetentionAssumption DEF Limited
  <2>1. Newest(T) \subseteq Newest(S)
    BY NewestOfLess
  <2>2. ASSUME NEW i \in Newest(S), i \notin Newest(T)
        PROVE  FALSE
    <3> DEFINE D == Later(T, i) \ S
    <3>1. i \in S /\ i \in T /\ Cardinality(Later(S, i)) < Keep
      BY <1>2, <2>2 DEF Newest
    <3>2. ~(Cardinality(Later(T, i)) < Keep)
      BY <1>2, <2>2, <3>1 DEF Newest
    <3>3. D # {}
      <4>1. SUFFICES ASSUME D = {} PROVE FALSE
        OBVIOUS
      <4>2. Later(S, i) = Later(T, i)
        BY <4>1 DEF Later
      <4>3. QED
        BY <3>1, <3>2, <4>2
    <3>4. PICK m \in D : \A j \in D :
            Cardinality(Later(T, m)) <= Cardinality(Later(T, j))
      <4>1. D \subseteq T
        BY DEF Later
      <4> HIDE DEF D
      <4>2. QED
        BY <3>3, <4>1, FewestLater
    <3>5. m \in T /\ m \notin S /\ m > i
      BY <3>4 DEF Later
    <3>6. ~(Cardinality(Later(T, m)) < Keep)
      BY <1>2, <3>5 DEF Newest
    <3>7. Later(T, m) \subseteq Later(S, i)
      <4>0. \A j \in Later(T, m) : j \in T /\ j > m /\ j > i
        BY <3>1, <3>5 DEF Later
      <4>1. SUFFICES ASSUME NEW j \in Later(T, m), j \notin S
                     PROVE  FALSE
        BY <4>0 DEF Later
      <4>2. j \in T /\ j > m /\ j > i
        BY <4>0, <4>1
      <4>3. j \in D
        BY <4>1, <4>2 DEF Later
      <4>4. Later(T, j) \subseteq Later(T, m) /\ j \notin Later(T, j)
        <5>1. m \in Nat /\ j \in Nat
          BY <3>5, <4>2
        <5>2. m <= j
          BY <4>2, <5>1
        <5>3. QED
          BY <5>1, <5>2, LaterLater
      <4>5. IsFiniteSet(Later(T, m)) /\ Later(T, j) \in SUBSET Later(T, m)
        BY <4>4, LaterFewer
      <4>6. Cardinality(Later(T, j)) < Cardinality(Later(T, m))
        <5>1. /\ Cardinality(Later(T, j)) <= Cardinality(Later(T, m))
              /\ Cardinality(Later(T, m)) = Cardinality(Later(T, j))
                   => Later(T, m) = Later(T, j)
          BY <4>5, FS_Subset
        <5>2. Cardinality(Later(T, j)) \in Nat /\ Cardinality(Later(T, m)) \in Nat
          BY LaterFewer
        <5>3. QED
          BY <4>1, <4>4, <5>1, <5>2
      <4>7. Cardinality(Later(T, m)) <= Cardinality(Later(T, j))
        BY <3>4, <4>3
      <4>8. QED
        BY <4>6, <4>7, LaterFewer
    <3>8. IsFiniteSet(Later(S, i)) /\ Later(T, m) \in SUBSET Later(S, i)
      BY <3>7, LaterFewer
    <3>9. Cardinality(Later(T, m)) <= Cardinality(Later(S, i))
      BY <3>8, FS_Subset
    <3>10. Cardinality(Later(T, m)) \in Nat /\ Cardinality(Later(S, i)) \in Nat
      BY LaterFewer
    <3>11. QED
      BY <2>0, <3>1, <3>6, <3>9, <3>10
  <2>3. QED
    BY <2>1, <2>2
<1>3. QED
  BY <1>1, <1>2


\* The Keep-th run from the top splits a set into what is kept and the rest.
LEMMA FloorSplits ==
  ASSUME NEW T, IsFiniteSet(T), T \subseteq Nat, Limited, NEW f \in T,
         Cardinality(Later(T, f)) = Keep - 1
  PROVE  /\ {i \in T : i >= f} = Newest(T)
         /\ Cardinality({i \in T : i >= f}) = Keep
<1> DEFINE Above == {i \in T : i >= f}
<1>0. Keep \in Nat
  BY RetentionAssumption DEF Limited
<1>1. Above = Later(T, f) \cup {f} /\ f \notin Later(T, f)
  <2>1. ASSUME NEW k \in T
        PROVE  k >= f <=> k > f \/ k = f
    <3>1. k \in Nat /\ f \in Nat
      OBVIOUS
    <3>2. QED
      BY <3>1
  <2>2. f \notin Later(T, f)
    <3>1. f \in Nat /\ f <= f
      OBVIOUS
    <3>2. QED
      BY <3>1, LaterLater
  <2>3. QED
    BY <2>1, <2>2 DEF Later
<1>2. Cardinality(Above) = Keep /\ IsFiniteSet(Above)
  <2>1. IsFiniteSet(Later(T, f))
    BY LaterFewer
  <2>2. QED
    BY <1>0, <1>1, <2>1, FS_AddElement
<1>3. ASSUME NEW i \in Above
      PROVE  i \in Newest(T)
  <2>1. i \in T /\ f <= i
    OBVIOUS
  <2>2. Later(T, i) \subseteq Later(T, f)
    BY <2>1, LaterLater
  <2>3. IsFiniteSet(Later(T, f)) /\ Later(T, i) \in SUBSET Later(T, f)
    BY <2>2, LaterFewer
  <2>4. Cardinality(Later(T, i)) <= Cardinality(Later(T, f))
    BY <2>3, FS_Subset
  <2>5. Cardinality(Later(T, i)) \in Nat
    BY LaterFewer
  <2>6. QED
    BY <1>0, <2>1, <2>4, <2>5 DEF Newest
<1>4. ASSUME NEW i \in Newest(T), i \notin Above
      PROVE  FALSE
  <2>1. i \in T /\ Cardinality(Later(T, i)) < Keep
    BY <1>4 DEF Newest
  <2>2. Above \subseteq Later(T, i)
    <3>1. i \in Nat /\ f \in Nat /\ ~(i >= f)
      BY <1>4, <2>1
    <3>2. ASSUME NEW k \in Above PROVE k \in Later(T, i)
      <4>1. k \in T /\ k \in Nat /\ k >= f
        OBVIOUS
      <4>2. k > i
        BY <3>1, <4>1
      <4>3. QED
        BY <4>1, <4>2 DEF Later
    <3>3. QED
      BY <3>2
  <2>3. IsFiniteSet(Later(T, i)) /\ Above \in SUBSET Later(T, i)
    BY <2>2, LaterFewer
  <2>4. Cardinality(Above) <= Cardinality(Later(T, i))
    BY <2>3, FS_Subset
  <2>5. Cardinality(Later(T, i)) \in Nat
    BY LaterFewer
  <2>6. QED
    BY <1>0, <1>2, <2>1, <2>4, <2>5
<1>5. QED
  BY <1>2, <1>3, <1>4

\* Nothing that is kept lies below a floor with Keep runs above it.
LEMMA KeptAboveFloor ==
  ASSUME NEW T, IsFiniteSet(T), T \subseteq Nat, Limited, NEW f \in Nat,
         ~(Cardinality({k \in T : k >= f}) < Keep), NEW i \in Newest(T)
  PROVE  i >= f
<1>0. Keep \in Nat
  BY RetentionAssumption DEF Limited
<1>1. SUFFICES ASSUME ~(i >= f) PROVE FALSE
  OBVIOUS
<1> DEFINE Above == {k \in T : k >= f}
<1>2. i \in T /\ Cardinality(Later(T, i)) < Keep
  BY DEF Newest
<1>3. Above \subseteq Later(T, i)
  <2>1. SUFFICES ASSUME NEW k \in Above PROVE k \in Later(T, i)
    OBVIOUS
  <2>2. k \in T /\ k \in Nat /\ i \in Nat /\ k >= f
    BY <1>2
  <2>3. k > i
    BY <1>1, <2>2
  <2>4. QED
    BY <2>2, <2>3 DEF Later
<1>4. IsFiniteSet(Later(T, i)) /\ Above \in SUBSET Later(T, i)
  BY <1>3, LaterFewer
<1>5. /\ Cardinality(Above) <= Cardinality(Later(T, i))
      /\ IsFiniteSet(Above)
  BY <1>4, FS_Subset
<1>6. Cardinality(Above) \in Nat /\ Cardinality(Later(T, i)) \in Nat
  BY <1>5, FS_CardinalityType, LaterFewer
<1>7. QED
  BY <1>0, <1>2, <1>5, <1>6

\* A set without a Keep-th run from the top is kept whole.
LEMMA NoFloorNoLoss ==
  ASSUME NEW T, IsFiniteSet(T), T \subseteq Nat, Limited,
         \A f \in T : Cardinality(Later(T, f)) # Keep - 1
  PROVE  Newest(T) = T
<1> DEFINE D == T \ Newest(T)
<1>0. Keep \in Nat /\ Keep # 0
  BY RetentionAssumption DEF Limited
<1>1. SUFFICES ASSUME D # {} PROVE FALSE
  BY DEF Newest
<1>2. PICK m \in D : \A j \in D :
        Cardinality(Later(T, m)) <= Cardinality(Later(T, j))
  <2>1. D \subseteq T
    OBVIOUS
  <2> HIDE DEF D
  <2>2. QED
    BY <1>1, <2>1, FewestLater
<1>3. m \in T /\ m \in Nat /\ ~(Cardinality(Later(T, m)) < Keep)
  BY <1>2 DEF Newest
<1>4. Later(T, m) # {} /\ Later(T, m) \subseteq Nat /\ Later(T, m) \subseteq T
  <2>1. Cardinality({}) < Keep
    BY <1>0, FS_EmptySet
  <2>2. Later(T, m) # {}
    BY <1>3, <2>1
  <2>3. QED
    BY <2>2 DEF Later
<1>5. PICK n \in Later(T, m) : \A k \in Later(T, m) : ~(<<k, n>> \in OpToRel(<, Nat))
  BY <1>4, WFMin, NatLessThanWellFounded
<1>6. \A k \in Later(T, m) : k >= n
  <2>1. \A k \in Later(T, m) : k \in Nat /\ n \in Nat
    BY <1>4
  <2>2. \A k \in Later(T, m) : ~(k < n)
    BY <1>5, <2>1 DEF OpToRel
  <2>3. QED
    BY <2>1, <2>2
<1>7. n \in T /\ n \in Nat /\ n > m
  BY <1>4 DEF Later
<1>8. Later(T, n) = Later(T, m) \ {n}
  <2>1. Later(T, n) \subseteq Later(T, m) /\ n \notin Later(T, n)
    <3>1. m <= n
      BY <1>3, <1>7
    <3>2. QED
      BY <1>3, <1>7, <3>1, LaterLater
  <2>2. ASSUME NEW k \in Later(T, m), k # n
        PROVE  k \in Later(T, n)
    <3>1. k \in T /\ k \in Nat /\ k >= n
      BY <1>4, <1>6
    <3>2. QED
      BY <1>7, <2>2, <3>1 DEF Later
  <2>3. QED
    BY <2>1, <2>2
<1>9. Cardinality(Later(T, n)) = Cardinality(Later(T, m)) - 1
  BY <1>8, LaterFewer, FS_RemoveElement
<1>10. n \notin D
  <2>1. Cardinality(Later(T, m)) \in Nat /\ Cardinality(Later(T, n)) \in Nat
    BY LaterFewer
  <2>2. Cardinality(Later(T, n)) < Cardinality(Later(T, m))
    BY <1>9, <2>1
  <2>3. ~(Cardinality(Later(T, m)) <= Cardinality(Later(T, n)))
    BY <2>1, <2>2
  <2> HIDE DEF D
  <2>4. QED
    BY <1>2, <2>3
<1>11. Cardinality(Later(T, n)) < Keep
  BY <1>7, <1>10 DEF Newest
<1>12. Cardinality(Later(T, m)) \in Nat
  BY LaterFewer
<1>13. Cardinality(Later(T, n)) = Keep - 1
  BY <1>0, <1>3, <1>9, <1>11, <1>12
<1>14. QED
  BY <1>7, <1>13

\* A run that is not kept of T has Keep later ones among those that are, and so
\* has one of a smaller set in all that come from it.
LEMMA GoneForLater ==
  ASSUME NEW T, IsFiniteSet(T), T \subseteq Nat, NEW i \in Nat, Limited,
         ~(Cardinality(Later(T, i)) < Keep)
  PROVE  ~(Cardinality(Later(Newest(T), i)) < Keep)
<1> DEFINE U == T \cup {i}
           S == Newest(T) \cup {i}
<1>1. IsFiniteSet(U) /\ U \subseteq Nat
  BY FS_AddElement
<1>2. ~(i > i)
  OBVIOUS
<1>3. Later(U, i) = Later(T, i) /\ Later(S, i) = Later(Newest(T), i)
  BY <1>2 DEF Later
<1>4. i \notin Newest(U)
  BY <1>3 DEF Newest
<1>5. Newest(U) \subseteq T
  BY <1>4 DEF Newest
<1>6. Newest(T) = Newest(U)
  <2> HIDE DEF U
  <2> QED
    BY <1>1, <1>5, NewestSandwich DEF U
<1>7. S \subseteq U
  BY DEF Newest
<1>8. Newest(S) = Newest(U)
  <2>1. Newest(U) \subseteq S
    BY <1>6
  <2> HIDE DEF U, S
  <2> QED
    BY <1>1, <1>7, <2>1, NewestSandwich
<1>9. i \notin Newest(S) /\ i \in S
  BY <1>4, <1>8
<1>10. ~(Cardinality(Later(S, i)) < Keep)
  BY <1>9 DEF Newest
<1> QED
  BY <1>3, <1>10

==================================================================================
