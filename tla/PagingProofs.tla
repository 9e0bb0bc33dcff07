---------------------------- MODULE PagingProofs ----------------------------
(***************************************************************************)
(* What offset paging gives a reader, for pages of any size: the rows of a  *)
(* table are told apart by their ranks, a page that is not full is the last *)
(* one, a deletion moves the rows behind it by one place and a new row      *)
(* comes last.                                                              *)
(***************************************************************************)
EXTENDS Paging, FiniteSetTheorems, FunctionTheorems, TLAPS

\* Sets of ids are finite.
LEMMA Finite ==
    ASSUME NEW n \in Nat, NEW T \in SUBSET (1..n)
    PROVE  IsFiniteSet(T) /\ Cardinality(T) \in Nat
<1>1. IsFiniteSet(1..n)
    BY FS_Interval
<1>2. IsFiniteSet(T)
    BY <1>1, FS_Subset
<1>. QED
    BY <1>2, FS_CardinalityType

\* The rank of a row is a place in its table.
LEMMA RankType ==
    ASSUME NEW n \in Nat, NEW T \in SUBSET (1..n), NEW i \in T
    PROVE  Rank(T, i) \in 1..Cardinality(T) /\ Rank(T, i) \in Nat
<1>. DEFINE S == {j \in T : j <= i}
<1>1. IsFiniteSet(T) /\ Cardinality(T) \in Nat
    BY Finite
<1>2. S \in SUBSET T /\ S # {}
    OBVIOUS
<1>3. IsFiniteSet(S) /\ Cardinality(S) <= Cardinality(T) /\ Cardinality(S) \in Nat
    BY <1>1, <1>2, FS_Subset, FS_CardinalityType
<1>4. Cardinality(S) # 0
    BY <1>2, <1>3, FS_EmptySet
<1>. QED
    BY <1>1, <1>3, <1>4 DEF Rank

\* No row comes before the first page.
LEMMA RankPositive ==
    ASSUME NEW n \in Nat, NEW T \in SUBSET (1..n), NEW i \in T
    PROVE  0 * PageSize < Rank(T, i)
<1>1. Rank(T, i) \in 1..Cardinality(T) /\ Cardinality(T) \in Nat
    BY RankType, Finite
<1>2. 0 * PageSize = 0
    BY PageSizeAssumption
<1>. QED
    BY <1>1, <1>2

\* Ranks follow the order of the ids.
LEMMA RankOrder ==
    ASSUME NEW n \in Nat, NEW T \in SUBSET (1..n), NEW i \in T, NEW j \in T, i < j
    PROVE  Rank(T, i) < Rank(T, j)
<1>. DEFINE A == {k \in T : k <= i}
            B == {k \in T : k <= j}
<1>1. IsFiniteSet(B) /\ Cardinality(B) \in Nat
    BY Finite
<1>2. A \in SUBSET B /\ A # B
    <2>. i \in Int /\ j \in Int /\ \A k \in T : k \in Int
        OBVIOUS
    <2>1. j \in B /\ j \notin A
        OBVIOUS
    <2>2. ASSUME NEW k \in T, k <= i PROVE k <= j
        BY <2>2
    <2>. QED
        BY <2>1, <2>2
<1>3. Cardinality(A) <= Cardinality(B) /\ Cardinality(A) # Cardinality(B) /\ Cardinality(A) \in Nat
    BY <1>1, <1>2, FS_Subset, FS_CardinalityType
<1>. QED
    BY <1>1, <1>3 DEF Rank

\* No two rows have the same rank.
LEMMA RankInjective ==
    ASSUME NEW n \in Nat, NEW T \in SUBSET (1..n), NEW i \in T, NEW j \in T,
           Rank(T, i) = Rank(T, j)
    PROVE  i = j
<1>1. i \in Int /\ j \in Int
    OBVIOUS
<1>2. Rank(T, i) \in Nat /\ Rank(T, j) \in Nat
    BY RankType
<1>3. ASSUME i < j PROVE FALSE
    <2>1. Rank(T, i) < Rank(T, j)
        BY <1>3, RankOrder
    <2>. QED
        BY <1>2, <2>1
<1>4. ASSUME j < i PROVE FALSE
    <2>1. Rank(T, j) < Rank(T, i)
        BY <1>4, RankOrder
    <2>. QED
        BY <1>2, <2>1
<1>. QED
    BY <1>1, <1>3, <1>4

\* Every place in a table is the rank of a row.
LEMMA RankOnto ==
    ASSUME NEW n \in Nat, NEW T \in SUBSET (1..n), NEW r \in 1..Cardinality(T)
    PROVE  \E i \in T : Rank(T, i) = r
<1>. DEFINE f == [i \in T |-> Rank(T, i)]
            N == 1..Cardinality(T)
<1>1. IsFiniteSet(T) /\ Cardinality(T) \in Nat
    BY Finite
<1>2. f \in Injection(T, N)
    BY RankType, RankInjective, Fun_IsInj
<1>3. IsFiniteSet(N) /\ Cardinality(N) = Cardinality(T)
    BY <1>1, FS_Interval
<1>4. f \in Surjection(T, N)
    BY <1>2, <1>3, FS_Injection
<1>. HIDE DEF f, N
<1>5. \A k \in N : \E i \in T : f[i] = k
    BY <1>4, Fun_SurjectionProperties
<1>. QED
    BY <1>5 DEF f, N

\* A page has at most PageSize rows, and as many if there are rows behind it.
LEMMA PageCardinality ==
    ASSUME NEW n \in Nat, NEW T \in SUBSET (1..n), NEW p \in Nat
    PROVE  /\ Cardinality(PageOf(T, p)) \in 0..PageSize
           /\ Cardinality(PageOf(T, p)) < PageSize =>
                \A i \in T : Rank(T, i) <= (p + 1) * PageSize
<1>. DEFINE P == PageOf(T, p)
            lo == p * PageSize
            N == (lo + 1)..(lo + PageSize)
            f == [i \in P |-> Rank(T, i)]
<1>1. lo \in Nat /\ PageSize \in Nat /\ (p + 1) * PageSize = lo + PageSize
    BY PageSizeAssumption
<1>. HIDE DEF lo
<1>2. P = {i \in T : lo < Rank(T, i) /\ Rank(T, i) <= lo + PageSize}
    BY <1>1 DEF PageOf, lo
<1>3. P \in SUBSET T /\ IsFiniteSet(P) /\ Cardinality(P) \in Nat
    BY <1>2, Finite, FS_Subset, FS_CardinalityType
<1>. HIDE DEF P
<1>4. IsFiniteSet(N) /\ Cardinality(N) = PageSize
    BY <1>1, FS_Interval, PageSizeAssumption
<1>5. f \in [P -> N]
    <2>1. ASSUME NEW i \in P PROVE Rank(T, i) \in N
        <3>1. i \in T /\ lo < Rank(T, i) /\ Rank(T, i) <= lo + PageSize
            BY <1>2
        <3>2. Rank(T, i) \in Nat
            BY <3>1, RankType
        <3>. QED
            BY <1>1, <3>1, <3>2
    <2>. QED
        BY <2>1
<1>6. f \in Injection(P, N)
    <2>1. \A a, b \in P : f[a] = f[b] => a = b
        BY <1>3, RankInjective
    <2>. HIDE DEF f, N
    <2>. QED
        BY <1>5, <2>1, Fun_IsInj
<1>7. Cardinality(P) <= PageSize
    <2>. HIDE DEF f, N
    <2>. QED
        BY <1>4, <1>6, FS_Injection
<1>8. ASSUME NEW i \in T, ~ (Rank(T, i) <= lo + PageSize)
      PROVE  Cardinality(P) = PageSize
    <2>1. Rank(T, i) \in 1..Cardinality(T) /\ Cardinality(T) \in Nat
        BY RankType, Finite
    <2>2. ASSUME NEW r \in N PROVE \E k \in P : f[k] = r
        <3>1. r \in 1..Cardinality(T)
            BY <1>1, <1>8, <2>1
        <3>2. PICK k \in T : Rank(T, k) = r
            BY <3>1, RankOnto
        <3>. QED
            BY <1>1, <1>2, <3>2
    <2>. HIDE DEF f, N
    <2>3. f \in Surjection(P, N)
        BY <1>5, <2>2, Fun_IsSurj
    <2>. QED
        BY <1>4, <1>6, <2>3, FS_Injection
<1>. QED
    BY <1>1, <1>3, <1>7, <1>8 DEF P

\* Deleting a row moves those behind it up by one place.
LEMMA RankDelete ==
    ASSUME NEW n \in Nat, NEW T \in SUBSET (1..n), NEW d \in T, NEW i \in T \ {d}
    PROVE  /\ Rank(T \ {d}, i) <= Rank(T, i)
           /\ Rank(T, i) <= Rank(T \ {d}, i) + 1
<1>. DEFINE S == {j \in T : j <= i}
<1>1. IsFiniteSet(S) /\ Cardinality(S) \in Nat
    BY Finite
<1>2. {j \in T \ {d} : j <= i} = S \ {d}
    OBVIOUS
<1>3. Cardinality(S \ {d}) = IF d \in S THEN Cardinality(S) - 1 ELSE Cardinality(S)
    BY <1>1, FS_RemoveElement
<1>. QED
    BY <1>1, <1>2, <1>3 DEF Rank

\* Deleting a row leaves those before it in their places.
LEMMA RankDeleteLater ==
    ASSUME NEW n \in Nat, NEW T \in SUBSET (1..n), NEW d \in T, NEW i \in T, Rank(T, i) < Rank(T, d)
    PROVE  Rank(T \ {d}, i) = Rank(T, i)
<1>0. i \in Int /\ d \in Int
    OBVIOUS
<1>1. Rank(T, i) \in Nat /\ Rank(T, d) \in Nat
    BY RankType
<1>2. i < d
    <2>1. CASE d < i
        <3>1. Rank(T, d) < Rank(T, i)
            BY <2>1, RankOrder
        <3>. QED
            BY <1>1, <3>1
    <2>. QED
        BY <1>0, <1>1, <2>1
<1>3. {j \in T \ {d} : j <= i} = {j \in T : j <= i}
    BY <1>0, <1>2
<1>. QED
    BY <1>3 DEF Rank

\* A row with a new id comes after all others.
LEMMA RankInsert ==
    ASSUME NEW n \in Nat, NEW T \in SUBSET (1..n), NEW i \in T
    PROVE  Rank(T \cup {n + 1}, i) = Rank(T, i)
<1>1. {j \in T \cup {n + 1} : j <= i} = {j \in T : j <= i}
    OBVIOUS
<1>. QED
    BY <1>1 DEF Rank
=============================================================================
