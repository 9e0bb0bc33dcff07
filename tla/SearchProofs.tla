---------------------------- MODULE SearchProofs ----------------------------
(***************************************************************************)
(* Search, for any table, contents, page size and limit, and any number of  *)
(* edits.  A walk is measured on the view that its call will have if nobody *)
(* edits any more: what it listed, as it was, and what it will still list.  *)
(***************************************************************************)
EXTENDS Search, ListingProofs

---------------------------------------------------------------------------
(* Places in a sorted set of rows *)

Rows(n) == SUBSET (1..n)

Keys(n) == [1..n -> Nat]

\* The order of rows whose keys are k; plain says that the keys do not count.
Before(plain, k, i, j) == IF plain \/ k[i] = k[j] THEN i < j ELSE k[i] < k[j]

Behind(plain, k, M, i) == {j \in M : Before(plain, k, j, i)}

\* The number of rows of M that come before row i.
Place(plain, k, M, i) == Cardinality(Behind(plain, k, M, i))

\* Rows are strictly and totally ordered.
LEMMA Order ==
    ASSUME NEW plain, NEW n \in Nat, NEW k \in Keys(n), NEW h \in 1..n, NEW i \in 1..n, NEW j \in 1..n
    PROVE  /\ ~ Before(plain, k, i, i)
           /\ Before(plain, k, h, i) /\ Before(plain, k, i, j) => Before(plain, k, h, j)
           /\ Before(plain, k, i, j) => ~ Before(plain, k, j, i)
           /\ i # j => Before(plain, k, i, j) \/ Before(plain, k, j, i)
<1>. k[h] \in Nat /\ k[i] \in Nat /\ k[j] \in Nat
    BY DEF Rows, Keys
<1>. QED
    BY DEF Before

\* Places are numbers, as sets of rows are finite.
LEMMA PlaceType ==
    ASSUME NEW plain, NEW n \in Nat, NEW k \in Keys(n), NEW M \in Rows(n), NEW i \in 1..n
    PROVE  /\ IsFiniteSet(Behind(plain, k, M, i)) /\ Place(plain, k, M, i) \in Nat
           /\ IsFiniteSet(M) /\ Cardinality(M) \in Nat
BY Finite DEF Behind, Place, Rows, Keys

\* Places follow the order.
LEMMA PlaceOrder ==
    ASSUME NEW plain, NEW n \in Nat, NEW k \in Keys(n), NEW M \in Rows(n),
           NEW i \in M, NEW j \in 1..n, Before(plain, k, i, j)
    PROVE  Place(plain, k, M, i) < Place(plain, k, M, j)
<1>. DEFINE A == Behind(plain, k, M, i)
            B == Behind(plain, k, M, j)
<1>1. IsFiniteSet(B) /\ Cardinality(A) \in Nat /\ Cardinality(B) \in Nat
    BY PlaceType DEF Place, Rows, Keys
<1>2. A \in SUBSET B
    <2>1. ASSUME NEW h \in A PROVE h \in B
        BY Order DEF Behind, Rows, Keys
    <2>. QED
        BY <2>1
<1>3. i \in B /\ i \notin A
    BY Order DEF Behind, Rows, Keys
<1>4. Cardinality(A) <= Cardinality(B) /\ Cardinality(A) # Cardinality(B)
    BY <1>1, <1>2, <1>3, FS_Subset
<1>. QED
    BY <1>1, <1>4 DEF Place

\* No two rows share a place.
LEMMA PlaceInjective ==
    ASSUME NEW plain, NEW n \in Nat, NEW k \in Keys(n), NEW M \in Rows(n),
           NEW i \in M, NEW j \in M, Place(plain, k, M, i) = Place(plain, k, M, j)
    PROVE  i = j
<1>1. Place(plain, k, M, i) \in Nat /\ Place(plain, k, M, j) \in Nat
    BY PlaceType DEF Rows, Keys
<1>2. i \in 1..n /\ j \in 1..n
    BY DEF Rows, Keys
<1>3. CASE Before(plain, k, i, j)
    <2>1. Place(plain, k, M, i) < Place(plain, k, M, j)
        BY <1>2, <1>3, PlaceOrder
    <2>. QED
        BY <1>1, <2>1
<1>4. CASE Before(plain, k, j, i)
    <2>1. Place(plain, k, M, j) < Place(plain, k, M, i)
        BY <1>2, <1>4, PlaceOrder
    <2>. QED
        BY <1>1, <2>1
<1>. QED
    BY <1>2, <1>3, <1>4, Order

\* The last place is the number of rows less one.
LEMMA PlaceBound ==
    ASSUME NEW plain, NEW n \in Nat, NEW k \in Keys(n), NEW M \in Rows(n), NEW i \in M
    PROVE  Place(plain, k, M, i) < Cardinality(M)
<1>. DEFINE A == Behind(plain, k, M, i)
<1>1. IsFiniteSet(M) /\ Cardinality(M) \in Nat /\ Cardinality(A) \in Nat
    BY PlaceType DEF Place, Rows, Keys
<1>2. A \in SUBSET M /\ i \notin A
    BY Order DEF Behind, Rows, Keys
<1>3. Cardinality(A) <= Cardinality(M) /\ Cardinality(A) # Cardinality(M)
    BY <1>1, <1>2, FS_Subset
<1>. QED
    BY <1>1, <1>3 DEF Place

\* Rows in a window of places: at most as many as the window is wide.
Window(plain, k, M, lo, hi) ==
    {i \in M : lo <= Place(plain, k, M, i) /\ Place(plain, k, M, i) < hi}

\* A window that does not reach beyond the last place is full.
LEMMA WindowCount ==
    ASSUME NEW plain, NEW n \in Nat, NEW k \in Keys(n), NEW M \in Rows(n),
           NEW lo \in Nat, NEW w \in Nat
    PROVE  /\ IsFiniteSet(Window(plain, k, M, lo, lo + w))
           /\ Cardinality(Window(plain, k, M, lo, lo + w)) \in 0..w
           /\ lo + w <= Cardinality(M) => Cardinality(Window(plain, k, M, lo, lo + w)) = w
<1>. DEFINE C == Cardinality(M)
            W == Window(plain, k, M, lo, lo + w)
            All == 0..(C - 1)
            N == lo..(lo + w - 1)
            g == [i \in M |-> Place(plain, k, M, i)]
            f == [i \in W |-> Place(plain, k, M, i)]
<1>1. IsFiniteSet(M) /\ C \in Nat
    BY Finite DEF Rows, Keys
<1>2. W \in SUBSET M /\ IsFiniteSet(W) /\ Cardinality(W) \in Nat
    BY Finite DEF Window, Rows, Keys
<1>3. \A i \in M : Place(plain, k, M, i) \in Nat /\ Place(plain, k, M, i) < C
    BY PlaceType, PlaceBound DEF Rows, Keys
<1>4. g \in Injection(M, All)
    <2>1. g \in [M -> All]
        BY <1>1, <1>3
    <2>2. \A a, c \in M : g[a] = g[c] => a = c
        BY PlaceInjective DEF g
    <2>. HIDE DEF g, All
    <2>. QED
        BY <2>1, <2>2, Fun_IsInj
<1>5. IsFiniteSet(All) /\ Cardinality(All) = C
    <2>1. C - 1 \in Int /\ (0 > C - 1 => C = 0)
        BY <1>1
    <2>. QED
        BY <1>1, <2>1, FS_Interval
<1>6. g \in Surjection(M, All)
    <2>. HIDE DEF g, All
    <2>. QED
        BY <1>1, <1>4, <1>5, FS_Injection
<1>7. \A r \in All : \E i \in M : Place(plain, k, M, i) = r
    <2>. HIDE DEF g, All
    <2>1. \A r \in All : \E i \in M : g[i] = r
        BY <1>6, Fun_SurjectionProperties
    <2>. QED
        BY <2>1 DEF g
<1>8. IsFiniteSet(N) /\ Cardinality(N) = w
    BY FS_Interval
<1>9. \A i \in W : Place(plain, k, M, i) \in N
    BY <1>3 DEF Window
<1>10. f \in Injection(W, N)
    <2>1. f \in [W -> N]
        BY <1>9
    <2>2. \A a, c \in W : f[a] = f[c] => a = c
        <3>1. ASSUME NEW a \in W, NEW c \in W, Place(plain, k, M, a) = Place(plain, k, M, c) PROVE a = c
            <4>1. a \in M /\ c \in M
                BY <1>2
            <4>. QED
                BY <3>1, <4>1, PlaceInjective
        <3>. QED
            BY <3>1
    <2>. HIDE DEF f, N, W
    <2>. QED
        BY <2>1, <2>2, Fun_IsInj
<1>11. Cardinality(W) <= w
    <2>. HIDE DEF f, N, W
    <2>. QED
        BY <1>8, <1>10, FS_Injection
<1>12. ASSUME lo + w <= C PROVE Cardinality(W) = w
    <2>1. ASSUME NEW r \in N PROVE \E i \in W : f[i] = r
        <3>1. r \in All
            BY <1>1, <1>12
        <3>2. PICK i \in M : Place(plain, k, M, i) = r
            BY <1>7, <3>1
        <3>. QED
            BY <3>2 DEF Window
    <2>2. f \in [W -> N]
        BY <1>9
    <2>. HIDE DEF f, N, W
    <2>3. f \in Surjection(W, N)
        BY <2>1, <2>2, Fun_IsSurj
    <2>. QED
        BY <1>8, <1>10, <2>3, FS_Injection
<1>. QED
    BY <1>2, <1>11, <1>12

---------------------------------------------------------------------------
(* What an edit can cost *)

\* Of the rows U, those that a walk at place w of the view M no longer meets.
LostRows(plain, k, U, M, w) == {i \in U : i \notin M \/ Place(plain, k, M, i) < w}

\* At most e rows are lost, and so many fewer as the places of the view lag behind those of the
\* rows T that match now, whose keys are j: the lag costs rows when the call is answered.
Loss(plain, U, k, M, j, T, w, e) ==
    /\ Cardinality(LostRows(plain, k, U, M, w)) <= e
    /\ \A t \in U : Place(plain, k, LostRows(plain, k, U, M, w), t) + Place(plain, k, M, t)
                        <= e + Place(plain, j, T, t)

\* Two sets that differ in one element only.
LEMMA Differ ==
    ASSUME NEW S, NEW S2, NEW x, IsFiniteSet(S), IsFiniteSet(S2), S \ {x} = S2 \ {x}
    PROVE  /\ Cardinality(S) \in Nat /\ Cardinality(S2) \in Nat
           /\ Cardinality(S2) + (IF x \in S THEN 1 ELSE 0) = Cardinality(S) + (IF x \in S2 THEN 1 ELSE 0)
<1>1. Cardinality(S \ {x}) = IF x \in S THEN Cardinality(S) - 1 ELSE Cardinality(S)
    BY FS_RemoveElement
<1>2. Cardinality(S2 \ {x}) = IF x \in S2 THEN Cardinality(S2) - 1 ELSE Cardinality(S2)
    BY FS_RemoveElement
<1>3. Cardinality(S) \in Nat /\ Cardinality(S2) \in Nat
    BY FS_CardinalityType
<1>. QED
    BY <1>1, <1>2, <1>3

\* Only row x comes, goes or changes.
OnlyRow(n, x, k, k2, M, M2) == M \ {x} = M2 \ {x} /\ \A i \in (1..n) \ {x} : k2[i] = k[i]

\* The place of a row when only row x changes.
LEMMA PlaceDiffer ==
    ASSUME NEW plain, NEW n \in Nat, NEW k \in Keys(n), NEW k2 \in Keys(n),
           NEW M \in Rows(n), NEW M2 \in Rows(n), NEW x, NEW t \in 1..n,
           OnlyRow(n, x, k, k2, M, M2), k2[t] = k[t]
    PROVE  /\ Place(plain, k, M, t) \in Nat /\ Place(plain, k2, M2, t) \in Nat
           /\ Place(plain, k2, M2, t) + (IF x \in Behind(plain, k, M, t) THEN 1 ELSE 0)
                = Place(plain, k, M, t) + (IF x \in Behind(plain, k2, M2, t) THEN 1 ELSE 0)
<1>1. Behind(plain, k, M, t) \ {x} = Behind(plain, k2, M2, t) \ {x}
    <2>1. ASSUME NEW i \in M \ {x} PROVE Before(plain, k, i, t) <=> Before(plain, k2, i, t)
        BY <2>1 DEF Before, OnlyRow, Rows, Keys
    <2>. QED
        BY <2>1 DEF Behind, OnlyRow
<1>2. IsFiniteSet(Behind(plain, k, M, t)) /\ IsFiniteSet(Behind(plain, k2, M2, t))
    BY PlaceType
<1>. QED
    BY <1>1, <1>2, Differ DEF Place

\* A step changes the place of row t in the view and among the rows that match now; the first
\* grows by at most s more than the second.
Lag(plain, k, M, k2, M2, j, T, j2, T2, t, s) ==
    Place(plain, k2, M2, t) + Place(plain, j, T, t) <= Place(plain, k, M, t) + Place(plain, j2, T2, t) + s

\* One more row may be lost when the lag does not grow behind it, or the lag grow when none is.
LEMMA LossStep ==
    ASSUME NEW plain, NEW n \in Nat, NEW k \in Keys(n), NEW k2 \in Keys(n),
           NEW j \in Keys(n), NEW j2 \in Keys(n),
           NEW M \in Rows(n), NEW M2 \in Rows(n), NEW T \in Rows(n), NEW T2 \in Rows(n),
           NEW U \in Rows(n), NEW U2 \in SUBSET U, NEW w \in Nat, NEW e \in Nat,
           Loss(plain, U, k, M, j, T, w, e),
           \A i \in U2 : k2[i] = k[i],
           \A y, z \in LostRows(plain, k2, U2, M2, w) \ LostRows(plain, k, U, M, w) : y = z,
           \A t \in U2 : Lag(plain, k, M, k2, M2, j, T, j2, T2, t, 1),
           \A t \in U2, z \in LostRows(plain, k2, U2, M2, w) \ LostRows(plain, k, U, M, w) :
                Before(plain, k, z, t) => Lag(plain, k, M, k2, M2, j, T, j2, T2, t, 0)
    PROVE  Loss(plain, U2, k2, M2, j2, T2, w, e + 1)
<1>. DEFINE L == LostRows(plain, k, U, M, w)
            L2 == LostRows(plain, k2, U2, M2, w)
<1>1. L \in SUBSET (1..n) /\ L2 \in SUBSET (1..n) /\ L2 \subseteq U2
    BY DEF LostRows, Rows, Keys
<1>2. IsFiniteSet(L) /\ IsFiniteSet(L2) /\ Cardinality(L) \in Nat /\ Cardinality(L2) \in Nat
    BY <1>1, Finite
<1>3. /\ Cardinality(L) <= e
      /\ \A t \in U : Place(plain, k, L, t) + Place(plain, k, M, t) <= e + Place(plain, j, T, t)
    BY DEF Loss
<1>4. \A y, z \in L2 \ L : y = z
    OBVIOUS
<1>. HIDE DEF L, L2
<1>5. Cardinality(L2) <= Cardinality(L) + 1
    <2>1. PICK z : L2 \subseteq L \cup {z}
        BY <1>4
    <2>2. IsFiniteSet(L \cup {z}) /\ Cardinality(L \cup {z}) \in {Cardinality(L), Cardinality(L) + 1}
        BY <1>2, FS_AddElement
    <2>3. Cardinality(L2) <= Cardinality(L \cup {z})
        BY <2>1, <2>2, FS_Subset
    <2>. QED
        BY <1>2, <2>2, <2>3
<1>6. ASSUME NEW t \in U2
      PROVE  Place(plain, k2, L2, t) + Place(plain, k2, M2, t) <= (e + 1) + Place(plain, j2, T2, t)
    <2>. DEFINE B == Behind(plain, k, L, t)
                B2 == Behind(plain, k2, L2, t)
    <2>1. t \in U /\ t \in 1..n
        BY DEF Rows, Keys
    <2>2. /\ IsFiniteSet(B) /\ IsFiniteSet(B2)
          /\ Place(plain, k, L, t) \in Nat /\ Place(plain, k2, L2, t) \in Nat
          /\ Place(plain, k, M, t) \in Nat /\ Place(plain, k2, M2, t) \in Nat
          /\ Place(plain, j, T, t) \in Nat /\ Place(plain, j2, T2, t) \in Nat
        BY <1>1, <2>1, PlaceType DEF Rows, Keys
    <2>3. \A i \in L2 : Before(plain, k2, i, t) <=> Before(plain, k, i, t)
        BY <1>1 DEF Before
    <2>4. Place(plain, k, L, t) + Place(plain, k, M, t) <= e + Place(plain, j, T, t)
        BY <1>3, <2>1
    <2>5. CASE B2 \subseteq B
        <3>1. Place(plain, k2, L2, t) <= Place(plain, k, L, t)
            BY <2>2, <2>5, FS_Subset DEF Place
        <3>2. Lag(plain, k, M, k2, M2, j, T, j2, T2, t, 1)
            OBVIOUS
        <3>3. Place(plain, k2, M2, t) + Place(plain, j, T, t) <= Place(plain, k, M, t) + Place(plain, j2, T2, t) + 1
            BY <3>2 DEF Lag
        <3>. QED
            BY <2>2, <2>4, <3>1, <3>3
    <2>6. ASSUME NEW z \in B2, z \notin B
          PROVE  Place(plain, k2, L2, t) + Place(plain, k2, M2, t) <= (e + 1) + Place(plain, j2, T2, t)
        <3>1. z \in L2 \ L /\ Before(plain, k, z, t)
            BY <2>3, <2>6 DEF Behind
        <3>2. Lag(plain, k, M, k2, M2, j, T, j2, T2, t, 0)
            BY <3>1 DEF L, L2
        <3>3. B2 \subseteq B \cup {z}
            <4>1. ASSUME NEW i \in B2, i # z PROVE i \in B
                <5>1. i \in L2 /\ Before(plain, k, i, t)
                    BY <2>3 DEF Behind
                <5>2. i \in L
                    BY <1>4, <3>1, <4>1, <5>1
                <5>. QED
                    BY <5>1, <5>2 DEF Behind
            <4>. QED
                BY <4>1
        <3>4. IsFiniteSet(B \cup {z}) /\ Cardinality(B \cup {z}) = Cardinality(B) + 1
            BY <2>2, <2>6, FS_AddElement
        <3>5. Place(plain, k2, L2, t) <= Place(plain, k, L, t) + 1
            <4>1. Cardinality(B2) <= Cardinality(B \cup {z})
                BY <3>3, <3>4, FS_Subset
            <4>. QED
                BY <3>4, <4>1 DEF Place
        <3>6. Place(plain, k2, M2, t) + Place(plain, j, T, t) <= Place(plain, k, M, t) + Place(plain, j2, T2, t)
            BY <2>2, <3>2 DEF Lag
        <3>. QED
            BY <2>2, <2>4, <3>5, <3>6
    <2>. QED
        BY <2>5, <2>6
<1>. QED
    BY <1>2, <1>3, <1>5, <1>6 DEF Loss, L, L2

\* An edit of a row that the call has yet to list, or of any row between two calls, changes the
\* view as it changes the rows that match now.
LEMMA EditAhead ==
    ASSUME NEW plain, NEW n \in Nat, NEW k \in Keys(n), NEW k2 \in Keys(n),
           NEW j \in Keys(n), NEW j2 \in Keys(n),
           NEW M \in Rows(n), NEW M2 \in Rows(n), NEW T \in Rows(n), NEW T2 \in Rows(n),
           NEW U \in Rows(n), NEW U2 \in SUBSET U, NEW w \in Nat, NEW e \in Nat,
           Loss(plain, U, k, M, j, T, w, e),
           NEW x, x \notin U2, OnlyRow(n, x, k, k2, M, M2), OnlyRow(n, x, j, j2, T, T2),
           \A i \in U2 : k[i] = j[i],
           (x \in M <=> x \in T) /\ (x \in M => k[x] = j[x]),
           (x \in M2 <=> x \in T2) /\ (x \in M2 => k2[x] = j2[x])
    PROVE  Loss(plain, U2, k2, M2, j2, T2, w, e + 1)
<1>1. ASSUME NEW t \in U2
      PROVE  /\ k2[t] = k[t] /\ t \in 1..n
             /\ Place(plain, k, M, t) \in Nat /\ Place(plain, k2, M2, t) \in Nat
             /\ Place(plain, k, M, t) <= Place(plain, k2, M2, t) + 1
             /\ Lag(plain, k, M, k2, M2, j, T, j2, T2, t, 0)
             /\ Lag(plain, k, M, k2, M2, j, T, j2, T2, t, 1)
    <2>1. t \in 1..n /\ t # x /\ k2[t] = k[t] /\ j2[t] = j[t] /\ k[t] = j[t]
        BY DEF OnlyRow, Rows, Keys
    <2>2. /\ Place(plain, k, M, t) \in Nat /\ Place(plain, k2, M2, t) \in Nat
          /\ Place(plain, k2, M2, t) + (IF x \in Behind(plain, k, M, t) THEN 1 ELSE 0)
                = Place(plain, k, M, t) + (IF x \in Behind(plain, k2, M2, t) THEN 1 ELSE 0)
        BY <2>1, PlaceDiffer
    <2>3. /\ Place(plain, j, T, t) \in Nat /\ Place(plain, j2, T2, t) \in Nat
          /\ Place(plain, j2, T2, t) + (IF x \in Behind(plain, j, T, t) THEN 1 ELSE 0)
                = Place(plain, j, T, t) + (IF x \in Behind(plain, j2, T2, t) THEN 1 ELSE 0)
        BY <2>1, PlaceDiffer
    <2>4. /\ x \in Behind(plain, k, M, t) <=> x \in Behind(plain, j, T, t)
          /\ x \in Behind(plain, k2, M2, t) <=> x \in Behind(plain, j2, T2, t)
        BY <2>1 DEF Behind, Before
    <2>. QED
        BY <2>1, <2>2, <2>3, <2>4 DEF Lag
<1>2. ASSUME NEW i \in LostRows(plain, k2, U2, M2, w) \ LostRows(plain, k, U, M, w)
      PROVE  i \in M /\ Place(plain, k, M, i) = w
    <2>1. i \in U2 /\ i \in M /\ ~ (Place(plain, k, M, i) < w)
        BY DEF LostRows
    <2>2. i \in M2
        BY <2>1 DEF OnlyRow
    <2>3. Place(plain, k2, M2, i) < w
        BY <2>2 DEF LostRows
    <2>. QED
        BY <1>1, <2>1, <2>3
<1>3. \A y, z \in LostRows(plain, k2, U2, M2, w) \ LostRows(plain, k, U, M, w) : y = z
    BY <1>2, PlaceInjective
<1>. QED
    BY <1>1, <1>3, LossStep

\* An edit of a row that was listed leaves the view alone or adds the row to it.
LEMMA EditBehind ==
    ASSUME NEW plain, NEW n \in Nat, NEW k \in Keys(n), NEW k2 \in Keys(n),
           NEW j \in Keys(n), NEW j2 \in Keys(n),
           NEW M \in Rows(n), NEW M2 \in Rows(n), NEW T \in Rows(n), NEW T2 \in Rows(n),
           NEW U \in Rows(n), NEW U2 \in SUBSET U, NEW w \in Nat, NEW e \in Nat,
           Loss(plain, U, k, M, j, T, w, e),
           NEW x, x \notin U2, OnlyRow(n, x, k, k2, M, M2), OnlyRow(n, x, j, j2, T, T2),
           x \in M => x \in M2 /\ k2[x] = k[x],
           x \in M2 /\ x \notin M => x \notin T
    PROVE  Loss(plain, U2, k2, M2, j2, T2, w, e + 1)
<1>1. ASSUME NEW t \in U2
      PROVE  /\ k2[t] = k[t]
             /\ Place(plain, k, M, t) \in Nat /\ Place(plain, k2, M2, t) \in Nat
             /\ Place(plain, k, M, t) <= Place(plain, k2, M2, t)
             /\ Lag(plain, k, M, k2, M2, j, T, j2, T2, t, 1)
    <2>1. t \in 1..n /\ t # x /\ k2[t] = k[t] /\ j2[t] = j[t]
        BY DEF OnlyRow, Rows, Keys
    <2>2. /\ Place(plain, k, M, t) \in Nat /\ Place(plain, k2, M2, t) \in Nat
          /\ Place(plain, k2, M2, t) + (IF x \in Behind(plain, k, M, t) THEN 1 ELSE 0)
                = Place(plain, k, M, t) + (IF x \in Behind(plain, k2, M2, t) THEN 1 ELSE 0)
        BY <2>1, PlaceDiffer
    <2>3. /\ Place(plain, j, T, t) \in Nat /\ Place(plain, j2, T2, t) \in Nat
          /\ Place(plain, j2, T2, t) + (IF x \in Behind(plain, j, T, t) THEN 1 ELSE 0)
                = Place(plain, j, T, t) + (IF x \in Behind(plain, j2, T2, t) THEN 1 ELSE 0)
        BY <2>1, PlaceDiffer
    <2>4. /\ x \in Behind(plain, k, M, t) => x \in Behind(plain, k2, M2, t)
          /\ x \in Behind(plain, k2, M2, t) /\ x \notin Behind(plain, k, M, t) => x \notin Behind(plain, j, T, t)
        BY <2>1 DEF Behind, Before
    <2>. QED
        BY <2>1, <2>2, <2>3, <2>4 DEF Lag
<1>2. ASSUME NEW i \in LostRows(plain, k2, U2, M2, w) \ LostRows(plain, k, U, M, w)
      PROVE  FALSE
    <2>1. i \in U2 /\ i \in M /\ ~ (Place(plain, k, M, i) < w)
        BY DEF LostRows
    <2>2. i \in M2
        BY <2>1 DEF OnlyRow
    <2>3. Place(plain, k2, M2, i) < w
        BY <2>2 DEF LostRows
    <2>. QED
        BY <1>1, <2>1, <2>3
<1>. QED
    BY <1>1, <1>2, LossStep

\* An edit that takes a row from the view: a deletion moves one row to a page that was read, or a
\* lead that was listed is no longer owned when its owners are read.
LEMMA EditDrops ==
    ASSUME NEW plain, NEW n \in Nat, NEW k \in Keys(n), NEW j \in Keys(n), NEW j2 \in Keys(n),
           NEW M \in Rows(n), NEW T \in Rows(n), NEW T2 \in Rows(n),
           NEW U \in Rows(n), NEW U2 \in SUBSET U, NEW w \in Nat, NEW e \in Nat,
           Loss(plain, U, k, M, j, T, w, e),
           NEW x \in M, NEW d, d \notin U2, OnlyRow(n, d, j, j2, T, T2)
    PROVE  Loss(plain, U2, k, M \ {x}, j2, T2, w, e + 1)
<1>. DEFINE M2 == M \ {x}
            New == LostRows(plain, k, U2, M2, w) \ LostRows(plain, k, U, M, w)
<1>0. M2 \in Rows(n) /\ x \in 1..n
    BY DEF Rows
<1>1. ASSUME NEW t \in U2
      PROVE  /\ t \in 1..n
             /\ Place(plain, k, M, t) \in Nat /\ Place(plain, k, M2, t) \in Nat
             /\ x \notin Behind(plain, k, M, t) => Place(plain, k, M2, t) = Place(plain, k, M, t)
             /\ x \in Behind(plain, k, M, t) => Place(plain, k, M2, t) + 1 = Place(plain, k, M, t)
             /\ Lag(plain, k, M, k, M2, j, T, j2, T2, t, 1)
             /\ x \in Behind(plain, k, M, t) => Lag(plain, k, M, k, M2, j, T, j2, T2, t, 0)
    <2>1. t \in 1..n /\ t # d /\ j2[t] = j[t]
        BY DEF OnlyRow, Rows
    <2>2. OnlyRow(n, x, k, k, M, M2)
        BY DEF OnlyRow
    <2>. HIDE DEF M2
    <2>3. /\ Place(plain, k, M, t) \in Nat /\ Place(plain, k, M2, t) \in Nat
          /\ Place(plain, k, M2, t) + (IF x \in Behind(plain, k, M, t) THEN 1 ELSE 0)
                = Place(plain, k, M, t) + (IF x \in Behind(plain, k, M2, t) THEN 1 ELSE 0)
        BY <1>0, <2>1, <2>2, PlaceDiffer
    <2>4. /\ Place(plain, j, T, t) \in Nat /\ Place(plain, j2, T2, t) \in Nat
          /\ Place(plain, j2, T2, t) + (IF d \in Behind(plain, j, T, t) THEN 1 ELSE 0)
                = Place(plain, j, T, t) + (IF d \in Behind(plain, j2, T2, t) THEN 1 ELSE 0)
        BY <2>1, PlaceDiffer
    <2>5. x \notin Behind(plain, k, M2, t)
        BY DEF Behind, M2
    <2>6. /\ x \notin Behind(plain, k, M, t) => Place(plain, k, M2, t) = Place(plain, k, M, t)
          /\ x \in Behind(plain, k, M, t) => Place(plain, k, M2, t) + 1 = Place(plain, k, M, t)
        BY <2>3, <2>5
    <2>7. Place(plain, j, T, t) <= Place(plain, j2, T2, t) + 1
        BY <2>4
    <2>. QED
        BY <2>1, <2>3, <2>4, <2>6, <2>7 DEF Lag
<1>2. ASSUME NEW z \in New
      PROVE  /\ z \in M /\ z \in 1..n /\ w <= Place(plain, k, M, z)
             /\ z = x \/ (Before(plain, k, x, z) /\ Place(plain, k, M, z) = w)
    <2>1. z \in U2 /\ z \in M /\ ~ (Place(plain, k, M, z) < w)
        BY DEF LostRows
    <2>2. CASE z = x
        BY <1>1, <2>1, <2>2
    <2>3. CASE z # x
        <3>1. Place(plain, k, M2, z) < w
            BY <2>1, <2>3 DEF LostRows
        <3>2. x \in Behind(plain, k, M, z) /\ Place(plain, k, M, z) = w
            BY <1>1, <2>1, <3>1
        <3>. QED
            BY <1>1, <2>1, <3>2 DEF Behind
    <2>. QED
        BY <2>2, <2>3
<1>3. ASSUME NEW y \in New, NEW z \in New PROVE y = z
    <2>1. ASSUME NEW i \in New, i # x, x \in New PROVE FALSE
        <3>1. Before(plain, k, x, i) /\ Place(plain, k, M, i) = w /\ w <= Place(plain, k, M, x) /\ i \in 1..n
            BY <1>2, <2>1
        <3>2. Place(plain, k, M, x) < Place(plain, k, M, i)
            BY <3>1, PlaceOrder
        <3>3. Place(plain, k, M, x) \in Nat
            BY <1>0, PlaceType
        <3>. QED
            BY <3>1, <3>2, <3>3
    <2>2. CASE y = x \/ z = x
        BY <2>1, <2>2
    <2>3. CASE y # x /\ z # x
        <3>1. y \in M /\ z \in M /\ Place(plain, k, M, y) = Place(plain, k, M, z)
            BY <1>2, <2>3
        <3>. QED
            BY <3>1, PlaceInjective
    <2>. QED
        BY <2>2, <2>3
<1>4. ASSUME NEW t \in U2, NEW z \in New, Before(plain, k, z, t)
      PROVE  Lag(plain, k, M, k, M2, j, T, j2, T2, t, 0)
    <2>1. z = x \/ Before(plain, k, x, z)
        BY <1>2
    <2>2. t \in 1..n /\ z \in 1..n
        BY <1>1, <1>2
    <2>3. Before(plain, k, x, t)
        BY <1>0, <1>4, <2>1, <2>2, Order
    <2>4. x \in Behind(plain, k, M, t)
        BY <2>3 DEF Behind
    <2>. QED
        BY <1>1, <2>4
<1>5. \A t \in U2 : Lag(plain, k, M, k, M2, j, T, j2, T2, t, 1)
    BY <1>1
<1>6. \A y, z \in New : y = z
    BY <1>3
<1>7. \A t \in U2, z \in New : Before(plain, k, z, t) => Lag(plain, k, M, k, M2, j, T, j2, T2, t, 0)
    BY <1>4
<1>8. Loss(plain, U2, k, M2, j2, T2, w, e + 1)
    <2>. HIDE DEF M2
    <2>. QED
        BY <1>0, <1>5, <1>6, <1>7, LossStep
<1>. QED
    BY <1>8

\* Every non-empty set of rows has a last one.
LEMMA LastRow ==
    ASSUME NEW plain, NEW n \in Nat, NEW k \in Keys(n), NEW B \in Rows(n), B # {}
    PROVE  \E t \in B : Cardinality(B) = Place(plain, k, B, t) + 1
<1>1. IsFiniteSet(B) /\ Cardinality(B) \in Nat
    BY Finite DEF Rows
<1>2. Cardinality(B) # 0
    BY <1>1, FS_EmptySet
<1>. DEFINE lo == Cardinality(B) - 1
            W == Window(plain, k, B, lo, lo + 1)
<1>3. lo \in Nat /\ lo + 1 = Cardinality(B)
    BY <1>1, <1>2
<1>. HIDE DEF lo
<1>4. IsFiniteSet(W) /\ Cardinality(W) = 1
    BY <1>1, <1>3, WindowCount
<1>5. W # {}
    BY <1>4, FS_EmptySet
<1>6. PICK t \in B : lo <= Place(plain, k, B, t) /\ Place(plain, k, B, t) < lo + 1
    BY <1>5 DEF Window
<1>7. Place(plain, k, B, t) \in Nat
    BY PlaceType DEF Rows
<1>. QED
    BY <1>3, <1>6, <1>7

\* When the call is answered, the rows lost are those that the lag was kept for.
LEMMA ReturnLoss ==
    ASSUME NEW plain, NEW n \in Nat, NEW k \in Keys(n), NEW j \in Keys(n),
           NEW M \in Rows(n), NEW T \in Rows(n), NEW U \in SUBSET T,
           NEW w \in Nat, NEW s \in Nat, NEW e \in Nat,
           Loss(plain, U, k, M, j, T, w, e), \A i \in U : k[i] = j[i],
           NEW c \in 0..s
    PROVE  Loss(plain, U \ Window(plain, k, M, w, w + s), j, T, j, T, w + c, e)
<1>. DEFINE Sel == Window(plain, k, M, w, w + s)
            m == w + c
            L == LostRows(plain, k, U, M, w)
            B == LostRows(plain, j, U \ Sel, T, m)
<1>1. m \in Nat /\ m <= w + s
    OBVIOUS
<1>2. U \in Rows(n) /\ L \in Rows(n) /\ B \in Rows(n)
    BY DEF Rows, LostRows
<1>3. /\ IsFiniteSet(L) /\ Cardinality(L) \in Nat /\ IsFiniteSet(B) /\ Cardinality(B) \in Nat
    BY <1>2, Finite DEF Rows
<1>4. /\ Cardinality(L) <= e
      /\ \A t \in U : Place(plain, k, L, t) + Place(plain, k, M, t) <= e + Place(plain, j, T, t)
    BY DEF Loss
<1>5. ASSUME NEW i \in B
      PROVE  /\ i \in U /\ i \in 1..n /\ k[i] = j[i] /\ Place(plain, j, T, i) < m
             /\ i \in L \/ (i \in M /\ m <= Place(plain, k, M, i))
    <2>1. i \in U /\ i \notin Sel /\ i \in 1..n /\ Place(plain, j, T, i) < m
        BY DEF LostRows, Rows
    <2>2. i \in M => Place(plain, k, M, i) \in Nat
        BY <2>1, PlaceType
    <2>. QED
        BY <1>1, <2>1, <2>2 DEF LostRows, Window
<1>. HIDE DEF m, L, B
<1>6. Cardinality(B) <= e
    <2>1. CASE B \subseteq L
        BY <1>3, <1>4, <2>1, FS_Subset
    <2>2. ASSUME ~ (B \subseteq L)
          PROVE  Cardinality(B) <= e
        <3>1. PICK t \in B : Cardinality(B) = Place(plain, k, B, t) + 1
            BY <1>2, <2>2, LastRow
        <3>. DEFINE P == Behind(plain, k, B \ L, t)
                    W == Window(plain, k, M, 0, 0 + m)
        <3>2. /\ t \in U /\ t \in 1..n /\ Place(plain, j, T, t) < m
              /\ Place(plain, j, T, t) \in Nat /\ Place(plain, k, M, t) \in Nat
              /\ Place(plain, k, L, t) \in Nat /\ Place(plain, k, B, t) \in Nat
              /\ IsFiniteSet(P) /\ Cardinality(P) \in Nat
              /\ IsFiniteSet(Behind(plain, k, L, t)) /\ IsFiniteSet(Behind(plain, k, M, t))
            <4>1. B \ L \in Rows(n)
                BY <1>2 DEF Rows
            <4>. QED
                BY <1>2, <1>5, <4>1, PlaceType DEF Place
        <3>3. Place(plain, k, B, t) <= Place(plain, k, L, t) + Cardinality(P)
            <4>1. Behind(plain, k, B, t) \subseteq Behind(plain, k, L, t) \cup P
                BY DEF Behind
            <4>2. /\ IsFiniteSet(Behind(plain, k, L, t) \cup P)
                  /\ Cardinality(Behind(plain, k, L, t) \cup P) <= Place(plain, k, L, t) + Cardinality(P)
                <5>1. /\ IsFiniteSet(Behind(plain, k, L, t) \cap P)
                      /\ Cardinality(Behind(plain, k, L, t) \cap P) \in Nat
                    BY <3>2, FS_Intersection, FS_CardinalityType
                <5>. HIDE DEF P
                <5>2. /\ IsFiniteSet(Behind(plain, k, L, t) \cup P)
                      /\ Cardinality(Behind(plain, k, L, t) \cup P)
                            = Cardinality(Behind(plain, k, L, t)) + Cardinality(P)
                                - Cardinality(Behind(plain, k, L, t) \cap P)
                    BY <3>2, FS_Union
                <5>3. Cardinality(Behind(plain, k, L, t)) = Place(plain, k, L, t)
                    BY DEF Place
                <5>. QED
                    BY <3>2, <5>1, <5>2, <5>3
            <4>3. Cardinality(Behind(plain, k, L, t) \cup P) \in Nat
                BY <4>2, FS_CardinalityType
            <4>4. Place(plain, k, B, t) <= Cardinality(Behind(plain, k, L, t) \cup P)
                <5>. HIDE DEF P
                <5>. QED
                    BY <4>1, <4>2, FS_Subset DEF Place
            <4>. QED
                BY <3>2, <4>2, <4>3, <4>4
        <3>4. Place(plain, k, L, t) + Place(plain, k, M, t) <= e + Place(plain, j, T, t)
            BY <1>4, <3>2
        <3>5. CASE P = {}
            <4>1. Cardinality(P) = 0
                BY <3>5, FS_EmptySet
            <4>2. CASE t \in L
                <5>1. ASSUME NEW i \in B, i \notin L PROVE FALSE
                    <6>1. Before(plain, k, t, i) /\ ~ Before(plain, k, i, t)
                        <7>1. ~ Before(plain, k, i, t)
                            BY <3>5, <5>1 DEF Behind
                        <7>2. i # t /\ i \in 1..n /\ t \in 1..n
                            BY <1>5, <4>2, <5>1
                        <7>. QED
                            BY <7>1, <7>2, Order
                    <6>2. i \notin Behind(plain, k, B, t)
                        BY <6>1 DEF Behind
                    <6>3. t \notin Behind(plain, k, B, t)
                        BY <3>2, Order DEF Behind
                    <6>4. Behind(plain, k, B, t) \subseteq (B \ {t}) \ {i}
                        BY <6>2, <6>3 DEF Behind
                    <6>5. /\ IsFiniteSet((B \ {t}) \ {i})
                          /\ Cardinality((B \ {t}) \ {i}) = Cardinality(B) - 1 - 1
                        <7>1. IsFiniteSet(B \ {t}) /\ Cardinality(B \ {t}) = Cardinality(B) - 1
                            BY <1>3, FS_RemoveElement
                        <7>2. i \in B \ {t}
                            BY <4>2, <5>1
                        <7>3. /\ IsFiniteSet((B \ {t}) \ {i})
                              /\ Cardinality((B \ {t}) \ {i}) = Cardinality(B \ {t}) - 1
                            BY <7>1, <7>2, FS_RemoveElement
                        <7>. QED
                            BY <7>1, <7>3
                    <6>6. Place(plain, k, B, t) <= Cardinality((B \ {t}) \ {i})
                        BY <6>4, <6>5, FS_Subset DEF Place
                    <6>. QED
                        BY <1>3, <3>1, <3>2, <6>5, <6>6
                <5>. QED
                    BY <2>2, <5>1
            <4>3. CASE t \notin L
                <5>1. m <= Place(plain, k, M, t)
                    BY <1>5, <4>3
                <5>. HIDE DEF P
                <5>. QED
                    BY <1>1, <1>3, <3>1, <3>2, <3>3, <3>4, <4>1, <5>1
            <4>. QED
                BY <4>2, <4>3
        <3>6. CASE P # {}
            <4>1. PICK p \in P : TRUE
                BY <3>6
            <4>2. p \in B /\ p \notin L /\ Before(plain, k, p, t)
                BY DEF Behind
            <4>3. p \in M /\ m <= Place(plain, k, M, p)
                BY <1>5, <4>2
            <4>4. IsFiniteSet(W) /\ Cardinality(W) = m
                <5>1. Place(plain, k, M, p) < Cardinality(M) /\ Place(plain, k, M, p) \in Nat
                    BY <4>3, PlaceBound, PlaceType DEF Rows
                <5>2. Cardinality(M) \in Nat
                    BY Finite DEF Rows
                <5>3. 0 + m <= Cardinality(M)
                    BY <1>1, <4>3, <5>1, <5>2
                <5>. QED
                    BY <1>1, <5>3, WindowCount
            <4>5. W \cup P \subseteq Behind(plain, k, M, t)
                <5>1. ASSUME NEW i \in P PROVE i \in Behind(plain, k, M, t)
                    BY <1>5 DEF Behind
                <5>2. ASSUME NEW i \in W PROVE i \in Behind(plain, k, M, t)
                    <6>1. i \in M /\ Place(plain, k, M, i) < m /\ i \in 1..n /\ p \in 1..n
                        BY <1>1, <4>3 DEF Window, Rows
                    <6>2. Place(plain, k, M, i) \in Nat /\ Place(plain, k, M, p) \in Nat
                        BY <6>1, PlaceType
                    <6>3. ~ Before(plain, k, p, i) /\ i # p
                        <7>1. ASSUME Before(plain, k, p, i) PROVE FALSE
                            <8>1. Place(plain, k, M, p) < Place(plain, k, M, i)
                                BY <4>3, <6>1, <7>1, PlaceOrder
                            <8>. QED
                                BY <1>1, <4>3, <6>1, <6>2, <8>1
                        <7>. QED
                            BY <1>1, <4>3, <6>1, <6>2, <7>1
                    <6>4. Before(plain, k, i, p)
                        BY <6>1, <6>3, Order
                    <6>5. Before(plain, k, i, t)
                        BY <3>2, <4>2, <6>1, <6>4, Order
                    <6>. QED
                        BY <6>1, <6>5 DEF Behind
                <5>. QED
                    BY <5>1, <5>2
            <4>6. W \cap P = {}
                <5>1. ASSUME NEW i \in W, i \in P PROVE FALSE
                    <6>1. i \in B /\ i \notin L
                        BY <5>1 DEF Behind
                    <6>2. i \in M /\ m <= Place(plain, k, M, i) /\ i \in 1..n
                        BY <1>5, <6>1
                    <6>3. Place(plain, k, M, i) < m
                        BY <1>1 DEF Window
                    <6>4. Place(plain, k, M, i) \in Nat
                        BY <6>2, PlaceType
                    <6>. QED
                        BY <1>1, <6>2, <6>3, <6>4
                <5>. QED
                    BY <5>1
            <4>. HIDE DEF P, W
            <4>7. Cardinality(W \cup P) = m + Cardinality(P)
                <5>1. Cardinality(W \cup P) = Cardinality(W) + Cardinality(P) - Cardinality({})
                    BY <3>2, <4>4, <4>6, FS_Union
                <5>. QED
                    BY <1>1, <3>2, <4>4, <5>1, FS_EmptySet
            <4>8. m + Cardinality(P) <= Place(plain, k, M, t)
                BY <3>2, <4>5, <4>7, FS_Subset DEF Place
            <4>. QED
                BY <1>1, <1>3, <3>1, <3>2, <3>3, <3>4, <4>8
        <3>. QED
            BY <3>5, <3>6
    <2>. QED
        BY <2>1, <2>2
<1>7. ASSUME NEW t \in U \ Sel
      PROVE  Place(plain, j, B, t) + Place(plain, j, T, t) <= e + Place(plain, j, T, t)
    <2>1. t \in 1..n
        BY DEF Rows
    <2>2. Place(plain, j, B, t) \in Nat /\ Place(plain, j, T, t) \in Nat
        BY <1>2, <2>1, PlaceType
    <2>3. Place(plain, j, B, t) <= Cardinality(B)
        <3>1. Behind(plain, j, B, t) \subseteq B
            BY DEF Behind
        <3>. QED
            BY <1>3, <3>1, FS_Subset DEF Place
    <2>. QED
        BY <1>3, <1>6, <2>2, <2>3
<1>. QED
    BY <1>6, <1>7 DEF Loss, B, m

\* Likewise when no rows are left.
LEMMA LastReturnLoss ==
    ASSUME NEW plain, NEW n \in Nat, NEW k \in Keys(n), NEW j \in Keys(n),
           NEW M \in Rows(n), NEW T \in Rows(n), NEW U \in Rows(n),
           NEW w \in Nat, NEW s \in Nat, NEW e \in Nat,
           Loss(plain, U, k, M, j, T, w, e),
           Cardinality(M) <= w + s
    PROVE  Cardinality(U \ Window(plain, k, M, w, w + s)) <= e
<1>. DEFINE L == LostRows(plain, k, U, M, w)
            Sel == Window(plain, k, M, w, w + s)
<1>1. L \in Rows(n)
    BY DEF Rows, LostRows
<1>2. IsFiniteSet(L) /\ Cardinality(L) \in Nat /\ Cardinality(L) <= e /\ Cardinality(M) \in Nat
    BY <1>1, Finite DEF Rows, Loss
<1>3. ASSUME NEW i \in U \ Sel PROVE i \in L
    <2>1. CASE i \in M
        <3>1. Place(plain, k, M, i) \in Nat /\ Place(plain, k, M, i) < Cardinality(M)
            BY <2>1, PlaceType, PlaceBound DEF Rows
        <3>. QED
            BY <1>2, <2>1, <3>1 DEF LostRows, Window
    <2>. QED
        BY <2>1 DEF LostRows
<1>4. U \ Sel \subseteq L
    BY <1>3
<1>5. Cardinality(U \ Sel) <= Cardinality(L) /\ IsFiniteSet(U \ Sel)
    BY <1>2, <1>4, FS_Subset
<1>6. Cardinality(U \ Sel) \in Nat
    BY <1>5, FS_CardinalityType
<1>. QED
    BY <1>2, <1>5, <1>6

---------------------------------------------------------------------------
(* What a call knows *)

\* The rows are listed as Listing promises, in the first phase with all that it relies on.
ListInv ==
    /\ TypeOK /\ TableInv /\ ListedOnce /\ MissedOnlyByDeletion
    /\ phase = "listing" => Inv /\ answer = "none"

Calling == phase \in {"listing", "filter", "details"}

\* The rows that matched throughout are known to the call as they are.
RecallInv ==
    /\ stable \subseteq {i \in table : Fits(i)}
    /\ Calling => \A i \in stable \cap listed : copy[i] = row[i]
    /\ Calling => \A i \in stable \cap DOMAIN cache : cache[i] = row[i].owned

\* The owners that a call has read: those of the candidates for a search by owner, and for the
\* rows it returns those that it shows.
OwnersInv ==
    /\ phase = "listing" => DOMAIN cache = {}
    /\ phase \in {"listing", "filter"} => DOMAIN shown = {}
    /\ phase = "filter" => tool = "owner"
    /\ DOMAIN cache \subseteq Candidates
    /\ phase \in {"details", "answered"} /\ tool = "owner" => DOMAIN cache = Candidates
    /\ \A i \in DOMAIN shown \cap DOMAIN cache : shown[i] = cache[i]

AnswerInv ==
    /\ phase = "idle" => offset = 0
    /\ phase = "answered" =>
            /\ tool \in {"lead", "owner"} => Selected \subseteq DOMAIN shown
            /\ more = HasMore

CallInv == ListInv /\ WalkTypeOK /\ RecallInv /\ OwnersInv /\ AnswerInv

\* Before the first call nothing is known.
LEMMA InitCallInv == SearchInit => CallInv
<1>. SUFFICES ASSUME SearchInit PROVE CallInv
    OBVIOUS
<1>1. Inv
    BY InitInv DEF SearchInit
<1>2. ListInv
    BY <1>1 DEF SearchInit, Init, Inv, LoopInv, ListedOnce, ListInv, MissedOnlyByDeletion
<1>3. WalkTypeOK
    <2>2. DOMAIN copy = {} /\ DOMAIN cache = {} /\ DOMAIN shown = {}
        BY DEF SearchInit
    <2>3. /\ stable \subseteq table
          /\ listed = {} /\ offset = 0 /\ edits = 0 /\ phase = "idle" /\ more = FALSE
        BY DEF SearchInit, Init
    <2>4. row \in [Id -> Row] /\ tool \in Tool /\ seen \in [Id -> Nat]
        BY DEF SearchInit
    <2>5. edits \in 0..MaxEdits /\ offset \in 0..MaxRow
        BY <2>3, LimitAssumption, RowAssumption
    <2>6. more \in BOOLEAN
        BY <2>3, Zenon
    <2>. QED
        BY <2>2, <2>3, <2>4, <2>5, <2>6, Zenon DEF WalkTypeOK
<1>. QED
    BY <1>2, <1>3 DEF SearchInit, Init, CallInv, RecallInv, OwnersInv, AnswerInv, Calling, Fits, Candidates

---------------------------------------------------------------------------
(* Every step keeps what a call knows *)

\* Others' edits leave what was listed as it was listed.
LEMMA EditList ==
    ASSUME TypeOK, TableInv, ListedOnce, MissedOnlyByDeletion, Insert \/ \E i \in table : Delete(i)
    PROVE  TypeOK' /\ TableInv' /\ ListedOnce' /\ MissedOnlyByDeletion'
<1>1. born \in Nat /\ MaxRow \in Nat
    BY RowAssumption DEF TypeOK
<1>2. page' = page /\ listed' = listed /\ count' = count /\ answer' = answer /\ before' = before
    BY DEF Insert, Delete
<1>3. TypeOK' /\ TableInv'
    <2>1. CASE Insert
        BY <1>1, <1>2, <2>1 DEF Insert, TypeOK, TableInv
    <2>2. CASE \E i \in table : Delete(i)
        BY <1>1, <1>2, <2>2 DEF Delete, TypeOK, TableInv
    <2>. QED
        BY <2>1, <2>2
<1>4. ListedOnce'
    BY <1>2 DEF ListedOnce
<1>5. MissedOnlyByDeletion'
    <2>. DEFINE A == Lasting \ listed
    <2>1. SUFFICES ASSUME answer = "rows"
                   PROVE  Cardinality(A') <= Cardinality(deleted')
        BY <1>2 DEF MissedOnlyByDeletion
    <2>2. Cardinality(A) <= Cardinality(deleted)
        BY <2>1 DEF MissedOnlyByDeletion
    <2>3. deleted \subseteq deleted' /\ deleted' \in SUBSET (1..MaxRow)
        BY <1>3 DEF Insert, Delete, TypeOK
    <2>4. IsFiniteSet(deleted') /\ Cardinality(deleted') \in Nat
        BY <1>1, <2>3, Finite
    <2>5. Cardinality(deleted) <= Cardinality(deleted') /\ Cardinality(deleted) \in Nat
        BY <2>3, <2>4, FS_Subset, FS_CardinalityType
    <2>6. A \in SUBSET (1..MaxRow)
        BY DEF TypeOK, Lasting
    <2>7. A' \subseteq A
        BY <1>2, <2>3 DEF Lasting
    <2>. HIDE DEF A
    <2>8. IsFiniteSet(A) /\ Cardinality(A) \in Nat
        BY <1>1, <2>6, Finite
    <2>9. Cardinality(A') <= Cardinality(A) /\ Cardinality(A') \in Nat
        BY <2>7, <2>8, FS_Subset, FS_CardinalityType
    <2>. QED
        BY <2>2, <2>4, <2>5, <2>8, <2>9
<1>. QED
    BY <1>3, <1>4, <1>5

\* The answer of a call is settled by what it has read.
LEMMA SameAnswer ==
    ASSUME UNCHANGED <<listed, copy, cache, tool, offset>>
    PROVE  Candidates' = Candidates /\ Selected' = Selected /\ HasMore' = HasMore
BY DEF Candidates, Selected, HasMore, Matches, Position, Precedes

\* An edit leaves alone what the call has read.
LEMMA EditCallInv ==
    ASSUME CallInv,
           \E v \in Row : InsertRow(v) \/ \E i \in table : DeleteRow(i) \/ ChangeRow(i, v)
    PROVE  CallInv'
<1>1. /\ UNCHANGED <<phase, tool, offset, seen, copy, cache, shown, more, listed>>
      /\ edits < MaxEdits /\ edits' = edits + 1
      /\ phase \in {"listing", "filter", "details", "answered"}
    BY DEF InsertRow, DeleteRow, ChangeRow, Edit, walk, vars, Insert, Delete
<1>2. ListInv'
    <2>1. CASE UNCHANGED vars
        <3>1. Inv => Inv'
            BY <2>1, OtherInv
        <3>. QED
            BY <1>1, <2>1, <3>1 DEF vars, CallInv, ListInv, TypeOK, TableInv, ListedOnce, MissedOnlyByDeletion, Lasting
    <2>2. CASE Insert \/ \E i \in table : Delete(i)
        <3>1. TypeOK' /\ TableInv' /\ ListedOnce' /\ MissedOnlyByDeletion'
            BY <2>2, EditList DEF CallInv, ListInv
        <3>2. Inv /\ answer = "none" => Inv' /\ answer' = "none"
            BY <2>2, InsertInv, DeleteInv DEF Insert, Delete
        <3>. QED
            BY <1>1, <3>1, <3>2 DEF CallInv, ListInv
    <2>. QED
        BY <2>1, <2>2 DEF InsertRow, DeleteRow, ChangeRow
<1>3. /\ row' \in [Id -> Row] /\ stable' \subseteq stable
      /\ \A i \in stable' : i \in table' /\ row'[i] = row[i]
    <2>1. /\ table \subseteq 1..born /\ born \in 0..MaxRow /\ row \in [Id -> Row] /\ stable \subseteq table
          /\ table \subseteq Id
        BY DEF CallInv, ListInv, TypeOK, TableInv, WalkTypeOK, Id
    <2>2. ASSUME NEW v \in Row, InsertRow(v)
          PROVE  /\ row' \in [Id -> Row] /\ stable' \subseteq stable
                 /\ \A i \in stable' : i \in table' /\ row'[i] = row[i]
        <3>1. /\ born' = born + 1 /\ table' = table \cup {born + 1} /\ born < MaxRow
              /\ row' = [row EXCEPT ![born + 1] = v] /\ stable' = stable
            BY <2>2 DEF InsertRow, Insert
        <3>2. \A i \in table : i # born + 1
            BY <2>1, RowAssumption
        <3>3. \A i \in table : row'[i] = row[i]
            BY <2>1, <3>1, <3>2
        <3>4. row' \in [Id -> Row]
            BY <2>1, <3>1
        <3>. QED
            BY <2>1, <3>1, <3>3, <3>4
    <2>3. ASSUME NEW i \in table, DeleteRow(i)
          PROVE  /\ row' \in [Id -> Row] /\ stable' \subseteq stable
                 /\ \A h \in stable' : h \in table' /\ row'[h] = row[h]
        BY <2>1, <2>3 DEF DeleteRow, Delete
    <2>4. ASSUME NEW v \in Row, NEW i \in table, ChangeRow(i, v)
          PROVE  /\ row' \in [Id -> Row] /\ stable' \subseteq stable
                 /\ \A h \in stable' : h \in table' /\ row'[h] = row[h]
        <3>1. row' = [row EXCEPT ![i] = v] /\ stable' = stable \ {i} /\ table' = table
            BY <2>4 DEF ChangeRow, vars
        <3>2. \A h \in table \ {i} : row'[h] = row[h]
            BY <2>1, <3>1
        <3>3. row' \in [Id -> Row]
            BY <2>1, <3>1
        <3>. QED
            BY <2>1, <3>1, <3>2, <3>3
    <2>. QED
        BY <2>2, <2>3, <2>4
<1>4. WalkTypeOK'
    BY <1>1, <1>3, LimitAssumption DEF CallInv, WalkTypeOK
<1>5. RecallInv'
    BY <1>1, <1>3 DEF CallInv, RecallInv, Calling, Fits
<1>6. OwnersInv' /\ AnswerInv'
    BY <1>1, SameAnswer DEF CallInv, OwnersInv, AnswerInv
<1>. QED
    BY <1>2, <1>4, <1>5, <1>6 DEF CallInv

\* A call starts with an empty listing.
LEMMA StartCallInv ==
    ASSUME CallInv, Start \/ Continue
    PROVE  CallInv'
<1>1. \E o \in 0..MaxRow : Call(o)
    <2>1. CASE Start
        BY <2>1, RowAssumption DEF Start
    <2>2. CASE Continue
        <3>1. HasMore /\ Call(offset + Cardinality(Selected))
            BY <2>2 DEF Continue, CallInv, AnswerInv
        <3>2. Matches \in SUBSET (1..MaxRow) /\ Selected \in SUBSET (1..MaxRow)
            BY DEF CallInv, ListInv, TypeOK, Matches, Candidates, Selected
        <3>3. Cardinality(Selected) \in Nat /\ Cardinality(Matches) \in Nat
            BY <3>2, RowAssumption, Finite
        <3>4. Cardinality(Matches) <= MaxRow
            <4>1. IsFiniteSet(1..MaxRow) /\ Cardinality(1..MaxRow) = MaxRow
                BY RowAssumption, FS_Interval
            <4>. QED
                BY <3>2, <4>1, FS_Subset
        <3>5. offset \in Nat
            BY DEF CallInv, WalkTypeOK
        <3>6. offset + Cardinality(Selected) \in 0..MaxRow
            BY <3>1, <3>3, <3>4, <3>5, RowAssumption DEF HasMore
        <3>. QED
            BY <3>1, <3>6
    <2>. QED
        BY <2>1, <2>2
<1>2. PICK o \in 0..MaxRow : Call(o)
    BY <1>1
<1>3. Inv' /\ answer' = "none"
    <2>1. Init'
        BY <1>2 DEF Call, Init, CallInv, ListInv, TypeOK, TableInv
    <2>2. (Init => Inv)'
        BY InitInv, PTL
    <2>. QED
        BY <1>2, <2>1, <2>2 DEF Call
<1>4. ListInv'
    <2>1. ListedOnce'
        BY <1>3 DEF Inv, LoopInv, ListedOnce
    <2>. QED
        BY <1>3, <2>1 DEF ListInv, Inv, MissedOnlyByDeletion
<1>5. /\ phase' = "listing" /\ offset' = o /\ listed' = {}
      /\ DOMAIN copy' = {} /\ DOMAIN cache' = {} /\ DOMAIN shown' = {}
      /\ UNCHANGED <<table, row, edits, stable, tool, more, seen>>
    BY <1>2 DEF Call, data
<1>6. WalkTypeOK'
    BY <1>5 DEF CallInv, WalkTypeOK
<1>7. RecallInv' /\ OwnersInv' /\ AnswerInv'
    BY <1>5 DEF CallInv, RecallInv, OwnersInv, AnswerInv, Fits
<1>. QED
    BY <1>4, <1>6, <1>7 DEF CallInv

\* A page is listed as it is now.
LEMMA ListPageCallInv ==
    ASSUME CallInv, ListPage
    PROVE  CallInv'
<1>. DEFINE current == PageOf(table, page)
<1>1. /\ phase = "listing" /\ GetPage /\ listed' = listed \cup current
      /\ copy' = [i \in DOMAIN copy \cup current |-> IF i \in current THEN row[i] ELSE copy[i]]
      /\ UNCHANGED <<row, edits, stable, tool, offset, seen, cache, shown, more, table>>
    BY DEF ListPage, Grown, GetPage, data, walk
<1>0. /\ answer' = "none" => phase' = "listing"
      /\ answer' # "none" => phase' = IF tool = "owner" THEN "filter" ELSE "details"
    BY DEF ListPage
<1>2. current \subseteq table /\ table \subseteq Id
    BY DEF PageOf, CallInv, ListInv, TypeOK, Id
<1>. HIDE DEF current
<1>3. Inv'
    BY <1>1, GetPageInv DEF CallInv, ListInv
<1>4. ListInv'
    <2>1. answer' \in {"none", "rows"}
        BY <1>1 DEF CallInv, ListInv, GetPage
    <2>2. ListedOnce'
        BY <1>3 DEF Inv, LoopInv, ListedOnce
    <2>3. MissedOnlyByDeletion'
        BY <1>3, RowsMissed, PTL
    <2>. QED
        BY <1>0, <1>1, <1>3, <2>1, <2>2, <2>3 DEF ListInv, Inv
<1>5. WalkTypeOK'
    <2>1. row \in [Id -> Row] /\ DOMAIN copy = listed /\ \A i \in listed : copy[i] \in Row
        BY DEF CallInv, WalkTypeOK
    <2>2. DOMAIN copy' = listed' /\ \A i \in listed' : copy'[i] \in Row
        BY <1>1, <1>2, <2>1
    <2>3. phase' \in {"listing", "filter", "details"}
        BY <1>0
    <2>. QED
        BY <1>1, <2>2, <2>3 DEF CallInv, WalkTypeOK
<1>6. RecallInv'
    BY <1>0, <1>1, <1>2 DEF CallInv, RecallInv, OwnersInv, WalkTypeOK, Calling, Fits
<1>7. OwnersInv' /\ AnswerInv'
    BY <1>0, <1>1 DEF CallInv, OwnersInv, AnswerInv
<1>. QED
    BY <1>4, <1>5, <1>6, <1>7 DEF CallInv

\* The owners of a candidate are read as they are now.
LEMMA FilterCallInv ==
    ASSUME CallInv, Filter
    PROVE  CallInv'
<1>1. /\ phase = "filter"
      /\ UNCHANGED <<vars, row, edits, stable, tool, offset, seen, copy, shown, more>>
    BY DEF Filter, data, walk
<1>2. listed' = listed /\ table' = table /\ Candidates' = Candidates /\ Candidates \subseteq listed
    BY <1>1 DEF vars, Candidates
<1>3. ListInv'
    BY <1>1 DEF CallInv, ListInv, vars, Filter, TypeOK, TableInv, ListedOnce, MissedOnlyByDeletion, Lasting
<1>4. CASE Candidates \ DOMAIN cache = {}
    <2>1. phase' = "details" /\ cache' = cache
        BY <1>4 DEF Filter
    <2>2. WalkTypeOK' /\ RecallInv'
        BY <1>1, <1>2, <2>1 DEF CallInv, WalkTypeOK, RecallInv, Calling, Fits
    <2>3. OwnersInv' /\ AnswerInv'
        BY <1>1, <1>2, <1>4, <2>1 DEF CallInv, OwnersInv, AnswerInv
    <2>. QED
        BY <1>3, <2>2, <2>3 DEF CallInv
<1>5. CASE Candidates \ DOMAIN cache # {}
    <2>1. PICK x \in Candidates \ DOMAIN cache :
            cache' = [i \in DOMAIN cache \cup {x} |-> IF i \in {x} THEN row[i].owned ELSE cache[i]]
        BY <1>5 DEF Filter, Grown
    <2>2. phase' = "filter" /\ x \in Id
        BY <1>1, <1>2, <1>5 DEF Filter, CallInv, ListInv, TypeOK, Id
    <2>3. row[x].owned \in BOOLEAN
        BY <2>2, ContentAssumption DEF CallInv, WalkTypeOK
    <2>4. WalkTypeOK'
        <3>1. DOMAIN cache' \subseteq listed' /\ \A i \in DOMAIN cache' : cache'[i] \in BOOLEAN
            BY <1>2, <2>1, <2>3 DEF CallInv, WalkTypeOK
        <3>. QED
            BY <1>1, <1>2, <2>2, <3>1 DEF CallInv, WalkTypeOK
    <2>5. RecallInv'
        BY <1>1, <1>2, <2>1, <2>2 DEF CallInv, RecallInv, Calling, Fits
    <2>6. OwnersInv' /\ AnswerInv'
        BY <1>1, <1>2, <2>1, <2>2 DEF CallInv, OwnersInv, AnswerInv
    <2>. QED
        BY <1>3, <2>4, <2>5, <2>6 DEF CallInv
<1>. QED
    BY <1>4, <1>5

\* The owners shown are those that the filter read.
LEMMA DetailCallInv ==
    ASSUME CallInv, Detail
    PROVE  CallInv'
<1>1. /\ phase = "details" /\ phase' = phase
      /\ UNCHANGED <<vars, row, edits, stable, tool, offset, seen, copy, cache, more>>
    BY DEF Detail, data, walk
<1>2. listed' = listed /\ table' = table /\ Candidates' = Candidates
    BY <1>1 DEF vars, Candidates
<1>3. ListInv'
    BY <1>1 DEF CallInv, ListInv, vars, TypeOK, TableInv, ListedOnce, MissedOnlyByDeletion, Lasting
<1>4. PICK x \in Selected :
        shown' = [i \in DOMAIN shown \cup {x} |-> IF i \in {x} THEN OwnerShown(i) ELSE shown[i]]
    BY DEF Detail, Grown
<1>5. x \in listed /\ x \in Id
    BY DEF Selected, Matches, Candidates, CallInv, ListInv, TypeOK, Id
<1>6. OwnerShown(x) \in BOOLEAN /\ (x \in DOMAIN cache => OwnerShown(x) = cache[x])
    <2>1. row[x].owned \in BOOLEAN
        BY <1>5, ContentAssumption DEF CallInv, WalkTypeOK
    <2>2. x \in DOMAIN cache => cache[x] \in BOOLEAN
        BY DEF CallInv, WalkTypeOK
    <2>. QED
        BY <2>1, <2>2 DEF OwnerShown
<1>7. WalkTypeOK'
    <2>1. DOMAIN shown' \subseteq listed' /\ \A i \in DOMAIN shown' : shown'[i] \in BOOLEAN
        BY <1>2, <1>4, <1>5, <1>6 DEF CallInv, WalkTypeOK
    <2>. QED
        BY <1>1, <1>2, <2>1 DEF CallInv, WalkTypeOK
<1>8. RecallInv'
    BY <1>1, <1>2 DEF CallInv, RecallInv, Calling, Fits
<1>9. OwnersInv'
    <2>1. \A i \in DOMAIN shown' \cap DOMAIN cache' : shown'[i] = cache'[i]
        BY <1>1, <1>4, <1>6 DEF CallInv, OwnersInv
    <2>. QED
        BY <1>1, <1>2, <2>1 DEF CallInv, OwnersInv
<1>10. AnswerInv'
    BY <1>1 DEF AnswerInv
<1>. QED
    BY <1>3, <1>7, <1>8, <1>9, <1>10 DEF CallInv

\* The answer is given from what the call has read.
LEMMA ReturnCallInv ==
    ASSUME CallInv, Return
    PROVE  CallInv'
<1>1. /\ phase = "details" /\ phase' = "answered" /\ more' = HasMore
      /\ tool \in {"lead", "owner"} => Selected \subseteq DOMAIN shown
      /\ seen' = [i \in Id |-> IF i \in Selected THEN seen[i] + 1 ELSE seen[i]]
      /\ UNCHANGED <<vars, row, edits, stable, tool, offset, copy, cache, shown>>
    BY DEF Return, data
<1>2. listed' = listed /\ table' = table
    BY <1>1 DEF vars
<1>3. ListInv'
    BY <1>1 DEF CallInv, ListInv, vars, TypeOK, TableInv, ListedOnce, MissedOnlyByDeletion, Lasting
<1>4. Candidates' = Candidates /\ Selected' = Selected /\ HasMore' = HasMore
    BY <1>1, <1>2, SameAnswer
<1>5. WalkTypeOK'
    <2>1. more' \in BOOLEAN
        BY <1>1 DEF HasMore
    <2>2. seen' \in [Id -> Nat]
        BY <1>1 DEF CallInv, WalkTypeOK
    <2>. QED
        BY <1>1, <1>2, <2>1, <2>2 DEF CallInv, WalkTypeOK
<1>6. RecallInv'
    BY <1>1, <1>2 DEF CallInv, RecallInv, Calling, Fits
<1>7. OwnersInv' /\ AnswerInv'
    BY <1>1, <1>4 DEF CallInv, OwnersInv, AnswerInv
<1>. QED
    BY <1>3, <1>5, <1>6, <1>7 DEF CallInv

\* A call that fails gives no answer.
LEMMA FailsCallInv ==
    ASSUME CallInv, ListingFails \/ LookupFails
    PROVE  CallInv'
<1>1. /\ phase' = "failed" /\ (Exhausted \/ PageFails \/ UNCHANGED vars)
      /\ UNCHANGED <<row, edits, stable, tool, offset, seen, copy, cache, shown, more>>
    BY DEF ListingFails, LookupFails, data, walk
<1>2. listed' = listed /\ table' = table
    BY <1>1 DEF vars, Exhausted, PageFails
<1>3. ListInv'
    <2>1. TypeOK' /\ TableInv' /\ ListedOnce'
        BY <1>1 DEF CallInv, ListInv, vars, Exhausted, PageFails, TypeOK, TableInv, ListedOnce
    <2>2. MissedOnlyByDeletion'
        BY <1>1 DEF CallInv, ListInv, vars, Exhausted, PageFails, MissedOnlyByDeletion, Lasting
    <2>. QED
        BY <1>1, <2>1, <2>2 DEF ListInv
<1>4. Candidates' = Candidates
    BY <1>1, <1>2 DEF Candidates
<1>5. WalkTypeOK'
    BY <1>1, <1>2 DEF CallInv, WalkTypeOK
<1>6. RecallInv' /\ OwnersInv' /\ AnswerInv'
    BY <1>1, <1>2, <1>4 DEF CallInv, RecallInv, OwnersInv, AnswerInv, Calling, Fits
<1>. QED
    BY <1>3, <1>5, <1>6 DEF CallInv

---------------------------------------------------------------------------
(* The view of a call *)

\* The rows that the call has listed.
Kept == IF Calling THEN listed ELSE {}

\* The rows that it will list if nobody edits any more; between two calls, those of the next.
Coming == IF Calling THEN {i \in table : phase = "listing" /\ Cursor < Rank(table, i)} ELSE table

TrueKey == [i \in Id |-> row[i].key]

Truth == {i \in table : Fits(i)}

ViewKey == [i \in Id |-> IF i \in Kept THEN copy[i].key ELSE row[i].key]

\* The rows that match for the call.
KeptView == {i \in Kept : copy[i].fits /\ (tool = "owner" => OwnerShown(i))}
View == KeptView \cup {i \in Coming : Fits(i)}

\* Where the walk goes on.
Due == IF phase = "answered" THEN offset + Cardinality(Selected) ELSE offset

Unseen == {i \in stable : seen[i] = 0}

Plain == tool = "listed"

LossInv ==
    phase # "failed" /\ ~ Walked =>
        Loss(Plain, Unseen, ViewKey, View, TrueKey, Truth, Due, edits)

\* While nobody has edited, a call views the rows as they are, and the walk has returned those
\* before its next offset.
QuietInv ==
    edits = 0 /\ phase # "failed" =>
        /\ stable = Truth /\ View = Truth /\ ViewKey = TrueKey
        /\ \A i \in Id : seen[i] = IF i \in stable /\ (Walked \/ Place(Plain, TrueKey, Truth, i) < Due)
                                   THEN 1 ELSE 0

WalkInv ==
    /\ CallInv
    /\ LossInv
    /\ QuietInv
    /\ Walked => Cardinality(Missed) <= edits

\* The view and what matches now, as the lemmas on places take them.
LEMMA ViewTypes ==
    ASSUME CallInv
    PROVE  /\ MaxRow \in Nat /\ Id = 1..MaxRow
           /\ TrueKey \in Keys(MaxRow) /\ ViewKey \in Keys(MaxRow)
           /\ Truth \in Rows(MaxRow) /\ View \in Rows(MaxRow) /\ KeptView \in Rows(MaxRow)
           /\ Unseen \in Rows(MaxRow) /\ Unseen \subseteq stable /\ stable \subseteq Truth
           /\ \A i \in Unseen : ViewKey[i] = TrueKey[i]
           /\ Due \in Nat /\ edits \in Nat /\ offset \in Nat /\ Limit \in Nat
           /\ Kept \cap Coming = {} /\ Coming \subseteq table /\ Kept \subseteq Id /\ table \subseteq Id
<1>1. MaxRow \in Nat /\ Id = 1..MaxRow
    BY RowAssumption DEF Id
<1>2. table \subseteq Id /\ listed \subseteq Id /\ Kept \subseteq Id
    BY DEF CallInv, ListInv, TypeOK, Id, Kept
<1>3. /\ \A i \in Id : row[i] \in Row /\ row[i].key \in Nat
      /\ \A i \in listed : copy[i] \in Row /\ copy[i].key \in Nat
    BY ContentAssumption DEF CallInv, WalkTypeOK
<1>4. TrueKey \in Keys(MaxRow) /\ ViewKey \in Keys(MaxRow)
    <2>1. Kept \subseteq listed
        BY DEF Kept
    <2>. QED
        BY <1>1, <1>3, <2>1 DEF TrueKey, ViewKey, Keys
<1>5. Coming \subseteq table
    BY DEF Coming
<1>6. Truth \in Rows(MaxRow) /\ View \in Rows(MaxRow) /\ KeptView \in Rows(MaxRow)
    BY <1>1, <1>2, <1>5 DEF Truth, View, KeptView, Rows
<1>7. stable \subseteq Truth /\ Unseen \subseteq stable
    BY DEF CallInv, RecallInv, Truth, Unseen
<1>8. Unseen \in Rows(MaxRow)
    BY <1>6, <1>7 DEF Rows
<1>9. \A i \in Unseen : ViewKey[i] = TrueKey[i]
    <2>1. ASSUME NEW i \in Unseen PROVE i \in Id /\ (i \in Kept => copy[i] = row[i])
        BY <1>2, <1>7 DEF Truth, CallInv, RecallInv, Kept
    <2>. QED
        BY <2>1 DEF ViewKey, TrueKey
<1>10. Due \in Nat /\ edits \in Nat /\ offset \in Nat /\ Limit \in Nat
    <2>1. Selected \in SUBSET (1..MaxRow)
        BY <1>1, <1>2 DEF Selected, Matches, Candidates
    <2>2. Cardinality(Selected) \in Nat
        BY <1>1, <2>1, Finite
    <2>. QED
        BY <2>2, LimitAssumption, RowAssumption DEF Due, CallInv, WalkTypeOK
<1>11. Kept \cap Coming = {}
    <2>1. CASE Calling
        <3>1. ASSUME phase = "listing", NEW i \in listed \cap table PROVE ~ (Cursor < Rank(table, i))
            <4>1. Inv /\ Rank(table, i) <= Cursor
                BY <3>1 DEF CallInv, ListInv, Inv, LoopInv
            <4>2. Cursor \in Nat /\ Rank(table, i) \in Nat
                BY <4>1, Facts
            <4>. QED
                BY <4>1, <4>2
        <3>. QED
            BY <2>1, <3>1 DEF Kept, Coming
    <2>. QED
        BY <2>1 DEF Kept
<1>. QED
    BY <1>1, <1>2, <1>4, <1>5, <1>6, <1>7, <1>8, <1>9, <1>10, <1>11

\* Between two calls, and before the first one, the view is what matches now.
LEMMA ViewBetween ==
    ASSUME CallInv, ~ Calling
    PROVE  View = Truth /\ ViewKey = TrueKey
BY DEF View, KeptView, Truth, ViewKey, TrueKey, Kept, Coming

\* When the rows are selected, the view is what matches.
LEMMA ViewSelected ==
    ASSUME CallInv, phase = "details"
    PROVE  /\ View = Matches /\ Due = offset
           /\ Selected = Window(Plain, ViewKey, View, offset, offset + Limit)
<1>1. Kept = listed /\ Coming = {} /\ listed \subseteq Id
    BY DEF Kept, Coming, Calling, CallInv, ListInv, TypeOK, Id
<1>2. View = Matches
    <2>1. tool = "owner" => DOMAIN cache = Candidates
        BY DEF CallInv, OwnersInv
    <2>. QED
        BY <1>1, <2>1 DEF View, KeptView, Matches, Candidates, OwnerShown
<1>3. ASSUME NEW i \in Matches
      PROVE  Position(i) = Place(Plain, ViewKey, View, i)
    <2>1. ASSUME NEW h \in Matches PROVE Precedes(h, i) <=> Before(Plain, ViewKey, h, i)
        <3>1. h \in listed /\ i \in listed
            BY DEF Matches, Candidates
        <3>2. ViewKey[h] = copy[h].key /\ ViewKey[i] = copy[i].key
            BY <1>1, <3>1 DEF ViewKey
        <3>. QED
            BY <3>2 DEF Precedes, Before, Plain
    <2>2. {h \in Matches : Precedes(h, i)} = Behind(Plain, ViewKey, View, i)
        BY <1>2, <2>1 DEF Behind
    <2>. QED
        BY <2>2 DEF Position, Place
<1>4. Selected = Window(Plain, ViewKey, View, offset, offset + Limit)
    BY <1>2, <1>3 DEF Selected, Window
<1>. QED
    BY <1>2, <1>4 DEF Due

---------------------------------------------------------------------------
(* Steps of the walk: none but the answer changes the view *)

\* A step of the walk that leaves the view, the rows and the offset alone.
Steady ==
    /\ View' = View /\ ViewKey' = ViewKey
    /\ Truth' = Truth /\ TrueKey' = TrueKey
    /\ Unseen' = Unseen /\ Due' = Due /\ Plain' = Plain
    /\ UNCHANGED <<stable, seen, edits>>
    /\ ~ Walked /\ phase # "failed" /\ ~ Walked'

\* Such a step keeps the invariant of the walk.
LEMMA SteadyWalkInv ==
    ASSUME WalkInv, CallInv', Steady
    PROVE  WalkInv'
<1>1. LossInv'
    BY DEF WalkInv, LossInv, Steady
<1>2. QuietInv'
    BY DEF WalkInv, QuietInv, Steady
<1>. QED
    BY <1>1, <1>2 DEF WalkInv, Steady

\* A call starts from the rows as they are.
LEMMA StartWalkInv ==
    ASSUME WalkInv, Start \/ Continue
    PROVE  WalkInv'
<1>1. CallInv'
    BY StartCallInv DEF WalkInv
<1>2. /\ phase' = "listing" /\ offset' = Due /\ page' = 0 /\ listed' = {}
      /\ UNCHANGED <<table, row, edits, stable, tool, seen>>
      /\ ~ Calling /\ ~ Walked /\ phase # "failed"
    BY DEF Start, Continue, Call, Due, data, Calling, Walked, WalkInv, CallInv, AnswerInv
<1>3. View = Truth /\ ViewKey = TrueKey
    BY <1>2, ViewBetween DEF WalkInv
<1>4. Truth' = Truth /\ TrueKey' = TrueKey /\ Unseen' = Unseen /\ Plain' = Plain
    BY <1>2 DEF Truth, TrueKey, Unseen, Fits, Plain
<1>5. Kept' = {} /\ Coming' = table
    <2>1. table \in SUBSET (1..MaxRow) /\ MaxRow \in Nat
        BY RowAssumption DEF WalkInv, CallInv, ListInv, TypeOK
    <2>2. \A i \in table : 0 * PageSize < Rank(table, i)
        BY <2>1, RankPositive
    <2>. QED
        BY <1>2, <2>2 DEF Kept, Coming, Calling, Cursor
<1>6. View' = Truth' /\ ViewKey' = TrueKey'
    BY <1>2, <1>5 DEF View, KeptView, Truth, ViewKey, TrueKey
<1>7. Due' = Due /\ ~ Walked'
    BY <1>2 DEF Due, Walked
<1>. QED
    BY <1>1, <1>2, <1>3, <1>4, <1>6, <1>7, SteadyWalkInv DEF Steady

\* A page turns rows that are coming into rows that are kept.
LEMMA ListPageWalkInv ==
    ASSUME WalkInv, ListPage
    PROVE  WalkInv'
<1>. DEFINE current == PageOf(table, page)
<1>0. CallInv'
    BY ListPageCallInv DEF WalkInv
<1>1. /\ phase = "listing" /\ GetPage /\ listed' = listed \cup current /\ table' = table
      /\ copy' = [i \in DOMAIN copy \cup current |-> IF i \in current THEN row[i] ELSE copy[i]]
      /\ page' = page + 1
      /\ UNCHANGED <<row, edits, stable, tool, offset, seen, cache>>
    BY DEF ListPage, Grown, GetPage, data, walk
<1>2. phase' \in {"listing", "filter", "details"} /\ (phase' = "listing" <=> answer' = "none")
    BY DEF ListPage
<1>3. Inv /\ DOMAIN cache = {} /\ DOMAIN copy = listed /\ listed \subseteq Id /\ table \subseteq Id
    BY <1>1 DEF WalkInv, CallInv, ListInv, OwnersInv, WalkTypeOK, TypeOK, Id
<1>4. /\ Cursor \in Nat /\ PageSize \in Nat /\ Cursor' = Cursor + PageSize
      /\ (page + 1) * PageSize = Cursor + PageSize
      /\ \A i \in table : Rank(table, i) \in Nat
    BY <1>1, <1>3, Facts DEF Cursor
<1>5. current = {i \in table : Cursor < Rank(table, i) /\ Rank(table, i) <= Cursor + PageSize}
    BY <1>4 DEF PageOf, Cursor
<1>6. Inv'
    BY <1>1, <1>3, GetPageInv
<1>. HIDE DEF current
<1>7. Coming = {i \in table : Cursor < Rank(table, i)} /\ Kept = listed /\ Kept' = listed \cup current
    BY <1>1, <1>2 DEF Coming, Kept, Calling
<1>8. Coming' = Coming \ current
    <2>1. CASE answer' = "none"
        <3>1. Coming' = {i \in table : Cursor' < Rank(table, i)}
            BY <1>1, <1>2, <2>1 DEF Coming, Calling
        <3>. QED
            BY <1>4, <1>5, <1>7, <3>1
    <2>2. CASE answer' # "none"
        <3>1. answer' = "rows"
            BY <1>1, <2>2 DEF GetPage
        <3>2. \A i \in table : Rank(table, i) <= Cursor'
            BY <1>1, <1>6, <3>1 DEF Inv, LoopInv
        <3>3. Coming' = {}
            BY <1>2, <2>2 DEF Coming, Calling
        <3>. QED
            BY <1>4, <1>5, <1>7, <3>2, <3>3
    <2>. QED
        BY <2>1, <2>2
<1>9. current \subseteq Coming /\ Kept \cap Coming = {}
    BY <1>5, <1>7, ViewTypes DEF WalkInv
<1>10. KeptView' = KeptView \cup {i \in current : Fits(i)}
    <2>1. ASSUME NEW i \in listed
          PROVE  copy'[i] = copy[i] /\ (OwnerShown(i)' <=> OwnerShown(i))
        <3>1. i \notin current
            BY <1>7, <1>9
        <3>. QED
            BY <1>1, <1>3, <3>1 DEF OwnerShown
    <2>2. ASSUME NEW i \in current
          PROVE  copy'[i] = row[i] /\ (OwnerShown(i)' <=> row[i].owned)
        BY <1>1, <1>3 DEF OwnerShown
    <2>3. KeptView = {i \in listed : copy[i].fits /\ (tool = "owner" => OwnerShown(i))}
        BY <1>7 DEF KeptView
    <2>4. KeptView' = {i \in listed \cup current : copy'[i].fits /\ (tool = "owner" => OwnerShown(i)')}
        BY <1>1, <1>7 DEF KeptView
    <2>. QED
        BY <2>1, <2>2, <2>3, <2>4 DEF Fits
<1>11. View' = View
    <2>1. View' = KeptView' \cup {i \in Coming' : Fits(i)}
        BY <1>1 DEF View, Fits
    <2>. QED
        BY <1>8, <1>9, <1>10, <2>1 DEF View
<1>12. ViewKey' = ViewKey
    <2>1. ASSUME NEW i \in Id
          PROVE  (IF i \in Kept' THEN copy'[i].key ELSE row'[i].key) = (IF i \in Kept THEN copy[i].key ELSE row[i].key)
        BY <1>1, <1>3, <1>7, <1>9
    <2>. QED
        BY <2>1 DEF ViewKey
<1>13. Truth' = Truth /\ TrueKey' = TrueKey /\ Unseen' = Unseen /\ Plain' = Plain
    BY <1>1 DEF Truth, TrueKey, Unseen, Fits, Plain
<1>14. Due' = Due /\ ~ Walked /\ ~ Walked' /\ phase # "failed"
    BY <1>1, <1>2 DEF Due, Walked
<1>. QED
    BY <1>0, <1>1, <1>11, <1>12, <1>13, <1>14, SteadyWalkInv DEF Steady

\* Owners are read as they are at that time, which the view foresees.
LEMMA LookupWalkInv ==
    ASSUME WalkInv, Filter \/ Detail
    PROVE  WalkInv'
<1>0. CallInv'
    BY FilterCallInv, DetailCallInv DEF WalkInv
<1>1. /\ phase \in {"filter", "details"} /\ phase' \in {"filter", "details"}
      /\ UNCHANGED <<vars, row, edits, stable, tool, offset, seen, copy>>
    BY DEF Filter, Detail, data, walk
<1>2. table' = table /\ listed' = listed /\ Calling /\ Calling'
    BY <1>1 DEF vars, Calling
<1>3. Kept' = Kept /\ Coming' = {} /\ Coming = {}
    BY <1>1, <1>2 DEF Kept, Coming
<1>4. \A i : OwnerShown(i)' <=> OwnerShown(i)
    <2>1. CASE cache' = cache
        BY <1>1, <2>1 DEF OwnerShown
    <2>2. CASE cache' # cache
        <3>1. PICK x \in Candidates \ DOMAIN cache :
                cache' = [i \in DOMAIN cache \cup {x} |-> IF i \in {x} THEN row[i].owned ELSE cache[i]]
            BY <2>2 DEF Filter, Detail, Grown
        <3>. QED
            BY <1>1, <3>1 DEF OwnerShown
    <2>. QED
        BY <2>1, <2>2
<1>5. View' = View /\ ViewKey' = ViewKey
    BY <1>1, <1>3, <1>4 DEF View, KeptView, ViewKey
<1>6. Truth' = Truth /\ TrueKey' = TrueKey /\ Unseen' = Unseen /\ Plain' = Plain
    BY <1>1, <1>2 DEF Truth, TrueKey, Unseen, Fits, Plain
<1>7. Due' = Due /\ ~ Walked /\ ~ Walked' /\ phase # "failed"
    BY <1>1 DEF Due, Walked
<1>. QED
    BY <1>0, <1>1, <1>5, <1>6, <1>7, SteadyWalkInv DEF Steady

---------------------------------------------------------------------------
(* The answer *)

\* The answer turns the lag into rows lost, and they stay within the bound.
LEMMA ReturnWalkInv ==
    ASSUME WalkInv, Return
    PROVE  WalkInv'
<1>. DEFINE W == Window(Plain, ViewKey, View, offset, offset + Limit)
            c == Cardinality(Selected)
<1>0. CallInv'
    BY ReturnCallInv DEF WalkInv
<1>1. /\ phase = "details" /\ phase' = "answered" /\ more' = HasMore
      /\ seen' = [i \in Id |-> IF i \in Selected THEN seen[i] + 1 ELSE seen[i]]
      /\ UNCHANGED <<vars, row, edits, stable, tool, offset, copy, cache>>
    BY DEF Return, data
<1>2. table' = table /\ listed' = listed
    BY <1>1 DEF vars
<1>3. /\ MaxRow \in Nat /\ Id = 1..MaxRow
      /\ TrueKey \in Keys(MaxRow) /\ ViewKey \in Keys(MaxRow)
      /\ Truth \in Rows(MaxRow) /\ View \in Rows(MaxRow)
      /\ Unseen \in Rows(MaxRow) /\ Unseen \subseteq stable /\ stable \subseteq Truth
      /\ \A i \in Unseen : ViewKey[i] = TrueKey[i]
      /\ edits \in Nat /\ offset \in Nat /\ Limit \in Nat
    BY ViewTypes DEF WalkInv
<1>4. View = Matches /\ Due = offset /\ Selected = W
    BY <1>1, ViewSelected DEF WalkInv
<1>5. Selected' = Selected /\ Due' = offset + c
    BY <1>1, <1>2, SameAnswer DEF Due
<1>6. /\ Truth' = Truth /\ TrueKey' = TrueKey /\ Plain' = Plain
      /\ View' = Truth /\ ViewKey' = TrueKey
    <2>1. Truth' = Truth /\ TrueKey' = TrueKey /\ Plain' = Plain
        BY <1>1, <1>2 DEF Truth, TrueKey, Fits, Plain
    <2>2. Kept' = {} /\ Coming' = table
        BY <1>1, <1>2 DEF Kept, Coming, Calling
    <2>. QED
        BY <1>1, <2>1, <2>2 DEF View, KeptView, ViewKey, Truth, TrueKey, Fits
<1>7. Unseen' = Unseen \ W
    <2>1. seen \in [Id -> Nat] /\ stable \subseteq Id
        BY <1>3 DEF WalkInv, CallInv, WalkTypeOK, Rows
    <2>2. \A i \in stable : seen'[i] = 0 <=> seen[i] = 0 /\ i \notin Selected
        BY <1>1, <2>1
    <2>. QED
        BY <1>1, <1>4, <2>2 DEF Unseen
<1>8. c \in 0..Limit /\ (offset + Limit <= Cardinality(View) => c = Limit)
    BY <1>3, <1>4, WindowCount
<1>9. Cardinality(View) \in Nat
    BY <1>3, Finite DEF Rows
<1>10. HasMore <=> offset + c < Cardinality(View)
    BY <1>4 DEF HasMore
<1>11. Walked' <=> ~ HasMore
    BY <1>1 DEF Walked
<1>12. Loss(Plain, Unseen, ViewKey, View, TrueKey, Truth, offset, edits)
    BY <1>1, <1>4 DEF WalkInv, LossInv, Walked
<1>. HIDE DEF W, c
<1>13. LossInv'
    <2>1. Unseen \subseteq Truth
        BY <1>3
    <2>2. Loss(Plain, Unseen \ Window(Plain, ViewKey, View, offset, offset + Limit),
               TrueKey, Truth, TrueKey, Truth, offset + c, edits)
        BY <1>3, <1>8, <1>12, <2>1, ReturnLoss
    <2>3. edits' = edits
        BY <1>1
    <2>. QED
        BY <1>5, <1>6, <1>7, <2>2, <2>3 DEF LossInv, W
<1>14. Walked' => Cardinality(Missed') <= edits'
    <2>1. SUFFICES ASSUME ~ HasMore
                   PROVE  Cardinality(Unseen \ W) <= edits
        BY <1>1, <1>7, <1>11 DEF Missed, Unseen
    <2>2. Cardinality(View) <= offset + Limit
        BY <1>3, <1>8, <1>9, <1>10, <2>1
    <2>. QED
        BY <1>3, <1>12, <2>2, LastReturnLoss DEF W
<1>15. QuietInv'
    <2>. SUFFICES ASSUME edits = 0
                  PROVE  /\ stable = Truth
                         /\ \A i \in Id : seen'[i] = IF i \in stable /\ (Walked' \/ Place(Plain, TrueKey, Truth, i) < offset + c)
                                                     THEN 1 ELSE 0
        BY <1>1, <1>5, <1>6 DEF QuietInv
    <2>1. /\ stable = Truth /\ View = Truth /\ ViewKey = TrueKey
          /\ \A i \in Id : seen[i] = IF i \in stable /\ Place(Plain, TrueKey, Truth, i) < offset THEN 1 ELSE 0
        BY <1>1, <1>4 DEF WalkInv, QuietInv, Walked
    <2>2. ASSUME NEW i \in Id
          PROVE  seen'[i] = IF i \in stable /\ (Walked' \/ Place(Plain, TrueKey, Truth, i) < offset + c) THEN 1 ELSE 0
        <3>1. seen'[i] = IF i \in Selected THEN seen[i] + 1 ELSE seen[i]
            BY <1>1
        <3>2. Place(Plain, TrueKey, Truth, i) \in Nat
            BY <1>3, PlaceType
        <3>3. CASE i \notin stable
            <4>1. i \notin Selected
                BY <1>4, <2>1, <3>3 DEF W, Window
            <4>. QED
                BY <2>1, <3>1, <3>3, <4>1
        <3>4. CASE i \in stable
            <4>1. i \in Selected <=> /\ offset <= Place(Plain, TrueKey, Truth, i)
                                     /\ Place(Plain, TrueKey, Truth, i) < offset + Limit
                BY <1>4, <2>1, <3>4 DEF W, Window
            <4>2. Place(Plain, TrueKey, Truth, i) < Cardinality(View)
                BY <1>3, <2>1, <3>4, PlaceBound
            <4>3. CASE HasMore
                <5>1. c = Limit
                    <6>1. CASE offset + Limit <= Cardinality(View)
                        BY <1>8, <6>1
                    <6>2. CASE ~ (offset + Limit <= Cardinality(View))
                        <7>. DEFINE v == Cardinality(View) - offset
                        <7>1. v \in Nat /\ offset + v = Cardinality(View) /\ v <= Limit
                            BY <1>3, <1>8, <1>9, <1>10, <4>3, <6>2
                        <7>. HIDE DEF v
                        <7>2. Cardinality(Window(Plain, ViewKey, View, offset, offset + v)) = v
                            <8>1. offset + v <= Cardinality(View)
                                BY <1>9, <7>1
                            <8>2. v \in Nat /\ MaxRow \in Nat /\ offset \in Nat
                                BY <1>3, <7>1
                            <8>3. ViewKey \in Keys(MaxRow) /\ View \in Rows(MaxRow)
                                BY <1>3
                            <8>. QED
                                BY <8>1, <8>2, <8>3, WindowCount
                        <7>3. W = Window(Plain, ViewKey, View, offset, offset + v)
                            <8>1. ASSUME NEW h \in View
                                  PROVE  /\ Place(Plain, ViewKey, View, h) \in Nat
                                         /\ Place(Plain, ViewKey, View, h) < Cardinality(View)
                                BY <1>3, PlaceType, PlaceBound DEF Rows
                            <8>. QED
                                BY <1>3, <1>9, <6>2, <7>1, <8>1 DEF W, Window
                        <7>4. c = v
                            BY <1>4, <7>2, <7>3 DEF c
                        <7>. QED
                            BY <1>9, <1>10, <4>3, <7>1, <7>4
                    <6>. QED
                        BY <6>1, <6>2
                <5>. QED
                    BY <1>3, <1>11, <2>1, <3>1, <3>2, <3>4, <4>1, <4>3, <5>1
            <4>4. CASE ~ HasMore
                <5>1. Place(Plain, TrueKey, Truth, i) < offset + Limit
                    BY <1>3, <1>8, <1>9, <1>10, <3>2, <4>2, <4>4
                <5>. QED
                    BY <1>3, <1>11, <2>1, <3>1, <3>2, <3>4, <4>1, <4>4, <5>1
            <4>. QED
                BY <4>3, <4>4
        <3>. QED
            BY <3>3, <3>4
    <2>. QED
        BY <2>1, <2>2
<1>. QED
    BY <1>0, <1>13, <1>14, <1>15 DEF WalkInv

---------------------------------------------------------------------------
(* The edits of others *)

\* The types of the view as one formula, which also holds after a step.
ViewOK ==
    /\ TrueKey \in Keys(MaxRow) /\ ViewKey \in Keys(MaxRow)
    /\ Truth \in Rows(MaxRow) /\ View \in Rows(MaxRow)

\* The lemmas on places apply to the view.
LEMMA ViewRows == CallInv => ViewOK
BY ViewTypes DEF ViewOK

\* Row d is added, deleted or changed.
Edited(d) ==
    /\ d \in Id
    /\ UNCHANGED <<phase, tool, offset, seen, copy, cache, listed, page>>
    /\ \A i \in Id \ {d} : row'[i] = row[i]
    /\ table' \ {d} = table \ {d}
    /\ stable' \subseteq stable \ {d}
    /\ edits' = edits + 1

\* The view and what matches change at most in the edited row, but for the rows that the call
\* has yet to list.
LEMMA EditedView ==
    ASSUME WalkInv, NEW d, Edited(d)
    PROVE  /\ OnlyRow(MaxRow, d, TrueKey, TrueKey', Truth, Truth')
           /\ Unseen' \in SUBSET Unseen /\ d \notin Unseen'
           /\ Due' = Due /\ Plain' = Plain /\ Kept' = Kept /\ (Calling' <=> Calling)
           /\ KeptView' \ {d} = KeptView \ {d}
           /\ \A i \in (1..MaxRow) \ {d} : ViewKey'[i] = ViewKey[i]
<1>1. /\ d \in Id /\ Id = 1..MaxRow /\ Kept \subseteq Id /\ table \subseteq Id
      /\ UNCHANGED <<phase, tool, offset, seen, copy, cache, listed, page>>
      /\ \A i \in Id \ {d} : row'[i] = row[i]
      /\ table' \ {d} = table \ {d}
      /\ stable' \subseteq stable \ {d}
    BY ViewTypes DEF Edited, WalkInv
<1>2. \A i \in Id \ {d} : TrueKey'[i] = TrueKey[i]
    BY <1>1 DEF TrueKey
<1>3. Truth' \ {d} = Truth \ {d}
    <2>1. ASSUME NEW i \in table \ {d} PROVE Fits(i)' <=> Fits(i)
        BY <1>1 DEF Fits
    <2>. QED
        BY <1>1, <2>1 DEF Truth
<1>4. Unseen' \in SUBSET Unseen /\ d \notin Unseen'
    BY <1>1 DEF Unseen
<1>5. Due' = Due /\ Plain' = Plain /\ Kept' = Kept /\ (Calling' <=> Calling)
    BY <1>1, SameAnswer DEF Due, Plain, Kept, Calling
<1>6. KeptView' \ {d} = KeptView \ {d}
    <2>1. ASSUME NEW i \in Kept \ {d} PROVE OwnerShown(i)' <=> OwnerShown(i)
        BY <1>1 DEF OwnerShown
    <2>. QED
        BY <1>1, <1>5, <2>1 DEF KeptView
<1>7. \A i \in Id \ {d} : ViewKey'[i] = ViewKey[i]
    BY <1>1, <1>5 DEF ViewKey
<1>. QED
    BY <1>1, <1>2, <1>3, <1>4, <1>5, <1>6, <1>7 DEF OnlyRow

\* An edit makes room for one more missed row.
LEMMA EditedWalkInv ==
    ASSUME WalkInv, CallInv', NEW d, Edited(d), ~ Walked, phase # "failed", more' = more,
           Loss(Plain, Unseen', ViewKey', View', TrueKey', Truth', Due, edits + 1)
    PROVE  WalkInv'
<1>1. Due' = Due /\ Plain' = Plain /\ edits' = edits + 1 /\ phase' = phase
    BY EditedView DEF Edited
<1>2. LossInv'
    BY <1>1 DEF LossInv
<1>3. QuietInv'
    <2>1. edits \in Nat
        BY ViewTypes DEF WalkInv
    <2>2. edits' # 0
        BY <1>1, <2>1
    <2>. QED
        BY <2>2 DEF QuietInv
<1>4. ~ Walked'
    BY <1>1 DEF Walked
<1>. QED
    BY <1>2, <1>3, <1>4 DEF WalkInv

\* What the lemmas on edits take.
LEMMA EditedLoss ==
    ASSUME WalkInv, CallInv', ~ Walked, phase # "failed"
    PROVE  /\ MaxRow \in Nat /\ Due \in Nat /\ edits \in Nat
           /\ TrueKey \in Keys(MaxRow) /\ ViewKey \in Keys(MaxRow)
           /\ Truth \in Rows(MaxRow) /\ View \in Rows(MaxRow) /\ Unseen \in Rows(MaxRow)
           /\ TrueKey' \in Keys(MaxRow) /\ ViewKey' \in Keys(MaxRow)
           /\ Truth' \in Rows(MaxRow) /\ View' \in Rows(MaxRow)
           /\ \A i \in Unseen : ViewKey[i] = TrueKey[i]
           /\ Loss(Plain, Unseen, ViewKey, View, TrueKey, Truth, Due, edits)
<1>1. /\ TrueKey' \in Keys(MaxRow) /\ ViewKey' \in Keys(MaxRow)
      /\ Truth' \in Rows(MaxRow) /\ View' \in Rows(MaxRow)
    <2>1. (CallInv => ViewOK)'
        BY ViewRows, PTL
    <2>. QED
        BY <2>1 DEF ViewOK
<1>. QED
    BY <1>1, ViewTypes DEF WalkInv, LossInv

\* Between two calls the view changes as the rows do.
LEMMA EditBetween ==
    ASSUME WalkInv, CallInv', NEW d, Edited(d), ~ Walked, phase # "failed", more' = more, ~ Calling
    PROVE  WalkInv'
<1>1. View = Truth /\ ViewKey = TrueKey
    BY ViewBetween DEF WalkInv
<1>2. Calling' <=> Calling
    BY EditedView
<1>3. View' = Truth' /\ ViewKey' = TrueKey'
    BY <1>2 DEF View, KeptView, Truth, ViewKey, TrueKey, Kept, Coming
<1>4. /\ OnlyRow(MaxRow, d, TrueKey, TrueKey', Truth, Truth')
      /\ Unseen' \in SUBSET Unseen /\ d \notin Unseen'
    BY EditedView
<1>5. /\ MaxRow \in Nat /\ Due \in Nat /\ edits \in Nat
      /\ TrueKey \in Keys(MaxRow) /\ Truth \in Rows(MaxRow) /\ Unseen \in Rows(MaxRow)
      /\ TrueKey' \in Keys(MaxRow) /\ Truth' \in Rows(MaxRow)
      /\ Loss(Plain, Unseen, TrueKey, Truth, TrueKey, Truth, Due, edits)
    BY <1>1, EditedLoss
<1>6. Loss(Plain, Unseen', TrueKey', Truth', TrueKey', Truth', Due, edits + 1)
    BY <1>4, <1>5, EditAhead
<1>. QED
    BY <1>3, <1>6, EditedWalkInv

\* A new row comes last, whether the call lists it or not.
LEMMA InsertWalkInv ==
    ASSUME WalkInv, NEW v \in Row, InsertRow(v)
    PROVE  WalkInv'
<1>. DEFINE d == born + 1
<1>0. CallInv'
    BY EditCallInv DEF WalkInv
<1>1. /\ d \in Id /\ born \in Nat /\ table \in SUBSET (1..born) /\ listed \subseteq 1..born
      /\ stable \subseteq table /\ row \in [Id -> Row]
      /\ row' = [row EXCEPT ![d] = v] /\ table' = table \cup {d}
      /\ UNCHANGED <<phase, tool, offset, seen, copy, cache, listed, page, more, stable>>
      /\ edits' = edits + 1 /\ phase # "failed" /\ ~ Walked
    <2>1. /\ born' = d /\ born < MaxRow /\ table' = table \cup {d} /\ row' = [row EXCEPT ![d] = v]
          /\ UNCHANGED <<phase, tool, offset, seen, copy, cache, listed, page, more, stable>>
          /\ edits' = edits + 1 /\ phase # "failed" /\ ~ Walked
        BY DEF InsertRow, Edit, Insert, walk, Walked
    <2>2. /\ born \in 0..MaxRow /\ table \in SUBSET (1..born) /\ listed \subseteq 1..born
          /\ stable \subseteq table /\ row \in [Id -> Row]
        BY DEF WalkInv, CallInv, ListInv, TypeOK, TableInv, WalkTypeOK
    <2>3. d \in Id /\ born \in Nat
        BY <2>1, <2>2, RowAssumption DEF Id
    <2>. QED
        BY <2>1, <2>2, <2>3
<1>2. d \notin table /\ d \notin listed
    BY <1>1
<1>3. \A i \in table : Rank(table', i) = Rank(table, i)
    BY <1>1, RankInsert
<1>. HIDE DEF d
<1>4. Edited(d)
    BY <1>1, <1>2 DEF Edited
<1>5. CASE ~ Calling
    BY <1>0, <1>1, <1>4, <1>5, EditBetween
<1>6. CASE Calling
    <2>1. /\ OnlyRow(MaxRow, d, TrueKey, TrueKey', Truth, Truth')
          /\ Unseen' \in SUBSET Unseen /\ d \notin Unseen'
          /\ Kept' = Kept /\ (Calling' <=> Calling)
          /\ KeptView' \ {d} = KeptView \ {d}
          /\ \A i \in (1..MaxRow) \ {d} : ViewKey'[i] = ViewKey[i]
        BY <1>4, EditedView
    <2>2. Coming' \ {d} = Coming /\ d \notin Coming /\ Coming \subseteq table
        <3>1. Coming = {i \in table : phase = "listing" /\ Cursor < Rank(table, i)}
            BY <1>6 DEF Coming
        <3>2. Coming' = {i \in table' : phase = "listing" /\ Cursor < Rank(table', i)}
            BY <1>1, <1>6, <2>1 DEF Coming, Cursor
        <3>. QED
            BY <1>1, <1>2, <1>3, <3>1, <3>2
    <2>3. d \notin Truth /\ d \notin View
        BY <1>2, <2>2 DEF Truth, View, KeptView, Kept
    <2>4. View' \ {d} = View \ {d}
        <3>1. ASSUME NEW i \in Coming PROVE Fits(i)' <=> Fits(i)
            <4>1. i \in Id /\ i # d
                BY <1>2, <2>2, ViewTypes DEF WalkInv
            <4>. QED
                BY <1>1, <4>1 DEF Fits
        <3>2. View' = KeptView' \cup {i \in Coming' : Fits(i)'}
            BY DEF View
        <3>. QED
            BY <2>1, <2>2, <3>1, <3>2 DEF View
    <2>5. OnlyRow(MaxRow, d, ViewKey, ViewKey', View, View')
        BY <2>1, <2>4 DEF OnlyRow
    <2>6. Loss(Plain, Unseen', ViewKey', View', TrueKey', Truth', Due, edits + 1)
        BY <1>0, <1>1, <2>1, <2>3, <2>5, EditedLoss, EditBehind
    <2>. QED
        BY <1>0, <1>1, <1>4, <2>6, EditedWalkInv
<1>. QED
    BY <1>5, <1>6

\* A changed row that was listed keeps its place in the view, and leaves it or joins it only as a
\* lead whose owners have yet to be read.
LEMMA ChangeWalkInv ==
    ASSUME WalkInv, NEW v \in Row, NEW d \in table, ChangeRow(d, v)
    PROVE  WalkInv'
<1>0. CallInv'
    BY EditCallInv DEF WalkInv
<1>1. /\ d \in Id /\ stable' = stable \ {d} /\ row \in [Id -> Row]
      /\ row' = [row EXCEPT ![d] = v] /\ table' = table
      /\ UNCHANGED <<phase, tool, offset, seen, copy, cache, listed, page, more>>
      /\ edits' = edits + 1 /\ phase # "failed" /\ ~ Walked
    BY ViewTypes DEF WalkInv, CallInv, WalkTypeOK, ChangeRow, Edit, vars, walk, Walked
<1>2. Edited(d)
    BY <1>1 DEF Edited
<1>3. CASE ~ Calling
    BY <1>0, <1>1, <1>2, <1>3, EditBetween
<1>4. CASE Calling
    <2>1. /\ OnlyRow(MaxRow, d, TrueKey, TrueKey', Truth, Truth')
          /\ Unseen' \in SUBSET Unseen /\ d \notin Unseen'
          /\ Kept' = Kept /\ (Calling' <=> Calling)
          /\ KeptView' \ {d} = KeptView \ {d}
          /\ \A i \in (1..MaxRow) \ {d} : ViewKey'[i] = ViewKey[i]
        BY <1>2, EditedView
    <2>2. Coming' = Coming /\ Coming \subseteq table /\ table \subseteq Id /\ Kept \cap Coming = {}
        BY <1>1, <1>4, <2>1, ViewTypes DEF Coming, Cursor, WalkInv
    <2>3. \A i \in Id \ {d} : Fits(i)' <=> Fits(i)
        BY <1>1 DEF Fits
    <2>4. View' = KeptView' \cup {i \in Coming : Fits(i)'}
        BY <2>2 DEF View
    <2>5. View' \ {d} = View \ {d}
        BY <2>1, <2>2, <2>3, <2>4 DEF View
    <2>6. OnlyRow(MaxRow, d, ViewKey, ViewKey', View, View')
        BY <2>1, <2>5 DEF OnlyRow
    <2>7. Loss(Plain, Unseen', ViewKey', View', TrueKey', Truth', Due, edits + 1)
        <3>1. CASE d \in Coming
            <4>1. d \notin KeptView /\ d \notin KeptView' /\ d \notin Kept
                BY <2>1, <2>2, <3>1 DEF KeptView
            <4>2. (d \in View <=> d \in Truth) /\ (d \in View' <=> d \in Truth')
                BY <1>1, <2>4, <3>1, <4>1 DEF View, Truth
            <4>3. ViewKey[d] = TrueKey[d] /\ ViewKey'[d] = TrueKey'[d]
                BY <1>1, <2>1, <4>1 DEF ViewKey, TrueKey
            <4>4. \A i \in Unseen' : ViewKey[i] = TrueKey[i]
                BY <1>0, <1>1, <2>1, EditedLoss
            <4>. QED
                BY <1>0, <1>1, <2>1, <2>6, <4>2, <4>3, <4>4, EditedLoss, EditAhead
        <3>2. CASE d \notin Coming /\ d \in View /\ d \notin View'
            <4>1. d \in Kept
                BY <3>2 DEF View, KeptView
            <4>2. ViewKey' = ViewKey
                <5>1. ASSUME NEW i \in Id PROVE ViewKey'[i] = ViewKey[i]
                    BY <1>1, <2>1, <4>1 DEF ViewKey
                <5>. QED
                    BY <5>1 DEF ViewKey
            <4>3. View' = View \ {d}
                BY <2>5, <3>2
            <4>. QED
                BY <1>0, <1>1, <2>1, <3>2, <4>2, <4>3, EditedLoss, EditDrops
        <3>3. CASE d \notin Coming /\ ~ (d \in View /\ d \notin View')
            <4>1. d \in View => ViewKey'[d] = ViewKey[d]
                BY <1>1, <2>1, <3>3 DEF View, KeptView, ViewKey
            <4>2. d \in View' /\ d \notin View => d \notin Truth
                <5>1. SUFFICES ASSUME d \in KeptView', d \notin KeptView
                               PROVE  ~ Fits(d)
                    BY <2>4, <3>3 DEF View, Truth
                <5>2. d \in Kept /\ copy[d].fits /\ tool = "owner" /\ ~ OwnerShown(d) /\ OwnerShown(d)'
                    BY <1>1, <2>1, <5>1 DEF KeptView
                <5>3. d \notin DOMAIN cache
                    BY <1>1, <5>2 DEF OwnerShown
                <5>. QED
                    BY <5>2, <5>3 DEF OwnerShown, Fits
            <4>. QED
                BY <1>0, <1>1, <2>1, <2>6, <3>3, <4>1, <4>2, EditedLoss, EditBehind
        <3>. QED
            BY <3>1, <3>2, <3>3
    <2>. QED
        BY <1>0, <1>1, <1>2, <2>7, EditedWalkInv
<1>. QED
    BY <1>3, <1>4

\* A deletion takes the row from the pages to come, or moves one of theirs to a page that was
\* read.
LEMMA DeleteWalkInv ==
    ASSUME WalkInv, NEW d \in table, DeleteRow(d)
    PROVE  WalkInv'
<1>0. CallInv'
    <2>1. row[d] \in Row
        BY ViewTypes DEF WalkInv, CallInv, WalkTypeOK
    <2>. QED
        BY <2>1, EditCallInv DEF WalkInv
<1>1. /\ d \in Id /\ stable' = stable \ {d} /\ row' = row /\ table' = table \ {d}
      /\ UNCHANGED <<phase, tool, offset, seen, copy, cache, listed, page, more>>
      /\ edits' = edits + 1 /\ phase # "failed" /\ ~ Walked
    BY ViewTypes DEF WalkInv, DeleteRow, Delete, Edit, walk, Walked
<1>2. Edited(d)
    BY <1>1 DEF Edited
<1>3. CASE ~ Calling
    BY <1>0, <1>1, <1>2, <1>3, EditBetween
<1>4. CASE Calling
    <2>1. /\ OnlyRow(MaxRow, d, TrueKey, TrueKey', Truth, Truth')
          /\ Unseen' \in SUBSET Unseen /\ d \notin Unseen'
          /\ Kept' = Kept /\ (Calling' <=> Calling)
        BY <1>2, EditedView
    <2>2. ViewKey' = ViewKey /\ KeptView' = KeptView
        BY <1>1, <2>1 DEF ViewKey, KeptView, OwnerShown
    <2>3. View' = KeptView \cup {i \in Coming' : Fits(i)}
        BY <1>1, <2>2 DEF View, Fits
    <2>4. /\ table \in SUBSET (1..MaxRow) /\ MaxRow \in Nat /\ Kept \cap Coming = {}
        BY ViewTypes, <1>4 DEF WalkInv, Rows
    <2>5. /\ Coming = {i \in table : phase = "listing" /\ Cursor < Rank(table, i)}
          /\ Coming' = {i \in table \ {d} : phase = "listing" /\ Cursor < Rank(table \ {d}, i)}
        BY <1>1, <1>4, <2>1 DEF Coming, Cursor
    <2>6. \A i \in table : Rank(table, i) \in Nat
        BY <2>4, RankType
    <2>7. \A i \in table \ {d} : /\ Rank(table \ {d}, i) \in Nat
                                 /\ Rank(table \ {d}, i) <= Rank(table, i)
                                 /\ Rank(table, i) <= Rank(table \ {d}, i) + 1
        <3>1. table \ {d} \in SUBSET (1..MaxRow)
            BY <2>4
        <3>. QED
            BY <2>4, <3>1, RankType, RankDelete
    <2>8. phase = "listing" => Cursor \in Nat
        BY Facts DEF WalkInv, CallInv, ListInv
    <2>9. Coming' \subseteq Coming /\ d \notin Coming'
        BY <2>5, <2>6, <2>7, <2>8
    <2>10. \A i \in (1..MaxRow) \ {d} : ViewKey'[i] = ViewKey[i]
        BY <2>2
    <2>11. Loss(Plain, Unseen', ViewKey', View', TrueKey', Truth', Due, edits + 1)
        <3>1. CASE d \in Coming
            <4>1. Coming' = Coming \ {d}
                <5>1. ASSUME NEW i \in Coming, i # d PROVE Cursor < Rank(table \ {d}, i)
                    <6>1. /\ i \in table \ {d} /\ Cursor \in Nat
                          /\ Cursor < Rank(table, i) /\ Cursor < Rank(table, d)
                        BY <2>5, <2>8, <3>1, <5>1
                    <6>2. CASE Rank(table, i) < Rank(table, d)
                        <7>1. Rank(table \ {d}, i) = Rank(table, i)
                            BY <2>4, <6>1, <6>2, RankDeleteLater
                        <7>. QED
                            BY <6>1, <7>1
                    <6>3. CASE ~ (Rank(table, i) < Rank(table, d))
                        <7>1. Rank(table, i) # Rank(table, d)
                            BY <2>4, <6>1, RankInjective
                        <7>. QED
                            BY <2>6, <2>7, <6>1, <6>3, <7>1
                    <6>. QED
                        BY <6>2, <6>3
                <5>. QED
                    BY <2>5, <2>9, <5>1
            <4>2. d \notin Kept /\ d \notin KeptView
                BY <2>4, <3>1 DEF KeptView
            <4>3. View' \ {d} = View \ {d} /\ d \notin View' /\ (d \in View <=> Fits(d))
                BY <2>3, <3>1, <4>1, <4>2 DEF View
            <4>4. (d \in Truth <=> Fits(d)) /\ d \notin Truth'
                BY <1>1 DEF Truth
            <4>5. ViewKey[d] = TrueKey[d]
                BY <1>1, <4>2 DEF ViewKey, TrueKey
            <4>6. OnlyRow(MaxRow, d, ViewKey, ViewKey', View, View')
                BY <2>10, <4>3 DEF OnlyRow
            <4>7. \A i \in Unseen' : ViewKey[i] = TrueKey[i]
                BY <1>0, <1>1, <2>1, EditedLoss
            <4>. QED
                BY <1>0, <1>1, <2>1, <4>3, <4>4, <4>5, <4>6, <4>7, EditedLoss, EditAhead
        <3>2. ASSUME NEW r \in View, r \notin View'
              PROVE  Loss(Plain, Unseen', ViewKey', View', TrueKey', Truth', Due, edits + 1) \/ d \in Coming
            <4>. SUFFICES ASSUME d \notin Coming
                          PROVE  Loss(Plain, Unseen', ViewKey', View', TrueKey', Truth', Due, edits + 1)
                OBVIOUS
            <4>1. ASSUME NEW i \in View, i \notin View'
                  PROVE  i \in table /\ Rank(table, i) = Cursor + 1
                <5>1. i \in Coming /\ i \notin Coming' /\ i # d
                    BY <2>3, <4>1 DEF View
                <5>. QED
                    BY <2>5, <2>6, <2>7, <2>8, <5>1
            <4>2. View' = View \ {r}
                <5>1. View' \subseteq View
                    BY <2>3, <2>9 DEF View
                <5>2. ASSUME NEW i \in View, i \notin View' PROVE i = r
                    BY <2>4, <3>2, <4>1, <5>2, RankInjective
                <5>. QED
                    BY <3>2, <5>1, <5>2
            <4>. QED
                BY <1>0, <1>1, <2>1, <2>2, <4>2, EditedLoss, EditDrops
        <3>3. CASE d \notin Coming /\ View \subseteq View'
            <4>1. View' = View
                BY <2>3, <2>9, <3>3 DEF View
            <4>2. OnlyRow(MaxRow, d, ViewKey, ViewKey', View, View')
                BY <2>10, <4>1 DEF OnlyRow
            <4>3. d \in View => d \in View' /\ ViewKey'[d] = ViewKey[d]
                BY <2>2, <4>1
            <4>4. d \in View' /\ d \notin View => d \notin Truth
                BY <4>1
            <4>. QED
                BY <1>0, <1>1, <2>1, <4>2, <4>3, <4>4, EditedLoss, EditBehind
        <3>. QED
            BY <3>1, <3>2, <3>3
    <2>. QED
        BY <1>0, <1>1, <1>2, <2>11, EditedWalkInv
<1>. QED
    BY <1>3, <1>4

---------------------------------------------------------------------------
(* The invariant *)

\* A walk that fails claims nothing any more.
LEMMA FailsWalkInv ==
    ASSUME WalkInv, ListingFails \/ LookupFails
    PROVE  WalkInv'
<1>1. CallInv'
    BY FailsCallInv DEF WalkInv
<1>2. phase' = "failed"
    BY DEF ListingFails, LookupFails
<1>. QED
    BY <1>1, <1>2 DEF WalkInv, LossInv, QuietInv, Walked

\* The first call will view the rows as they are.
LEMMA InitWalkInv == SearchInit => WalkInv
<1>. SUFFICES ASSUME SearchInit PROVE WalkInv
    OBVIOUS
<1>0. CallInv
    BY InitCallInv
<1>1. ~ Calling /\ ~ Walked /\ Due = 0 /\ edits = 0 /\ seen = [i \in Id |-> 0]
    BY DEF SearchInit, Calling, Walked, Due
<1>2. View = Truth /\ ViewKey = TrueKey
    BY <1>0, <1>1, ViewBetween
<1>3. stable = Truth
    BY DEF SearchInit, Truth
<1>4. /\ MaxRow \in Nat /\ Id = 1..MaxRow /\ TrueKey \in Keys(MaxRow) /\ Truth \in Rows(MaxRow)
      /\ Unseen \in Rows(MaxRow) /\ Unseen \subseteq Truth
    BY <1>0, <1>3, ViewTypes
<1>5. \A i \in Id : Place(Plain, TrueKey, Truth, i) \in Nat
    BY <1>4, PlaceType
<1>6. QuietInv
    <2>1. \A i \in Id : ~ (Place(Plain, TrueKey, Truth, i) < 0)
        BY <1>5
    <2>. QED
        BY <1>1, <1>2, <1>3, <2>1 DEF QuietInv
<1>7. Loss(Plain, Unseen, TrueKey, Truth, TrueKey, Truth, 0, 0)
    <2>1. LostRows(Plain, TrueKey, Unseen, Truth, 0) = {}
        <3>1. ASSUME NEW i \in Unseen PROVE i \in Truth /\ ~ (Place(Plain, TrueKey, Truth, i) < 0)
            BY <1>4, <1>5 DEF Rows
        <3>. QED
            BY <3>1 DEF LostRows
    <2>2. Cardinality({}) = 0
        BY FS_EmptySet
    <2>3. ASSUME NEW t \in Unseen
          PROVE  /\ Place(Plain, TrueKey, {}, t) = 0
                 /\ Place(Plain, TrueKey, Truth, t) \in Nat
        <3>1. Behind(Plain, TrueKey, {}, t) = {}
            BY DEF Behind
        <3>. QED
            BY <1>4, <1>5, <2>2, <3>1 DEF Place, Rows
    <2>. QED
        BY <2>1, <2>2, <2>3 DEF Loss
<1>8. LossInv
    BY <1>1, <1>2, <1>7 DEF LossInv
<1>. QED
    BY <1>0, <1>1, <1>6, <1>8 DEF WalkInv

\* A walk may rest.
LEMMA RestWalkInv ==
    ASSUME WalkInv, UNCHANGED searchVars
    PROVE  WalkInv'
<1>1. /\ UNCHANGED <<row, edits, stable, phase, tool, offset, seen, copy, cache, shown, more>>
      /\ UNCHANGED <<table, born, page, listed, count, answer, before, deleted>>
    BY DEF searchVars, vars, data, walk
<1>2. Candidates' = Candidates /\ Selected' = Selected /\ HasMore' = HasMore
    BY <1>1, SameAnswer
<1>3. ListInv'
    <2>1. Inv => Inv'
        BY <1>1, OtherInv DEF vars
    <2>. QED
        BY <1>1, <2>1 DEF WalkInv, CallInv, ListInv, TypeOK, TableInv, ListedOnce, MissedOnlyByDeletion, Lasting
<1>4. CallInv'
    BY <1>1, <1>2, <1>3 DEF WalkInv, CallInv, WalkTypeOK, RecallInv, OwnersInv, AnswerInv, Calling, Fits
<1>5. Kept' = Kept /\ Coming' = Coming /\ Truth' = Truth /\ TrueKey' = TrueKey
    BY <1>1 DEF Kept, Coming, Cursor, Calling, Truth, TrueKey, Fits
<1>6. View' = View /\ ViewKey' = ViewKey /\ Unseen' = Unseen /\ Due' = Due /\ Plain' = Plain
    BY <1>1, <1>2, <1>5 DEF View, KeptView, OwnerShown, ViewKey, Unseen, Due, Plain, Fits
<1>7. LossInv' /\ QuietInv' /\ (Walked' <=> Walked) /\ Missed' = Missed
    BY <1>1, <1>5, <1>6 DEF WalkInv, LossInv, QuietInv, Walked, Missed
<1>. QED
    BY <1>1, <1>4, <1>7 DEF WalkInv

\* Every step of a walk keeps the invariant.
LEMMA NextWalkInv == WalkInv /\ [SearchNext]_searchVars => WalkInv'
<1>. SUFFICES ASSUME WalkInv, [SearchNext]_searchVars PROVE WalkInv'
    OBVIOUS
<1>1. CASE Start \/ Continue
    BY <1>1, StartWalkInv
<1>2. CASE ListPage
    BY <1>2, ListPageWalkInv
<1>3. CASE Filter \/ Detail
    BY <1>3, LookupWalkInv
<1>4. CASE Return
    BY <1>4, ReturnWalkInv
<1>5. CASE ListingFails \/ LookupFails
    BY <1>5, FailsWalkInv
<1>6. CASE \E v \in Row : InsertRow(v)
    BY <1>6, InsertWalkInv
<1>7. CASE \E v \in Row : \E i \in table : ChangeRow(i, v)
    BY <1>7, ChangeWalkInv
<1>8. CASE \E i \in table : DeleteRow(i)
    BY <1>8, DeleteWalkInv
<1>9. CASE UNCHANGED searchVars
    BY <1>9, RestWalkInv
<1>. QED
    BY <1>1, <1>2, <1>3, <1>4, <1>5, <1>6, <1>7, <1>8, <1>9 DEF SearchNext

\* What a walk relies on holds throughout.
LEMMA WalkInvariance == SearchSpec => []WalkInv
BY InitWalkInv, NextWalkInv, PTL DEF SearchSpec

---------------------------------------------------------------------------
(* Results *)

\* The variables of a walk and of its listings keep their types: the offset of a call stays within
\* the rows that there can be, and what was read about owners is about rows that were listed.
THEOREM SearchTypeCorrect == SearchSpec => []SearchTypeOK
<1>1. WalkInv => SearchTypeOK
    BY DEF WalkInv, CallInv, ListInv, SearchTypeOK
<1>. QED
    BY <1>1, WalkInvariance, PTL

\* Whatever others edit between two calls or while a call lists, each call collects no row twice
\* and misses one lasting row at most for each row deleted: what Listing promises of a listing of
\* its own holds of every call of a walk.
THEOREM CallListsOnce == SearchSpec => [](ListedOnce /\ MissedOnlyByDeletion)
<1>1. WalkInv => ListedOnce /\ MissedOnlyByDeletion
    BY DEF WalkInv, CallInv, ListInv
<1>. QED
    BY <1>1, WalkInvariance, PTL

\* A walk over all offsets that nobody disturbs returns each row that matches once, and no walk
\* misses more lasting rows than there were edits: for any table, contents, page size and limit.
THEOREM WalkCompletes == SearchSpec => []WalkIsComplete
<1>1. WalkInv => WalkIsComplete
    <2>. SUFFICES ASSUME WalkInv, Walked
                  PROVE  /\ edits = 0 => \A i \in Id : seen[i] = IF i \in stable THEN 1 ELSE 0
                         /\ Cardinality(Missed) <= edits
        BY DEF WalkIsComplete
    <2>1. phase # "failed"
        BY DEF Walked
    <2>. QED
        BY <2>1 DEF WalkInv, QuietInv
<1>. QED
    BY <1>1, WalkInvariance, PTL

\* A search for the leads of one owner shows that owner in each lead it returns, even if it is
\* replaced between the filter and the answer.
THEOREM LeadShowsOwner == SearchSpec => []OwnerIsShown
<1>1. WalkInv => OwnerIsShown
    <2>. SUFFICES ASSUME WalkInv, phase = "answered", tool = "owner", NEW i \in Selected
                  PROVE  shown[i]
        BY DEF OwnerIsShown
    <2>1. i \in Candidates /\ cache[i]
        BY DEF Selected, Matches
    <2>2. i \in DOMAIN shown /\ i \in DOMAIN cache /\ shown[i] = cache[i]
        BY <2>1 DEF WalkInv, CallInv, AnswerInv, OwnersInv
    <2>. QED
        BY <2>1, <2>2
<1>. QED
    BY <1>1, WalkInvariance, PTL
=============================================================================
