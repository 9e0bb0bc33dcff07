--------------------------- MODULE ListingProofs ---------------------------
(***************************************************************************)
(* Listing, for pages of any size, any number of them and any table.  The   *)
(* rows are told apart by their ranks: the loop has read the rows up to     *)
(* rank page * PageSize, and a deletion lowers the ranks behind it by one.  *)
(***************************************************************************)
EXTENDS Listing, PagingProofs

Cursor == page * PageSize

\* Rows that will never be asked for again without having been collected.
Skipped == {i \in Lasting \ listed : Rank(table, i) <= Cursor}

TableInv ==
    /\ table \subseteq 1..born /\ before \subseteq 1..born /\ deleted \subseteq 1..born
    /\ listed \subseteq 1..born
    /\ table \cap deleted = {}
    /\ before \subseteq table \cup deleted

LoopInv ==
    /\ \A i \in listed \cap table : Rank(table, i) <= Cursor
    /\ count = Cardinality(listed)
    /\ count <= Cursor
    /\ Cardinality(Skipped) <= Cardinality(deleted)
    /\ answer = "rows" => \A i \in table : Rank(table, i) <= Cursor

Inv == TypeOK /\ TableInv /\ LoopInv

---------------------------------------------------------------------------
(* Every step keeps the invariant *)

\* No row is missed before the first page.
LEMMA InitInv == Init => Inv
<1>. SUFFICES ASSUME Init PROVE Inv
    OBVIOUS
<1>1. TypeOK /\ TableInv
    BY PageSizeAssumption, PagesAssumption, RowAssumption DEF Init, TypeOK, TableInv
<1>2. Cursor = 0
    BY PageSizeAssumption DEF Init, Cursor
<1>3. Skipped = {}
    <2>1. born \in Nat /\ table \in SUBSET (1..born)
        BY RowAssumption DEF Init
    <2>2. \A i \in table : Rank(table, i) # 0
        <3>1. ASSUME NEW i \in table PROVE Rank(table, i) # 0
            <4>1. Rank(table, i) \in 1..Cardinality(table)
                BY <2>1, RankType
            <4>2. Cardinality(table) \in Nat
                BY <2>1, Finite
            <4>. QED
                BY <4>1, <4>2
        <3>. QED
            BY <3>1
    <2>3. \A i \in table : Rank(table, i) \in Nat
        BY <2>1, RankType
    <2>4. ASSUME NEW i \in Skipped PROVE FALSE
        <3>1. i \in table /\ Rank(table, i) <= Cursor
            BY DEF Init, Skipped, Lasting
        <3>. QED
            BY <1>2, <2>2, <2>3, <3>1
    <2>. QED
        BY <2>4
<1>4. Cardinality({}) = 0
    BY FS_EmptySet
<1>. QED
    BY <1>1, <1>2, <1>3, <1>4 DEF Init, LoopInv, Inv

\* What the invariant says of the sets of ids.
LEMMA Facts ==
    ASSUME Inv
    PROVE  /\ born \in Nat /\ table \in SUBSET (1..born)
           /\ Cursor \in Nat /\ (page + 1) * PageSize = Cursor + PageSize
           /\ PageSize \in Nat \ {0} /\ page \in Nat
           /\ Lasting \subseteq table
           /\ IsFiniteSet(listed) /\ IsFiniteSet(deleted) /\ IsFiniteSet(Skipped)
           /\ Cardinality(listed) \in Nat /\ Cardinality(deleted) \in Nat
           /\ Cardinality(Skipped) \in Nat
           /\ \A i \in table : Rank(table, i) \in Nat
<1>1. born \in Nat /\ table \in SUBSET (1..born)
    BY RowAssumption DEF Inv, TypeOK, TableInv
<1>2. page \in Nat /\ PageSize \in Nat \ {0}
    BY PageSizeAssumption, PagesAssumption DEF Inv, TypeOK
<1>3. Cursor \in Nat /\ (page + 1) * PageSize = Cursor + PageSize
    BY <1>2 DEF Cursor
<1>4. Lasting \subseteq table
    BY DEF Inv, TableInv, Lasting
<1>5. listed \in SUBSET (1..born) /\ deleted \in SUBSET (1..born) /\ Skipped \in SUBSET (1..born)
    BY <1>1, <1>4 DEF Inv, TableInv, Skipped
<1>6. /\ IsFiniteSet(listed) /\ IsFiniteSet(deleted) /\ IsFiniteSet(Skipped)
      /\ Cardinality(listed) \in Nat /\ Cardinality(deleted) \in Nat
      /\ Cardinality(Skipped) \in Nat
    BY <1>1, <1>5, Finite
<1>7. \A i \in table : Rank(table, i) \in Nat
    BY <1>1, RankType
<1>. QED
    BY <1>1, <1>2, <1>3, <1>4, <1>6, <1>7

\* A page holds rows that were not collected and leaves none behind the cursor.
LEMMA GetPageInv == Inv /\ GetPage => Inv'
<1>. SUFFICES ASSUME Inv, GetPage PROVE Inv'
    OBVIOUS
<1>. DEFINE current == PageOf(table, page)
<1>1. /\ born \in Nat /\ table \in SUBSET (1..born)
      /\ Cursor \in Nat /\ (page + 1) * PageSize = Cursor + PageSize
      /\ PageSize \in Nat \ {0} /\ page \in Nat
      /\ \A i \in table : Rank(table, i) \in Nat
    BY Facts
<1>2. current = {i \in table : Cursor < Rank(table, i) /\ Rank(table, i) <= Cursor + PageSize}
    BY <1>1 DEF PageOf, Cursor
<1>3. /\ Cardinality(current) \in 0..PageSize
      /\ Cardinality(current) < PageSize =>
           \A i \in table : Rank(table, i) <= Cursor + PageSize
    BY <1>1, PageCardinality
<1>4. /\ page < Pages /\ answer = "none"
      /\ listed' = listed \cup current /\ count' = count + Cardinality(current)
      /\ page' = page + 1
      /\ answer' = IF Cardinality(current) < PageSize THEN "rows" ELSE answer
      /\ table' = table /\ born' = born /\ before' = before /\ deleted' = deleted
    BY DEF GetPage
<1>. HIDE DEF current
<1>5. Cursor' = Cursor + PageSize
    BY <1>1, <1>4 DEF Cursor
<1>6. Cursor' <= Pages * PageSize
    <2>1. page + 1 <= Pages /\ Pages \in Nat
        BY <1>1, <1>4, PagesAssumption
    <2>2. (page + 1) * PageSize <= Pages * PageSize
        BY <1>1, <2>1
    <2>. QED
        BY <1>1, <1>5, <2>2
<1>7. current \subseteq table /\ IsFiniteSet(current)
    BY <1>1, <1>2, Finite
<1>8. count' = Cardinality(listed') /\ count' \in Nat /\ count' <= Cursor'
    <2>1. ASSUME NEW i \in listed, i \in current PROVE FALSE
        <3>1. i \in table /\ Cursor < Rank(table, i)
            BY <1>2, <2>1
        <3>2. Rank(table, i) <= Cursor
            BY <2>1, <3>1 DEF Inv, LoopInv
        <3>. QED
            BY <1>1, <3>1, <3>2
    <2>2. Cardinality(listed \cup current) = Cardinality(listed) + Cardinality(current)
        <3>1. listed \cap current = {}
            BY <2>1
        <3>2. IsFiniteSet(listed) /\ Cardinality(listed) \in Nat
            BY Facts
        <3>3. Cardinality(listed \cup current) =
                Cardinality(listed) + Cardinality(current) - Cardinality({})
            BY <1>7, <3>1, <3>2, FS_Union
        <3>. QED
            BY <1>3, <3>2, <3>3, FS_EmptySet
    <2>3. count = Cardinality(listed) /\ count \in Nat /\ count <= Cursor
        BY Facts DEF Inv, LoopInv
    <2>. QED
        BY <1>1, <1>3, <1>4, <1>5, <2>2, <2>3
<1>9. TypeOK'
    <2>1. count' \in 0..Pages * PageSize
        BY <1>1, <1>5, <1>6, <1>8, PagesAssumption
    <2>2. listed' \subseteq 1..MaxRow
        BY <1>4, <1>7 DEF Inv, TypeOK
    <2>3. page' \in 0..Pages
        BY <1>1, <1>4, PagesAssumption
    <2>. QED
        BY <1>4, <2>1, <2>2, <2>3 DEF Inv, TypeOK
<1>10. TableInv'
    BY <1>1, <1>4, <1>7 DEF Inv, TableInv
<1>11. \A i \in listed' \cap table' : Rank(table', i) <= Cursor'
    <2>1. ASSUME NEW i \in listed \cup current, i \in table
          PROVE  Rank(table, i) <= Cursor + PageSize
        <3>1. CASE i \in current
            BY <1>2, <3>1
        <3>2. CASE i \in listed
            <4>1. Rank(table, i) <= Cursor
                BY <2>1, <3>2 DEF Inv, LoopInv
            <4>. QED
                BY <1>1, <2>1, <4>1
        <3>. QED
            BY <2>1, <3>1, <3>2
    <2>. QED
        BY <1>4, <1>5, <2>1
<1>12. Cardinality(Skipped') <= Cardinality(deleted')
    <2>0. ASSUME NEW i \in Skipped' PROVE i \in Skipped
        <3>1. i \in Lasting \ listed /\ i \notin current
              /\ Rank(table, i) <= Cursor + PageSize
            BY <1>4, <1>5 DEF Skipped, Lasting
        <3>2. i \in table
            BY <3>1, Facts
        <3>3. ~ (Cursor < Rank(table, i))
            BY <1>2, <3>1, <3>2
        <3>. QED
            BY <1>1, <3>1, <3>2, <3>3 DEF Skipped
    <2>1. Skipped' \subseteq Skipped
        BY <2>0
    <2>2. Cardinality(Skipped') <= Cardinality(Skipped)
        BY <2>1, Facts, FS_Subset
    <2>3. Cardinality(Skipped') \in Nat
        BY <2>1, Facts, FS_Subset, FS_CardinalityType
    <2>. QED
        BY <1>4, <2>2, <2>3, Facts DEF Inv, LoopInv
<1>13. answer' = "rows" => \A i \in table' : Rank(table', i) <= Cursor'
    BY <1>3, <1>4, <1>5
<1>. QED
    BY <1>8, <1>9, <1>10, <1>11, <1>12, <1>13 DEF Inv, LoopInv

\* A deletion moves at most one row to a page that has been read.
LEMMA DeleteInv ==
    ASSUME Inv, answer = "none", NEW d \in table, Delete(d)
    PROVE  Inv'
<1>1. /\ born \in Nat /\ table \in SUBSET (1..born) /\ Cursor \in Nat
      /\ Lasting \subseteq table
      /\ \A i \in table : Rank(table, i) \in Nat
    BY Facts
<1>2. /\ table' = table \ {d} /\ deleted' = deleted \cup {d}
      /\ born' = born /\ page' = page /\ listed' = listed /\ count' = count
      /\ answer' = answer /\ before' = before
    BY DEF Delete
<1>3. Cursor' = Cursor
    BY <1>2 DEF Cursor
<1>4. \A i \in table' : /\ Rank(table', i) \in Nat
                        /\ Rank(table', i) <= Rank(table, i)
                        /\ Rank(table, i) <= Rank(table', i) + 1
    <2>1. ASSUME NEW i \in table \ {d}
          PROVE  /\ Rank(table \ {d}, i) \in Nat
                 /\ Rank(table \ {d}, i) <= Rank(table, i)
                 /\ Rank(table, i) <= Rank(table \ {d}, i) + 1
        <3>1. table \ {d} \in SUBSET (1..born)
            BY <1>1
        <3>2. Rank(table \ {d}, i) \in Nat
            BY <1>1, <3>1, RankType
        <3>. QED
            BY <1>1, <3>2, RankDelete
    <2>. QED
        BY <1>2, <2>1
<1>5. TypeOK'
    BY <1>2 DEF Inv, TypeOK
<1>6. TableInv'
    BY <1>1, <1>2 DEF Inv, TableInv
<1>7. \A i \in listed' \cap table' : Rank(table', i) <= Cursor'
    <2>1. ASSUME NEW i \in listed \cap table' PROVE Rank(table', i) <= Cursor
        <3>1. i \in table /\ Rank(table, i) <= Cursor
            BY <1>2, <2>1 DEF Inv, LoopInv
        <3>. QED
            BY <1>1, <1>4, <3>1
    <2>. QED
        BY <1>2, <1>3, <2>1
<1>8. Cardinality(deleted') = Cardinality(deleted) + 1
    BY <1>2, Facts, FS_AddElement DEF Inv, TableInv
<1>9. Cardinality(Skipped') <= Cardinality(Skipped) + 1
    <2>. DEFINE x == CHOOSE i \in table : Rank(table, i) = Cursor + 1
    <2>1. ASSUME NEW i \in Skipped' PROVE i \in Skipped \cup {x}
        <3>1. i \in Lasting \ listed /\ i \in table' /\ Rank(table', i) <= Cursor
            BY <1>1, <1>2, <1>3 DEF Skipped, Lasting
        <3>2. i \in table /\ Rank(table, i) <= Cursor + 1
            BY <1>1, <1>2, <1>4, <3>1
        <3>3. CASE Rank(table, i) <= Cursor
            BY <3>1, <3>3 DEF Skipped
        <3>4. CASE Rank(table, i) = Cursor + 1
            <4>1. x \in table /\ Rank(table, x) = Cursor + 1
                BY <3>2, <3>4
            <4>2. i = x
                BY <1>1, <3>2, <3>4, <4>1, RankInjective
            <4>. QED
                BY <4>2
        <3>. QED
            BY <1>1, <3>2, <3>3, <3>4
    <2>. HIDE DEF x
    <2>2. /\ IsFiniteSet(Skipped \cup {x})
          /\ Cardinality(Skipped \cup {x}) =
               IF x \in Skipped THEN Cardinality(Skipped) ELSE Cardinality(Skipped) + 1
        BY Facts, FS_AddElement
    <2>3. Skipped' \in SUBSET (Skipped \cup {x})
        BY <2>1
    <2>4. Cardinality(Skipped') <= Cardinality(Skipped \cup {x})
        BY <2>2, <2>3, FS_Subset
    <2>5. Cardinality(Skipped') \in Nat
        BY <2>2, <2>3, FS_Subset, FS_CardinalityType
    <2>. QED
        BY <2>2, <2>4, <2>5, Facts
<1>10. Cardinality(Skipped') \in Nat
    <2>1. Skipped' \in SUBSET (1..born)
        BY <1>1, <1>2 DEF Skipped, Lasting
    <2>. QED
        BY <1>1, <2>1, Finite
<1>11. Cardinality(Skipped') <= Cardinality(deleted')
    BY <1>8, <1>9, <1>10, Facts DEF Inv, LoopInv
<1>12. count' = Cardinality(listed') /\ count' <= Cursor'
    BY <1>2, <1>3 DEF Inv, LoopInv
<1>. QED
    BY <1>2, <1>5, <1>6, <1>7, <1>11, <1>12 DEF Inv, LoopInv

\* A new row comes after all others and changes no rank.
LEMMA InsertInv == Inv /\ answer = "none" /\ Insert => Inv'
<1>. SUFFICES ASSUME Inv, answer = "none", Insert PROVE Inv'
    OBVIOUS
<1>1. born \in Nat /\ table \in SUBSET (1..born) /\ Lasting \subseteq table
    BY Facts
<1>2. /\ born < MaxRow /\ born' = born + 1 /\ table' = table \cup {born + 1}
      /\ page' = page /\ listed' = listed /\ count' = count /\ answer' = answer
      /\ before' = before /\ deleted' = deleted
    BY DEF Insert
<1>3. Cursor' = Cursor
    BY <1>2 DEF Cursor
<1>4. \A i \in table : Rank(table', i) = Rank(table, i)
    BY <1>1, <1>2, RankInsert
<1>5. TypeOK'
    BY <1>1, <1>2, RowAssumption DEF Inv, TypeOK
<1>6. TableInv'
    BY <1>1, <1>2 DEF Inv, TableInv
<1>7. \A i \in listed' \cap table' : Rank(table', i) <= Cursor'
    <2>1. born + 1 \notin listed
        BY <1>1 DEF Inv, TableInv
    <2>. QED
        BY <1>2, <1>3, <1>4, <2>1 DEF Inv, LoopInv
<1>8. Skipped' = Skipped
    BY <1>1, <1>2, <1>3, <1>4 DEF Skipped, Lasting
<1>. QED
    BY <1>2, <1>3, <1>5, <1>6, <1>7, <1>8 DEF Inv, LoopInv

\* The loop's other steps and stuttering move nothing.
LEMMA OtherInv == Inv /\ (Exhausted \/ PageFails \/ UNCHANGED vars) => Inv'
<1>. SUFFICES ASSUME Inv, Exhausted \/ PageFails \/ UNCHANGED vars PROVE Inv'
    OBVIOUS
<1>1. /\ table' = table /\ born' = born /\ page' = page /\ listed' = listed
      /\ count' = count /\ before' = before /\ deleted' = deleted
      /\ answer' \in {answer, "limit", "failed"}
    BY DEF Exhausted, PageFails, vars
<1>2. Cursor' = Cursor /\ Skipped' = Skipped
    BY <1>1 DEF Cursor, Skipped, Lasting
<1>3. TypeOK' /\ TableInv'
    BY <1>1 DEF Inv, TypeOK, TableInv
<1>. QED
    BY <1>1, <1>2, <1>3 DEF Inv, LoopInv

\* Inv is inductive.
LEMMA NextInv == Inv /\ [Next]_vars => Inv'
<1>. SUFFICES ASSUME Inv, [Next]_vars PROVE Inv'
    OBVIOUS
<1>1. CASE GetPage
    BY <1>1, GetPageInv
<1>2. CASE answer = "none" /\ Insert
    BY <1>2, InsertInv
<1>3. CASE answer = "none" /\ \E i \in table : Delete(i)
    BY <1>3, DeleteInv
<1>4. CASE Exhausted \/ PageFails \/ UNCHANGED vars
    BY <1>4, OtherInv
<1>. QED
    BY <1>1, <1>2, <1>3, <1>4 DEF Next

\* The invariant holds throughout.
LEMMA Invariance == Spec => []Inv
BY InitInv, NextInv, PTL DEF Spec

---------------------------------------------------------------------------
(* Results *)

\* The loop asks for no page beyond its bound and collects no more rows than
\* Pages * PageSize.
THEOREM TypeCorrect == Spec => []TypeOK
<1>1. Inv => TypeOK
    BY DEF Inv
<1>. QED
    BY <1>1, Invariance, PTL

\* No row is collected twice, whatever is added and deleted between pages.
THEOREM RowsListedOnce == Spec => []ListedOnce
<1>1. Inv => ListedOnce
    BY DEF Inv, LoopInv, ListedOnce
<1>. QED
    BY <1>1, Invariance, PTL

\* The invariant bounds the rows missed.
LEMMA RowsMissed == Inv => MissedOnlyByDeletion
<1>. SUFFICES ASSUME Inv, answer = "rows"
              PROVE  Cardinality(Lasting \ listed) <= Cardinality(deleted)
    BY DEF MissedOnlyByDeletion
<1>1. Lasting \ listed = Skipped
    BY Facts DEF Inv, LoopInv, Skipped
<1>. QED
    BY <1>1 DEF Inv, LoopInv

\* One row at most is missed for each row that was deleted between pages.
THEOREM MissedByDeletion == Spec => []MissedOnlyByDeletion
BY RowsMissed, Invariance, PTL
=============================================================================
