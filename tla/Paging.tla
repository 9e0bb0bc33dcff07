------------------------------- MODULE Paging -------------------------------
(***************************************************************************)
(* Pages of a Dolibarr list (external): the rows a caller may read, by      *)
(* ascending id, cut into pages of PageSize.  Dolibarr cuts the table as it *)
(* is when a page is asked for; there is no cursor.                         *)
(***************************************************************************)
EXTENDS Naturals, FiniteSets

CONSTANT PageSize       \* _UPSTREAM_PAGE_SIZE

ASSUME PageSizeAssumption == PageSize \in Nat \ {0}

\* The number of rows up to the row with id i.
Rank(table, i) == Cardinality({j \in table : j <= i})

\* The rows of page p, counted from 0.
PageOf(table, p) == {i \in table : p * PageSize < Rank(table, i) /\ Rank(table, i) <= (p + 1) * PageSize}
=============================================================================
