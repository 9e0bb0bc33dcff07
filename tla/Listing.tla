------------------------------ MODULE Listing ------------------------------
(***************************************************************************)
(* The list methods of DolibarrClient (src/src/dolibarr_mcp/client.py):     *)
(* list_tasks, list_users, list_leave_types, list_leave_requests,           *)
(* list_invoices, list_thirdparties, list_projects and                      *)
(* list_lead_stage_observations are the same loop.  Each page is a GET of   *)
(* its own, and Dolibarr's users add and delete rows between two of them.   *)
(***************************************************************************)
EXTENDS Paging

CONSTANTS
    Pages,      \* the number of pages the loop asks for at most
    MaxRow      \* bound on the ids Dolibarr gives to rows

ASSUME PagesAssumption == Pages \in Nat \ {0}
ASSUME RowAssumption == MaxRow \in Nat

VARIABLES
    table,      \* Dolibarr: the ids of the rows the caller may read
    born,       \* Dolibarr: the last id it gave to a row
    page,       \* the page the loop asks for next
    listed,     \* the ids in the rows collected so far
    count,      \* the number of rows collected so far
    answer,     \* how the loop ended
    before,     \* history: the table when the first page was asked for
    deleted     \* history: rows deleted since

vars == <<table, born, page, listed, count, answer, before, deleted>>

TypeOK ==
    /\ table \subseteq 1..MaxRow
    /\ born \in 0..MaxRow
    /\ page \in 0..Pages
    /\ listed \subseteq 1..MaxRow
    /\ count \in 0..Pages * PageSize
    /\ answer \in {"none", "rows", "limit", "failed"}
    /\ before \subseteq 1..MaxRow
    /\ deleted \subseteq 1..MaxRow

Init ==
    /\ born \in 0..MaxRow
    /\ table \in SUBSET (1..born)
    /\ page = 0
    /\ listed = {}
    /\ count = 0
    /\ answer = "none"
    /\ before = table
    /\ deleted = {}

---------------------------------------------------------------------------
(* The loop *)

\* Mutant: every iteration asks for the first page.
MutantGetPage ==
    LET current == PageOf(table, 0)
    IN  /\ answer = "none" /\ page < Pages
        /\ listed' = listed \cup current
        /\ count' = count + Cardinality(current)
        /\ page' = page + 1
        /\ answer' = IF Cardinality(current) < PageSize THEN "rows" ELSE answer
        /\ UNCHANGED <<table, born, before, deleted>>

\* One iteration: a short page is the last one.
GetPage ==
    LET current == PageOf(table, page)
    IN  /\ answer = "none" /\ page < Pages
        /\ listed' = listed \cup current
        /\ count' = count + Cardinality(current)
        /\ page' = page + 1
        /\ answer' = IF Cardinality(current) < PageSize THEN "rows" ELSE answer
        /\ UNCHANGED <<table, born, before, deleted>>

\* Mutant: the rows of the pages that were read are returned without a word.
MutantExhausted ==
    /\ answer = "none" /\ page = Pages
    /\ answer' = "rows"
    /\ UNCHANGED <<table, born, page, listed, count, before, deleted>>

\* All pages were full: DolibarrResultLimitError.
Exhausted ==
    /\ answer = "none" /\ page = Pages
    /\ answer' = "limit"
    /\ UNCHANGED <<table, born, page, listed, count, before, deleted>>

\* A GET fails, and the listing with it.
PageFails ==
    /\ answer = "none" /\ page < Pages
    /\ answer' = "failed"
    /\ UNCHANGED <<table, born, page, listed, count, before, deleted>>

---------------------------------------------------------------------------
(* Dolibarr's users: external *)

\* New rows come last, their ids being given in order.
Insert ==
    /\ born < MaxRow
    /\ born' = born + 1
    /\ table' = table \cup {born'}
    /\ UNCHANGED <<page, listed, count, answer, before, deleted>>

Delete(i) ==
    /\ i \in table
    /\ table' = table \ {i}
    /\ deleted' = deleted \cup {i}
    /\ UNCHANGED <<born, page, listed, count, answer, before>>

Next ==
    \/ GetPage \/ Exhausted \/ PageFails
    \/ answer = "none" /\ Insert
    \/ answer = "none" /\ \E i \in table : Delete(i)

Spec == Init /\ [][Next]_vars

---------------------------------------------------------------------------
(* What is claimed *)

\* No row is collected twice, whatever is added and deleted between two pages:
\* totals and duplicate lists computed on the rows count each record once.
ListedOnce == count = Cardinality(listed)

\* A row that is there from the first GET to the last one can only be missing
\* because rows before it were deleted in between and moved it to a page that
\* had been read: one row at most is missed for each row deleted.
Lasting == before \ deleted

MissedOnlyByDeletion ==
    answer = "rows" => Cardinality(Lasting \ listed) <= Cardinality(deleted)

\* README.md: "requests fail explicitly beyond 1000 accessible tasks"; "leave
\* searches process at most 10,000 accessible requests".  So a caller who may read
\* no more rows than the bound is not refused.
FailsOnlyBeyondBound ==
    answer = "limit" => Cardinality(before \cup table \cup deleted) > Pages * PageSize
=============================================================================
