------------------------------- MODULE Search -------------------------------
(***************************************************************************)
(* The paged search tools: thirdparty_search, user_search and lead_search   *)
(* (src/src/dolibarr_mcp/sales.py), search of invoices.py and of            *)
(* leave_requests.py.  A call lists all that the caller may read, filters   *)
(* and sorts it, and returns the rows from offset on, at most limit; the    *)
(* caller goes on with the next offset while has_more is set.  Nothing is   *)
(* kept between calls, so each one lists again, while others edit.          *)
(***************************************************************************)
EXTENDS Listing

CONSTANTS
    Row,        \* what a row may hold: key, fits the filters, owned by the owner asked for
    Limit,      \* the limit that the caller passes
    MaxEdits    \* bound on edits by others

ASSUME LimitAssumption == Limit \in Nat \ {0} /\ MaxEdits \in Nat
ASSUME ContentAssumption == Row \subseteq [key : Nat, fits : BOOLEAN, owned : BOOLEAN]

Id == 1..MaxRow

\* sorted: third parties, users and leave requests; listed: invoices, in the order listed;
\* lead: leads, whose owners are read for each row; owner: leads of one owner.
Tool == {"sorted", "listed", "lead", "owner"}

\* The variables of Listing are those of the listing of the current call, and Dolibarr's table.
VARIABLES
    row,        \* Dolibarr: what each row holds
    edits,      \* edits by others since the first call
    phase,      \* where the walk is
    tool,       \* the tool it calls
    offset,     \* the offset of the current call
    copy,       \* the rows listed so far, as they were
    cache,      \* owner_cache: whether a lead has the owner asked for
    shown,      \* whether a returned lead shows that owner
    more,       \* has_more of the last answer
    seen,       \* how often the walk returned each row
    stable      \* history: rows that matched since the first call

walk == <<tool, offset, seen>>
data == <<row, edits, stable>>
searchVars == <<vars, data, phase, walk, copy, cache, shown, more>>

WalkTypeOK ==
    /\ row \in [Id -> Row]
    /\ edits \in 0..MaxEdits
    /\ phase \in {"idle", "listing", "filter", "details", "answered", "failed"}
    /\ tool \in Tool
    /\ offset \in 0..MaxRow
    /\ DOMAIN copy = listed /\ \A i \in listed : copy[i] \in Row
    /\ DOMAIN cache \subseteq listed /\ \A i \in DOMAIN cache : cache[i] \in BOOLEAN
    /\ DOMAIN shown \subseteq listed /\ \A i \in DOMAIN shown : shown[i] \in BOOLEAN
    /\ more \in BOOLEAN
    /\ seen \in [Id -> Nat]
    /\ stable \subseteq table

SearchTypeOK == TypeOK /\ WalkTypeOK

Fits(i) == row[i].fits /\ (tool = "owner" => row[i].owned)

SearchInit ==
    /\ Init
    /\ row \in [Id -> Row]
    /\ \A i, j \in Id \ table : row[i] = row[j]
    /\ edits = 0
    /\ phase = "idle"
    /\ tool \in Tool
    /\ offset = 0
    /\ copy = <<>> /\ cache = <<>> /\ shown = <<>>
    /\ more = FALSE
    /\ seen = [i \in Id |-> 0]
    /\ stable = {i \in table : Fits(i)}

---------------------------------------------------------------------------
(* One call *)

\* Mutant: the owner cache outlives its call.
MutantCall(o) ==
    /\ phase' = "listing"
    /\ offset' = o
    /\ page' = 0 /\ listed' = {} /\ count' = 0 /\ answer' = "none"
    /\ before' = table /\ deleted' = {}
    /\ copy' = <<>> /\ shown' = <<>>
    /\ UNCHANGED <<table, born, data, tool, cache, more, seen>>

\* A call begins, with a listing of its own.
Call(o) ==
    /\ phase' = "listing"
    /\ offset' = o
    /\ page' = 0 /\ listed' = {} /\ count' = 0 /\ answer' = "none"
    /\ before' = table /\ deleted' = {}
    /\ copy' = <<>> /\ cache' = <<>> /\ shown' = <<>>
    /\ UNCHANGED <<table, born, data, tool, more, seen>>

Grown(f, S, g(_)) == [i \in DOMAIN f \cup S |-> IF i \in S THEN g(i) ELSE f[i]]

\* One page of the listing; a short one ends it.
ListPage ==
    /\ phase = "listing"
    /\ GetPage
    /\ copy' = Grown(copy, PageOf(table, page), LAMBDA i : row[i])
    /\ phase' = IF answer' = "none" THEN "listing" ELSE IF tool = "owner" THEN "filter" ELSE "details"
    /\ UNCHANGED <<data, walk, cache, shown, more>>

Candidates == {i \in listed : copy[i].fits}

\* The owners of a lead are read to decide whether it matches.
Filter ==
    LET todo == Candidates \ DOMAIN cache
    IN  /\ phase = "filter"
        /\ IF todo = {}
           THEN /\ phase' = "details"
                /\ UNCHANGED cache
           ELSE /\ \E first \in todo \cap table :
                    /\ \A i \in todo : first <= i
                    /\ cache' = Grown(cache, {first}, LAMBDA i : row[i].owned)
                /\ UNCHANGED phase
        /\ UNCHANGED <<vars, data, walk, copy, shown, more>>

Matches == {i \in Candidates : tool = "owner" => cache[i]}

\* The sort key, and the id among equal keys.
Precedes(i, j) ==
    IF tool = "listed" \/ copy[i].key = copy[j].key THEN i < j ELSE copy[i].key < copy[j].key

Position(i) == Cardinality({j \in Matches : Precedes(j, i)})

\* matches[offset : offset + limit]
Selected == {i \in Matches : offset <= Position(i) /\ Position(i) < offset + Limit}

\* Mutant: the owners of every returned lead are read again.
MutantOwnerShown(i) == row[i].owned

\* The owners that the filter read are those shown.
OwnerShown(i) == IF i \in DOMAIN cache THEN cache[i] ELSE row[i].owned

\* The owners of a returned lead.
Detail ==
    LET todo == Selected \ DOMAIN shown
    IN  /\ phase = "details" /\ tool \in {"lead", "owner"}
        /\ \E first \in todo \cap (DOMAIN cache \cup table) :
              /\ \A i \in todo : Position(first) <= Position(i)
              /\ shown' = Grown(shown, {first}, OwnerShown)
        /\ UNCHANGED <<vars, data, phase, walk, copy, cache, more>>

\* Mutant: the last row is not counted.
MutantHasMore == offset + Cardinality(Selected) < Cardinality(Matches) - 1

HasMore == offset + Cardinality(Selected) < Cardinality(Matches)

Return ==
    /\ phase = "details"
    /\ tool \in {"lead", "owner"} => Selected \subseteq DOMAIN shown
    /\ phase' = "answered"
    /\ more' = HasMore
    /\ seen' = [i \in Id |-> IF i \in Selected THEN seen[i] + 1 ELSE seen[i]]
    /\ UNCHANGED <<vars, data, tool, offset, copy, cache, shown>>

\* The listing fails or meets its bound.
ListingFails ==
    /\ phase = "listing"
    /\ Exhausted \/ PageFails
    /\ phase' = "failed"
    /\ UNCHANGED <<data, walk, copy, cache, shown, more>>

\* The owners of a lead cannot be read.
LookupFails ==
    /\ phase \in {"filter", "details"} /\ tool \in {"lead", "owner"}
    /\ phase' = "failed"
    /\ UNCHANGED <<vars, data, walk, copy, cache, shown, more>>

---------------------------------------------------------------------------
(* The caller, and other users of Dolibarr: external *)

Start == phase = "idle" /\ Call(0)

Continue == phase = "answered" /\ more /\ Call(offset + Cardinality(Selected))

Edit ==
    /\ edits < MaxEdits
    /\ edits' = edits + 1
    /\ phase \in {"listing", "filter", "details", "answered"}
    /\ phase = "answered" => more
    /\ UNCHANGED <<phase, walk, copy, cache, shown, more>>

InsertRow(v) ==
    /\ Edit /\ Insert
    /\ row' = [row EXCEPT ![born'] = v]
    /\ UNCHANGED stable

DeleteRow(i) ==
    /\ Edit /\ Delete(i)
    /\ stable' = stable \ {i}
    /\ UNCHANGED row

ChangeRow(i, v) ==
    /\ Edit
    /\ row[i] # v
    /\ row' = [row EXCEPT ![i] = v]
    /\ stable' = stable \ {i}
    /\ UNCHANGED vars

SearchNext ==
    \/ Start \/ ListPage \/ Filter \/ Detail \/ Return \/ Continue
    \/ ListingFails \/ LookupFails
    \/ \E v \in Row : InsertRow(v) \/ \E i \in table : ChangeRow(i, v)
    \/ \E i \in table : DeleteRow(i)

SearchSpec == SearchInit /\ [][SearchNext]_searchVars

---------------------------------------------------------------------------
(* What is claimed *)

Walked == phase = "answered" /\ ~ more

Missed == {i \in stable : seen[i] = 0}

\* A walk over all offsets that nobody disturbs returns every row that matches once and
\* nothing else.  One that others disturb misses at most one lasting row for each edit, whether
\* the edit moves rows across the offset between two calls or across a page within a listing.
WalkIsComplete ==
    Walked =>
        /\ edits = 0 => \A i \in Id : seen[i] = IF i \in stable THEN 1 ELSE 0
        /\ Cardinality(Missed) <= edits

\* A search for the leads of one owner returns leads that show that owner, even if it was
\* replaced while the search went on.
OwnerIsShown ==
    (phase = "answered" /\ tool = "owner") => \A i \in Selected : shown[i]
=============================================================================
