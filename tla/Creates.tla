------------------------------ MODULE Creates ------------------------------
(***************************************************************************)
(* The creates that look for duplicates first: thirdparty_create,          *)
(* lead_create and project_create of SalesService                          *)
(* (src/src/dolibarr_mcp/sales.py) and TaskService.create                  *)
(* (src/src/dolibarr_mcp/tasks.py).  A call reads what its record will     *)
(* belong to, lists what is there, page by page, and binds both into the   *)
(* token; then it sends one POST and reads the result.                     *)
(***************************************************************************)
EXTENDS Paging

CONSTANTS
    Call,           \* tool calls, each made once
    Kind,           \* the kinds of records this instance creates
    Label,          \* normalised names, titles and labels
    Mail,           \* normalised e-mail addresses; they stand for VAT numbers, too
    Context,        \* third parties and projects that records belong to
    Parent,         \* tasks that tasks belong to
    Nil,            \* Python's None
    Pages,          \* pages of a listing at most
    MaxRow,         \* bound on the ids Dolibarr gives to rows
    MaxEdits        \* bound on edits made outside of this server

ASSUME KindAssumption == Kind \subseteq {"thirdparty", "lead", "project", "task"}
ASSUME NilAssumption == Nil \notin Label \cup Mail \cup Context \cup Parent
ASSUME BoundAssumption == Pages \in Nat \ {0} /\ MaxRow \in Nat /\ MaxEdits \in Nat

\* A third party or project that exists, a project that is not closed, a task of
\* the right project; changed: the same with other data; unusable: none of these.
ContextState == {"usable", "changed", "unusable"}

\* The fields that decide on duplicates; mail is set for third parties only.
Row == [kind: Kind, context: Context \cup {Nil}, label: Label, mail: Mail \cup {Nil}]

WellFormedRow(r) ==
    /\ r.kind = "thirdparty" => r.context = Nil
    /\ r.kind # "thirdparty" => r.mail = Nil
    /\ r.kind = "lead" => r.context # Nil
    /\ r.kind = "task" => r.context # Nil

\* The arguments of a call but for apply and confirmation_token.
Request == {q \in [row: Row, parent: Parent \cup {Nil}] :
                WellFormedRow(q.row) /\ (q.row.kind # "task" => q.parent = Nil)}

Id == 1..MaxRow

\* What a call read of the records that its row will belong to.
Facts == [context: ContextState \cup {Nil}, parent: ContextState \cup {Nil}]

Token == [request: Request, facts: Facts, duplicates: SUBSET Id]

VARIABLES
    rows,       \* Dolibarr: its rows by id
    born,       \* Dolibarr: the last id it gave to a row
    state,      \* Dolibarr: the state of each context and parent
    edits,      \* edits made outside of this server so far
    issued,     \* confirmation tokens returned in previews
    pc,         \* where the coroutine of a call is suspended
    request,    \* its arguments
    given,      \* its confirmation_token, Nil for a call with apply=false
    facts,      \* what it read of its context and parent
    page,       \* the page its listing asks for next
    found,      \* the duplicates found so far
    wire,       \* its create: none, flying, refused or persisted
    made,       \* the id its row was given by Dolibarr
    answer,     \* its outcome
    fresh,      \* history: rows added or renamed since the listing of a call began
    shifted     \* history: calls in whose listing a row was deleted

callVars == <<pc, request, given, facts, page, found, answer>>
worldVars == <<rows, born, state, edits, wire, made, fresh, shifted>>
vars == <<rows, born, state, edits, issued, pc, request, given, facts, page, found,
          wire, made, answer, fresh, shifted>>

TypeOK ==
    /\ DOMAIN rows \subseteq 1..born /\ \A i \in DOMAIN rows : rows[i] \in Row
    /\ born \in 0..MaxRow
    /\ state \in [Context \cup Parent -> ContextState]
    /\ edits \in 0..MaxEdits
    /\ issued \subseteq Token
    /\ pc \in [Call -> {"idle", "context", "parent", "list", "post", "reread", "done"}]
    /\ request \in [Call -> Request \cup {Nil}]
    /\ given \in [Call -> Token \cup {Nil}]
    /\ facts \in [Call -> Facts]
    /\ page \in [Call -> 0..Pages - 1]
    /\ found \in [Call -> SUBSET Id]
    /\ wire \in [Call -> {"none", "flying", "refused", "persisted"}]
    /\ made \in [Call -> Id \cup {Nil}]
    /\ answer \in [Call -> {"none", "rejected", "preview", "conflict", "applied", "partial",
                            "failed"}]
    /\ fresh \in [Call -> SUBSET Id]
    /\ shifted \subseteq Call

Init ==
    /\ born \in 0..MaxRow
    /\ rows \in [1..born -> {r \in Row : WellFormedRow(r)}]
    /\ state \in [Context \cup Parent -> {"usable", "unusable"}]
    /\ edits = 0
    /\ issued = {}
    /\ pc = [c \in Call |-> "idle"]
    /\ request = [c \in Call |-> Nil]
    /\ given = [c \in Call |-> Nil]
    /\ facts = [c \in Call |-> [context |-> Nil, parent |-> Nil]]
    /\ page = [c \in Call |-> 0]
    /\ found = [c \in Call |-> {}]
    /\ wire = [c \in Call |-> "none"]
    /\ made = [c \in Call |-> Nil]
    /\ answer = [c \in Call |-> "none"]
    /\ fresh = [c \in Call |-> {}]
    /\ shifted = {}

---------------------------------------------------------------------------
(* Rules *)

\* Mutant: leads are looked for among ordinary projects.
MutantSame(q, r) ==
    IF q.row.kind = "thirdparty"
    THEN /\ r.kind = "thirdparty"
         /\ r.label = q.row.label \/ (q.row.mail # Nil /\ r.mail = q.row.mail)
    ELSE /\ r.kind = IF q.row.kind = "lead" THEN "project" ELSE q.row.kind
         /\ r.context = q.row.context
         /\ r.label = q.row.label

\* Row r is a possible duplicate of what q asks for.
Same(q, r) ==
    IF q.row.kind = "thirdparty"
    THEN /\ r.kind = "thirdparty"
         /\ r.label = q.row.label \/ (q.row.mail # Nil /\ r.mail = q.row.mail)
    ELSE /\ r.kind = q.row.kind
         /\ r.context = q.row.context
         /\ r.label = q.row.label

\* Leads and projects share a table; the tasks are those of one project.
Listed(q) ==
    {i \in DOMAIN rows :
        CASE q.row.kind = "thirdparty" -> rows[i].kind = "thirdparty"
          [] q.row.kind \in {"lead", "project"} -> rows[i].kind \in {"lead", "project"}
          [] q.row.kind = "task" -> rows[i].kind = "task" /\ rows[i].context = q.row.context}

\* Tasks come in one response, everything else in pages.
Current(c) ==
    IF request[c].row.kind = "task" THEN Listed(request[c])
    ELSE PageOf(Listed(request[c]), page[c])

\* Mutant: a full page is taken for the last one.
MutantLast(c) ==
    IF request[c].row.kind = "task"
    THEN Cardinality(Current(c)) <= Pages * PageSize
    ELSE Cardinality(Current(c)) <= PageSize

\* The response ends the listing; more tasks than the bound are refused.
Last(c) ==
    IF request[c].row.kind = "task"
    THEN Cardinality(Current(c)) <= Pages * PageSize
    ELSE Cardinality(Current(c)) < PageSize

Duplicates(c) == found[c] \cup {i \in Current(c) : Same(request[c], rows[i])}

\* Mutant: the token does not cover the duplicates.
MutantTokenOf(c) == [request |-> request[c], facts |-> facts[c], duplicates |-> {}]

TokenOf(c) == [request |-> request[c], facts |-> facts[c], duplicates |-> Duplicates(c)]

---------------------------------------------------------------------------
(* Reading and confirming *)

Finish(c, outcome) ==
    /\ pc' = [pc EXCEPT ![c] = "done"]
    /\ answer' = [answer EXCEPT ![c] = outcome]

\* The caller may present any token it was given, or apply without one.
Invoke(c) ==
    /\ pc[c] = "idle"
    /\ \E q \in Request, tok \in issued \cup {Nil} :
        /\ request' = [request EXCEPT ![c] = q]
        /\ given' = [given EXCEPT ![c] = tok]
        /\ pc' = [pc EXCEPT ![c] = IF q.row.context = Nil THEN "list" ELSE "context"]
    /\ UNCHANGED <<issued, facts, page, found, answer, worldVars>>

\* The third party or project is there and open.
ReadContext(c) ==
    LET s == state[request[c].row.context]
    IN  /\ pc[c] = "context"
        /\ s # "unusable"
        /\ facts' = [facts EXCEPT ![c].context = s]
        /\ pc' = [pc EXCEPT ![c] = IF request[c].parent = Nil THEN "list" ELSE "parent"]
        /\ UNCHANGED <<issued, request, given, page, found, answer, worldVars>>

\* The parent task is one of the project.
ReadParent(c) ==
    LET s == state[request[c].parent]
    IN  /\ pc[c] = "parent"
        /\ s # "unusable"
        /\ facts' = [facts EXCEPT ![c].parent = s]
        /\ pc' = [pc EXCEPT ![c] = "list"]
        /\ UNCHANGED <<issued, request, given, page, found, answer, worldVars>>

Reject(c) ==
    /\ \/ pc[c] = "context" /\ state[request[c].row.context] = "unusable"
       \/ pc[c] = "parent" /\ state[request[c].parent] = "unusable"
    /\ Finish(c, "rejected")
    /\ UNCHANGED <<issued, request, given, facts, page, found, worldVars>>

\* Mutant: the listing asks for one page beyond the bound.
MutantNextPage(c) ==
    /\ pc[c] = "list"
    /\ request[c].row.kind # "task"
    /\ ~ Last(c)
    /\ page[c] < Pages
    /\ page' = [page EXCEPT ![c] = @ + 1]
    /\ found' = [found EXCEPT ![c] = Duplicates(c)]
    /\ UNCHANGED <<issued, pc, request, given, facts, answer, worldVars>>

\* A page that is full and not the last one allowed.
NextPage(c) ==
    /\ pc[c] = "list"
    /\ request[c].row.kind # "task"
    /\ ~ Last(c)
    /\ page[c] + 1 < Pages
    /\ page' = [page EXCEPT ![c] = @ + 1]
    /\ found' = [found EXCEPT ![c] = Duplicates(c)]
    /\ UNCHANGED <<issued, pc, request, given, facts, answer, worldVars>>

\* More rows than the bound: DolibarrResultLimitError, or a response too long.
LimitReached(c) ==
    /\ pc[c] = "list"
    /\ ~ Last(c)
    /\ request[c].row.kind = "task" \/ page[c] + 1 = Pages
    /\ Finish(c, "failed")
    /\ UNCHANGED <<issued, request, given, facts, page, found, worldVars>>

\* The listing is complete; the code up to the next await runs on it.
ListingEnds(c) ==
    /\ pc[c] = "list"
    /\ Last(c)
    /\ found' = [found EXCEPT ![c] = Duplicates(c)]
    /\ UNCHANGED <<request, given, facts, page>>

Preview(c) ==
    /\ ListingEnds(c)
    /\ given[c] = Nil
    /\ issued' = issued \cup {TokenOf(c)}
    /\ Finish(c, "preview")
    /\ UNCHANGED worldVars

\* apply=true with the token of another state or input, or none.
Conflict(c) ==
    /\ ListingEnds(c)
    /\ given[c] # TokenOf(c)
    /\ Finish(c, "conflict")
    /\ UNCHANGED <<issued, worldVars>>

SendCreate(c) ==
    /\ ListingEnds(c)
    /\ given[c] # Nil
    /\ given[c] = TokenOf(c)
    /\ pc' = [pc EXCEPT ![c] = "post"]
    /\ wire' = [wire EXCEPT ![c] = "flying"]
    /\ UNCHANGED <<issued, answer, rows, born, state, edits, made, fresh, shifted>>

\* Dolibarr answered with the id of the new row.
CreateReturns(c) ==
    /\ pc[c] = "post"
    /\ wire[c] = "persisted"
    /\ pc' = [pc EXCEPT ![c] = "reread"]
    /\ UNCHANGED <<issued, request, given, facts, page, found, answer, worldVars>>

\* A task is compared with what was asked for; other records are not.
Reread(c) ==
    /\ pc[c] = "reread"
    /\ made[c] \in DOMAIN rows
    /\ Finish(c, IF request[c].row.kind = "task" /\ rows[made[c]] # request[c].row
                 THEN "partial" ELSE "applied")
    /\ UNCHANGED <<issued, request, given, facts, page, found, worldVars>>

\* A task that cannot be read is reported with its id, other records are not.
RereadFails(c) ==
    /\ pc[c] = "reread"
    /\ Finish(c, IF request[c].row.kind = "task" THEN "partial" ELSE "failed")
    /\ UNCHANGED <<issued, request, given, facts, page, found, worldVars>>

\* Mutant: a create without a reply is reported as a partial success.
MutantCallFails(c) ==
    /\ pc[c] \in {"context", "parent", "list", "post"}
    /\ Finish(c, IF pc[c] = "post" /\ request[c].row.kind = "task" THEN "partial" ELSE "failed")
    /\ UNCHANGED <<issued, request, given, facts, page, found, worldVars>>

\* Mutant: a create without a reply is sent again.
MutantCallFailsAgain(c) ==
    /\ pc[c] \in {"context", "parent", "list", "post", "reread"}
    /\ IF pc[c] = "post"
       THEN wire' = [wire EXCEPT ![c] = "flying"] /\ UNCHANGED <<pc, answer>>
       ELSE Finish(c, "failed") /\ UNCHANGED wire
    /\ UNCHANGED <<issued, request, given, facts, page, found, rows, born, state, edits, made,
                   fresh, shifted>>

\* An error status, an unusable payload or a timeout ends the call, and the end
\* of its process does so at any await.  A create may still be executed after that.
CallFails(c) ==
    /\ pc[c] \in {"context", "parent", "list", "post", "reread"}
    /\ Finish(c, "failed")
    /\ UNCHANGED <<issued, request, given, facts, page, found, worldVars>>

---------------------------------------------------------------------------
(* Dolibarr and its other users: external *)

\* The calls whose listing or create is under way.
Listing == {c \in Call : pc[c] = "list" \/ wire[c] = "flying"}

Refresh(i) == fresh' = [c \in Call |-> IF c \in Listing THEN fresh[c] \cup {i} ELSE fresh[c]]

AddRow(r) ==
    /\ born < MaxRow
    /\ born' = born + 1
    /\ rows' = [i \in DOMAIN rows \cup {born + 1} |-> IF i = born + 1 THEN r ELSE rows[i]]
    /\ Refresh(born + 1)

Persist(c) ==
    /\ wire[c] = "flying"
    /\ AddRow(request[c].row)
    /\ made' = [made EXCEPT ![c] = born + 1]
    /\ wire' = [wire EXCEPT ![c] = "persisted"]
    /\ UNCHANGED <<state, edits, issued, shifted, callVars>>

Refuse(c) ==
    /\ wire[c] = "flying"
    /\ wire' = [wire EXCEPT ![c] = "refused"]
    /\ UNCHANGED <<rows, born, state, edits, issued, made, fresh, shifted, callVars>>

Edits ==
    /\ edits < MaxEdits
    /\ edits' = edits + 1
    /\ UNCHANGED <<issued, wire, made, callVars>>

Insert(r) == Edits /\ AddRow(r) /\ UNCHANGED <<state, shifted>>

\* A row keeps its kind and what it belongs to.
Rename(i, r) ==
    /\ Edits
    /\ r.kind = rows[i].kind /\ r.context = rows[i].context
    /\ rows' = [rows EXCEPT ![i] = r]
    /\ Refresh(i)
    /\ UNCHANGED <<born, state, shifted>>

Delete(i) ==
    /\ Edits
    /\ rows' = [j \in DOMAIN rows \ {i} |-> rows[j]]
    /\ shifted' = shifted \cup {c \in Call : pc[c] = "list" /\ page[c] > 0}
    /\ UNCHANGED <<born, state, fresh>>

Affect(x, s) ==
    /\ Edits
    /\ state[x] # s
    /\ state' = [state EXCEPT ![x] = s]
    /\ UNCHANGED <<rows, born, fresh, shifted>>

Step(c) ==
    \/ ReadContext(c) \/ ReadParent(c) \/ Reject(c) \/ NextPage(c) \/ LimitReached(c)
    \/ Preview(c) \/ Conflict(c) \/ SendCreate(c) \/ CreateReturns(c)
    \/ Reread(c) \/ RereadFails(c) \/ CallFails(c)

Next ==
    \/ \E c \in Call : Invoke(c) \/ Step(c) \/ Persist(c) \/ Refuse(c)
    \/ \E r \in {x \in Row : WellFormedRow(x)} :
        Insert(r) \/ \E i \in DOMAIN rows : Rename(i, r)
    \/ \E i \in DOMAIN rows : Delete(i)
    \/ \E x \in Context \cup Parent, s \in ContextState : Affect(x, s)

Spec == Init /\ [][Next]_vars

---------------------------------------------------------------------------
(* What is claimed *)

\* No create leaves this server unless an earlier call previewed the same input
\* next to the same contexts and the same duplicates.
WritesWerePreviewed ==
    \A c \in Call : wire[c] # "none" =>
        \E d \in Call : /\ answer[d] = "preview"
                        /\ request[d] = request[c]
                        /\ facts[d] = facts[c]
                        /\ found[d] = found[c]

\* While a create is on its way, every duplicate of it that Dolibarr has was found
\* by the call and so confirmed by its caller, unless the duplicate appeared after
\* the listing had begun, or a row deleted during the listing hid it.
DuplicatesWereFound ==
    \A c \in Call : wire[c] = "flying" =>
        \A i \in DOMAIN rows : Same(request[c], rows[i]) =>
            \/ i \in found[c] \cup fresh[c]
            \/ c \in shifted /\ request[c].row.kind # "task"

\* An executed create is a duplicate of itself: a call that repeats it with the
\* same token finds one row more and is refused, until that row is gone.
PersistSpendsToken ==
    \A c \in Call : wire[c] = "flying" /\ wire'[c] = "persisted" =>
        {i \in DOMAIN rows' : Same(request[c], rows'[i])} # given[c].duplicates

TokensAreSpent == [][PersistSpendsToken]_vars

\* Two executed creates that carried one token were under way together: one of
\* them reached Dolibarr while the other was listing or on its way.  Later edits
\* by others may restore the state that the token was issued for.
CreatedTwiceOnlyByRace ==
    \A c, d \in Call :
        (c # d /\ wire[c] = "persisted" /\ wire[d] = "persisted" /\ given[c] = given[d]) =>
            made[c] \in fresh[d] \/ made[d] \in fresh[c] \/ edits > 0

\* Previews, rejections and conflicts sent nothing, and nothing can still be
\* created for a caller who was given the id of a new record.
AnswersSettleWrites ==
    \A c \in Call :
        /\ answer[c] \in {"rejected", "preview", "conflict"} => wire[c] = "none"
        /\ answer[c] \in {"applied", "partial"} => wire[c] = "persisted"

---------------------------------------------------------------------------
(* A create as one of the mutations that ConfirmedWrite describes *)

\* The caller is shown the arguments with the duplicates, and confirms both.
Proposal == [request: Request, duplicates: SUBSET Id]

\* A create has no value of its own to show, and fills an id that no row has.
PreviewOf(q, duplicates) == <<Nil, [request |-> q, duplicates |-> duplicates], Nil>>

RowOf(ch, v) == ch.request.row

Protocol == INSTANCE ConfirmedWrite WITH
    Target <- Id, New <- Nil, Value <- Row, Absent <- Nil, Blank <- Nil,
    Change <- Proposal, Result <- RowOf,
    store <- [i \in Id |-> IF i \in DOMAIN rows THEN rows[i] ELSE Nil],
    previews <- {PreviewOf(tok.request, tok.duplicates) : tok \in issued},
    auth <- [c \in Call |-> IF wire[c] = "flying" THEN {PreviewOf(request[c], found[c])} ELSE {}],
    used <- {c \in Call : wire[c] # "none"}

\* docs/architecture.md, "Confirmed mutation flow": a create adds at most one row for each call,
\* the one that an earlier call previewed next to the same duplicates, also when its reply is
\* lost and the write lands late.
ImplementsConfirmedWrite == Protocol!Spec
=============================================================================
