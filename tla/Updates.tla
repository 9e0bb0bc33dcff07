------------------------------ MODULE Updates ------------------------------
(***************************************************************************)
(* The confirmed mutations of one existing record: thirdparty_update,      *)
(* lead_update, lead_change_status, lead_open_project, lead_close_project  *)
(* of SalesService (src/src/dolibarr_mcp/sales.py) and TaskService.assign  *)
(* (src/src/dolibarr_mcp/tasks.py).  A call reads the parts of Dolibarr    *)
(* that its decision rests on, one awaited request each, binds them and    *)
(* its proposal into the token, sends one write and reads the result.      *)
(***************************************************************************)
EXTENDS Naturals, Sequences, FiniteSets

CONSTANTS
    Call,           \* tool calls, each made once
    Operation,      \* the operations that this instance calls
    Stage,          \* ids of opportunity stages
    Catalog,        \* the operator's catalog: codes and aliases to configured stages
    Unlisted,       \* stage codes that are not in the catalog
    Nil,            \* Python's None
    MaxEdits        \* bound on edits made outside of this server

ConfiguredStage == [id: Stage, code: DOMAIN Catalog, active: BOOLEAN]

LeadOperation == {"lead_update", "lead_change_status", "lead_open_project",
                  "lead_close_project"}

Outcome == {"rejected", "preview", "conflict", "no_op", "applied", "partial", "failed"}

ASSUME OperationAssumption ==
    Operation \subseteq LeadOperation \cup {"thirdparty_update", "task_assign"}
ASSUME NilAssumption ==
    Nil \notin Stage \cup Unlisted \cup DOMAIN Catalog \cup Outcome /\ Nil \notin BOOLEAN
ASSUME BoundAssumption == MaxEdits \in Nat
\* Checked at start-up: codes and aliases of one stage share its entry, no id has two.
ASSUME CatalogAssumption ==
    /\ DOMAIN Catalog \cap Unlisted = {} /\ Stage \cap (DOMAIN Catalog \cup Unlisted) = {}
    /\ \A k \in DOMAIN Catalog : Catalog[k] \in ConfiguredStage
    /\ \A j, k \in DOMAIN Catalog : Catalog[j].id = Catalog[k].id => Catalog[j] = Catalog[k]

\* "head" is the first 4000 characters of "long"; "" is an optional text left empty.
Note == {"brief", "head", "long"}
Thirdparty == [country: {"DE", "FR"}, address: {"", "a"}, note: Note]
Lead == [opportunity: BOOLEAN, party: {"p", Nil}, stage: Stage \cup {Nil},
         status: {"draft", "open", "closed"}]

\* What Dolibarr has, by the part that one request reads: the third party proposed
\* for a lead exists, the stages of an unlisted code on accessible leads, a lead is
\* led by its present leaders; a task is in the project, which is not closed, the
\* user is active and has the role.
World ==
    [thirdparty: Thirdparty]
    \cup [lead: Lead, leaders: BOOLEAN, party: BOOLEAN, observed: [Unlisted -> SUBSET Stage]]
    \cup [task: BOOLEAN, project: BOOLEAN, user: BOOLEAN, contacts: BOOLEAN]

\* Proposed fields; a country code comes in any case, notes no longer than 4000.
ThirdpartyInput == [country: {"de", "DE", "FR"}] \cup [address: {"", "a"}]
                   \cup [country: {"de", "DE"}, note: {"brief", "head"}]
LeadInput == [party: {"p"}]

\* The arguments of a call but for apply and confirmation_token.
Request ==
    [op: Operation \cap {"thirdparty_update"}, input: ThirdpartyInput]
    \cup [op: Operation \cap {"lead_update"}, input: LeadInput]
    \cup [op: Operation \cap {"lead_change_status"},
          input: Stage \cup Unlisted \cup DOMAIN Catalog]
    \cup [op: Operation \cap {"lead_open_project", "lead_close_project", "task_assign"},
          input: {Nil}]

Parts == UNION {DOMAIN w : w \in World}

VARIABLES
    world,      \* Dolibarr: the record that all calls are about, and its surroundings
    edits,      \* edits made outside of this server so far
    issued,     \* confirmation tokens returned in previews
    pc,         \* where the coroutine of a call is suspended
    request,    \* its arguments
    given,      \* its confirmation_token, Nil for a call with apply=false
    seen,       \* the parts it has read, as it shows them
    there,      \* the lead, read again, has the stage or status asked for
    trouble,    \* task_assign: its POST failed
    assigned,   \* task_assign: the assigned flag of its answer
    wire,       \* its write: none, flying, refused, void (without effect) or persisted
    answer      \* its outcome

callVars == <<pc, request, given, seen, there, trouble, assigned, answer>>
vars == <<world, edits, issued, pc, request, given, seen, there, trouble, assigned, wire,
          answer>>

---------------------------------------------------------------------------
(* Conversions *)

Upper(code) == IF code = "de" THEN "DE" ELSE code

\* What the payload carries of a proposed field.
Sent(f, v) == IF f = "country" THEN Upper(v) ELSE v

\* What a detail shows of a stored field.
Shown(f, v) ==
    CASE f = "address" /\ v = "" -> Nil
      [] f = "note" /\ v = "long" -> "head"
      [] OTHER -> v

ShownRecord(r) == [f \in DOMAIN r |-> Shown(f, r[f])]

\* A part as the code sees it.
View(p, v) == IF p \in {"thirdparty", "lead"} THEN ShownRecord(v) ELSE v

---------------------------------------------------------------------------
(* Rules *)

Configured(ref) ==
    IF ref \in Stage THEN {Catalog[k] : k \in {k \in DOMAIN Catalog : Catalog[k].id = ref}}
    ELSE IF ref \in DOMAIN Catalog THEN {Catalog[ref]} ELSE {}

\* The stages a reference may stand for; obs: what was observed of unlisted codes.
Candidates(ref, obs) ==
    IF ref \in Unlisted THEN obs[ref]
    ELSE IF ref \in Stage THEN {ref} ELSE {Catalog[ref].id}

\* A configured inactive stage is refused without any request.
Inactive(ref) == \E s \in Configured(ref) : ~ s.active

\* The requests before the decision, in their order, given what was read so far: a
\* third party is read only when it is to replace the lead's.
Plan(q, s) ==
    CASE q.op = "thirdparty_update" -> <<"thirdparty">>
      [] q.op = "task_assign" -> <<"task", "project", "user", "contacts">>
      [] q.op = "lead_change_status" /\ q.input \in Unlisted -> <<"observed", "lead", "leaders">>
      [] /\ q.op = "lead_update" /\ "party" \in DOMAIN q.input
         /\ "lead" \in DOMAIN s /\ s.lead.party # q.input.party -> <<"lead", "leaders", "party">>
      [] OTHER -> <<"lead", "leaders">>

\* The part that a write changes and the last read shows.
Target(q) ==
    CASE q.op = "thirdparty_update" -> "thirdparty"
      [] q.op = "task_assign" -> "contacts"
      [] OTHER -> "lead"

\* A part that the operation can go on with.
Usable(q, p, v) ==
    CASE p = "lead" -> v.opportunity
      [] p = "observed" -> Cardinality(v[q.input]) = 1
      [] p \in {"party", "task", "project", "user"} -> v
      [] OTHER -> TRUE

\* The stage that a request stands for by what was read for it.
Resolved(q, s) ==
    CHOOSE i \in Stage : i \in Candidates(q.input, IF q.input \in Unlisted THEN s.observed ELSE Nil)

\* The fields a request proposes, given what was read.
Proposed(q, s) ==
    CASE q.op \in {"thirdparty_update", "lead_update"} -> q.input
      [] q.op = "lead_change_status" -> [stage |-> Resolved(q, s)]
      [] q.op = "lead_open_project" -> [status |-> "open"]
      [] q.op = "lead_close_project" -> [status |-> "closed"]

\* Mutant: every confirmed call writes.
MutantUnchanged(q, s) == FALSE

\* There is nothing to change in what was read.
Unchanged(q, s) ==
    IF q.op = "task_assign" THEN s.contacts
    ELSE \A f \in DOMAIN Proposed(q, s) : s[Target(q)][f] = Proposed(q, s)[f]

\* What the write makes of the part that it meets.
Effect(q, s, v) ==
    IF q.op = "task_assign" THEN TRUE
    ELSE [f \in DOMAIN v |-> IF f \in DOMAIN Proposed(q, s) THEN Sent(f, Proposed(q, s)[f])
                             ELSE v[f]]

\* The canonical code that goes into the token with a resolved stage.
CodeOf(ref) ==
    IF ref \in Unlisted THEN ref
    ELSE IF Configured(ref) = {} THEN Nil ELSE (CHOOSE s \in Configured(ref) : TRUE).code

\* What of the parts read goes into the token, and is what the proposal is shown next to.
Current(s) == [p \in DOMAIN s \ {"observed", "party"} |-> s[p]]

\* Mutant: the token binds the code of a stage but not the stage it was resolved to.
MutantTokenOf(q, s) ==
    [op |-> q.op, current |-> Current(s),
     proposed |-> IF q.op \in {"lead_change_status", "task_assign"} THEN Nil ELSE Proposed(q, s),
     code |-> IF q.op = "lead_change_status" THEN CodeOf(q.input) ELSE Nil]

TokenOf(q, s) ==
    [op |-> q.op, current |-> Current(s),
     proposed |-> IF q.op = "task_assign" THEN Nil ELSE Proposed(q, s),
     code |-> IF q.op = "lead_change_status" THEN CodeOf(q.input) ELSE Nil]

---------------------------------------------------------------------------
(* States *)

TypeOK ==
    /\ world \in World
    /\ edits \in 0..MaxEdits
    /\ pc \in [Call -> {"idle", "read", "write", "reread", "leaders", "done"}]
    /\ \A c \in Call :
        /\ request[c] # Nil => request[c] \in Request /\ Target(request[c]) \in DOMAIN world
        /\ DOMAIN seen[c] \subseteq DOMAIN world
        /\ pc[c] = "read" => Cardinality(DOMAIN seen[c]) < Len(Plan(request[c], seen[c]))
        /\ pc[c] \in {"write", "reread", "leaders"} =>
            Cardinality(DOMAIN seen[c]) = Len(Plan(request[c], seen[c]))
        /\ given[c] # Nil => given[c] \in issued
    /\ there \in [Call -> BOOLEAN] /\ trouble \in [Call -> BOOLEAN]
    /\ assigned \in [Call -> {TRUE, FALSE, Nil}]
    /\ wire \in [Call -> {"none", "flying", "refused", "void", "persisted"}]
    /\ answer \in [Call -> Outcome \cup {Nil}]

Init ==
    /\ world \in World
    /\ "lead" \in DOMAIN world =>
        world.lead.opportunity /\ world.lead.stage # Nil /\ world.leaders /\ world.party
    /\ edits = 0
    /\ issued = {}
    /\ pc = [c \in Call |-> "idle"]
    /\ request = [c \in Call |-> Nil]
    /\ given = [c \in Call |-> Nil]
    /\ seen = [c \in Call |-> <<>>]
    /\ there = [c \in Call |-> FALSE]
    /\ trouble = [c \in Call |-> FALSE]
    /\ assigned = [c \in Call |-> Nil]
    /\ wire = [c \in Call |-> "none"]
    /\ answer = [c \in Call |-> Nil]

---------------------------------------------------------------------------
(* Reading and deciding *)

Finish(c, outcome) ==
    /\ pc' = [pc EXCEPT ![c] = "done"]
    /\ answer' = [answer EXCEPT ![c] = outcome]

\* The caller may present any token it was given, or apply without one.
Invoke(c) ==
    /\ pc[c] = "idle"
    /\ \E q \in Request, tok \in issued \cup {Nil} :
        /\ Target(q) \in DOMAIN world
        /\ request' = [request EXCEPT ![c] = q]
        /\ given' = [given EXCEPT ![c] = tok]
        /\ IF q.op = "lead_change_status" /\ Inactive(q.input) THEN Finish(c, "rejected")
           ELSE pc' = [pc EXCEPT ![c] = "read"] /\ UNCHANGED answer
    /\ UNCHANGED <<world, edits, issued, seen, there, trouble, assigned, wire>>

\* The part that the request under way reads.
Awaited(c) == Plan(request[c], seen[c])[Cardinality(DOMAIN seen[c]) + 1]

\* What the call knows when that request returns.
Known(c) ==
    [p \in DOMAIN seen[c] \cup {Awaited(c)} |->
        IF p = Awaited(c) THEN View(p, world[p]) ELSE seen[c][p]]

Returns(c) == pc[c] = "read" /\ Usable(request[c], Awaited(c), world[Awaited(c)])

\* Mutant: the third party that a lead is to belong to is not read.
MutantComplete(c) ==
    \/ {"lead", "leaders"} \subseteq DOMAIN Known(c)
    \/ Cardinality(DOMAIN Known(c)) = Len(Plan(request[c], Known(c)))

Complete(c) == Cardinality(DOMAIN Known(c)) = Len(Plan(request[c], Known(c)))

ReadPart(c) ==
    /\ Returns(c)
    /\ ~ Complete(c)
    /\ seen' = [seen EXCEPT ![c] = Known(c)]
    /\ UNCHANGED <<world, edits, issued, pc, request, given, there, trouble, assigned, wire,
                   answer>>

\* Mutant: drafts may be closed.
MutantRefused(q, s) == FALSE

\* A draft is not closed.
Refused(q, s) == q.op = "lead_close_project" /\ s.lead.status = "draft"

\* All is read; the code up to the next await runs on it.
Decides(c) ==
    /\ Returns(c)
    /\ Complete(c)
    /\ seen' = [seen EXCEPT ![c] = Known(c)]
    /\ UNCHANGED <<world, edits, request, given, there, trouble>>

Reject(c) ==
    /\ \/ Decides(c) /\ Refused(request[c], Known(c))
       \/ /\ pc[c] = "read" /\ ~ Usable(request[c], Awaited(c), world[Awaited(c)])
          /\ UNCHANGED <<world, edits, request, given, seen, there, trouble>>
    /\ Finish(c, "rejected")
    /\ UNCHANGED <<issued, assigned, wire>>

Preview(c) ==
    /\ Decides(c) /\ ~ Refused(request[c], Known(c))
    /\ given[c] = Nil
    /\ issued' = issued \cup {TokenOf(request[c], Known(c))}
    /\ Finish(c, "preview")
    /\ UNCHANGED <<assigned, wire>>

\* apply=true with the token of another state or input, or none.
Conflict(c) ==
    /\ Decides(c) /\ ~ Refused(request[c], Known(c))
    /\ given[c] = Nil \/ given[c] # TokenOf(request[c], Known(c))
    /\ Finish(c, "conflict")
    /\ UNCHANGED <<issued, assigned, wire>>

Confirmed(c) ==
    /\ Decides(c) /\ ~ Refused(request[c], Known(c))
    /\ given[c] # Nil
    /\ given[c] = TokenOf(request[c], Known(c))
    /\ UNCHANGED issued

NoOp(c) ==
    /\ Confirmed(c)
    /\ Unchanged(request[c], Known(c))
    /\ Finish(c, "no_op")
    /\ assigned' = [assigned EXCEPT ![c] = IF request[c].op = "task_assign" THEN TRUE ELSE @]
    /\ UNCHANGED wire

SendWrite(c) ==
    /\ Confirmed(c)
    /\ ~ Unchanged(request[c], Known(c))
    /\ pc' = [pc EXCEPT ![c] = "write"]
    /\ wire' = [wire EXCEPT ![c] = "flying"]
    /\ UNCHANGED <<assigned, answer>>

---------------------------------------------------------------------------
(* After the write *)

WriteReturns(c) ==
    /\ pc[c] = "write"
    /\ wire[c] \in {"void", "persisted"}
    /\ pc' = [pc EXCEPT ![c] = "reread"]
    /\ UNCHANGED <<world, edits, issued, request, given, seen, there, trouble, assigned, wire,
                   answer>>

\* task_assign goes on after a POST that was refused or had no reply.
PostFails(c) ==
    /\ pc[c] = "write"
    /\ request[c].op = "task_assign"
    /\ pc' = [pc EXCEPT ![c] = "reread"]
    /\ trouble' = [trouble EXCEPT ![c] = TRUE]
    /\ UNCHANGED <<world, edits, issued, request, given, seen, there, assigned, wire, answer>>

\* Mutant: a POST that failed is forgotten when the role is seen.
MutantRereadContacts(c) ==
    /\ pc[c] = "reread"
    /\ Target(request[c]) = "contacts"
    /\ assigned' = [assigned EXCEPT ![c] = world.contacts]
    /\ Finish(c, IF ~ world.contacts THEN "partial" ELSE "applied")
    /\ UNCHANGED <<world, edits, issued, request, given, seen, there, trouble, wire>>

RereadContacts(c) ==
    /\ pc[c] = "reread"
    /\ Target(request[c]) = "contacts"
    /\ assigned' = [assigned EXCEPT ![c] = world.contacts]
    /\ Finish(c, IF trouble[c] \/ ~ world.contacts THEN "partial" ELSE "applied")
    /\ UNCHANGED <<world, edits, issued, request, given, seen, there, trouble, wire>>

\* task_assign answers without knowing.
RereadContactsFails(c) ==
    /\ pc[c] = "reread"
    /\ Target(request[c]) = "contacts"
    /\ Finish(c, "partial")
    /\ UNCHANGED <<world, edits, issued, request, given, seen, there, trouble, assigned, wire>>

RereadThirdparty(c) ==
    /\ pc[c] = "reread"
    /\ Target(request[c]) = "thirdparty"
    /\ Finish(c, "applied")
    /\ UNCHANGED <<world, edits, issued, request, given, seen, there, trouble, assigned, wire>>

\* Mutant: what was read again is not compared.
MutantShows(c) == TRUE

\* lead_update does not look for its values in what it read again.
Shows(c) ==
    request[c].op # "lead_update" =>
        \A f \in DOMAIN Proposed(request[c], seen[c]) :
            ShownRecord(world.lead)[f] = Proposed(request[c], seen[c])[f]

\* lead_get reads the project first; one that is no lead any more is not found.
RereadLead(c) ==
    /\ pc[c] = "reread"
    /\ Target(request[c]) = "lead"
    /\ IF world.lead.opportunity
       THEN /\ pc' = [pc EXCEPT ![c] = "leaders"]
            /\ there' = [there EXCEPT ![c] = Shows(c)]
            /\ UNCHANGED answer
       ELSE Finish(c, "failed") /\ UNCHANGED there
    /\ UNCHANGED <<world, edits, issued, request, given, seen, trouble, assigned, wire>>

RereadLeaders(c) ==
    /\ pc[c] = "leaders"
    /\ Finish(c, IF there[c] THEN "applied" ELSE "partial")
    /\ UNCHANGED <<world, edits, issued, request, given, seen, there, trouble, assigned, wire>>

\* Mutant: a write without a reply is reported as a partial success.
MutantCallFails(c) ==
    /\ pc[c] \in {"read", "write", "reread", "leaders"}
    /\ Finish(c, IF pc[c] = "write" THEN "partial" ELSE "failed")
    /\ UNCHANGED <<world, edits, issued, request, given, seen, there, trouble, assigned, wire>>

\* An error status, an unusable payload or a timeout ends the call, and so does the end of
\* its process at any await.  A write may still be executed after that.
CallFails(c) ==
    /\ pc[c] \in {"read", "write", "reread", "leaders"}
    /\ Finish(c, "failed")
    /\ UNCHANGED <<world, edits, issued, request, given, seen, there, trouble, assigned, wire>>

---------------------------------------------------------------------------
(* Dolibarr and its other users: external *)

Fate(c, w) == wire[c] = "flying" /\ wire' = [wire EXCEPT ![c] = w]

Persist(c) ==
    /\ Fate(c, "persisted")
    /\ world' = [world EXCEPT ![Target(request[c])] = Effect(request[c], seen[c], @)]
    /\ UNCHANGED <<edits, issued, callVars>>

Discard(c) ==
    /\ Fate(c, "refused") \/ Fate(c, "void")
    /\ UNCHANGED <<world, edits, issued, callVars>>

\* Other users change one field, or what surrounds the record.
Edit(w) ==
    /\ edits < MaxEdits
    /\ edits' = edits + 1
    /\ world' = w
    /\ UNCHANGED <<issued, wire, callVars>>

Edited(p) ==
    CASE p = "thirdparty" -> {v \in Thirdparty :
            \E f \in DOMAIN v : v = [world[p] EXCEPT ![f] = v[f]]}
      [] p = "lead" -> {v \in Lead : \E f \in DOMAIN v : v = [world[p] EXCEPT ![f] = v[f]]}
      [] p = "observed" -> [Unlisted -> SUBSET Stage]
      [] OTHER -> BOOLEAN

Step(c) ==
    \/ ReadPart(c) \/ Reject(c) \/ Preview(c) \/ Conflict(c) \/ NoOp(c) \/ SendWrite(c)
    \/ WriteReturns(c) \/ PostFails(c) \/ RereadContacts(c) \/ RereadContactsFails(c)
    \/ RereadThirdparty(c) \/ RereadLead(c) \/ RereadLeaders(c) \/ CallFails(c)

Next ==
    \/ \E c \in Call : Invoke(c) \/ Step(c) \/ Persist(c) \/ Discard(c)
    \/ \E p \in DOMAIN world : \E v \in Edited(p) : Edit([world EXCEPT ![p] = v])

Spec == Init /\ [][Next]_vars

---------------------------------------------------------------------------
(* What is claimed *)

\* A write is sent only for the fields and values that an earlier call previewed next to
\* the same state of the record.  A stage given by a code is the stage that the preview
\* showed, whatever leads are observed with that code by then.
WritesWerePreviewed ==
    \A c \in Call : wire[c] # "none" =>
        \E d \in Call :
            /\ answer[d] = "preview"
            /\ request[d].op = request[c].op
            /\ Current(seen[d]) = Current(seen[c])
            /\ request[c].op # "task_assign" =>
                Proposed(request[d], seen[d]) = Proposed(request[c], seen[c])

\* Nothing can be executed any more for a call that was answered, but for a call that
\* failed and a task_assign that reported its POST as failed.
AnswersSettleWrites ==
    \A c \in Call :
        /\ answer[c] \in {"rejected", "preview", "conflict", "no_op"} => wire[c] = "none"
        /\ answer[c] = "applied" => wire[c] \in {"void", "persisted"}
        /\ answer[c] = "partial" => wire[c] \in {"void", "persisted"} \/ trouble[c]

\* An operation that checks its effect does not answer applied to a write that Dolibarr
\* acknowledged and ignored, unless some other write of this server was executed, or
\* another user edited the record: either may have brought about what it saw.
AppliedIsThere ==
    \A c \in Call :
        (/\ answer[c] = "applied" /\ wire[c] = "void" /\ edits = 0
         /\ request[c].op \notin {"thirdparty_update", "lead_update"}) =>
            \E d \in Call : wire[d] = "persisted"

\* The values that Dolibarr stores and shows as they were proposed.
Normal(f, v) == Shown(f, Sent(f, v)) = v

\* An executed write that meets what its call read leaves a state which its token does not
\* confirm, so the call cannot be repeated.  An update that proposes a country code
\* in lower case, or an empty text, finds the same difference for ever.
PersistSpendsToken ==
    \A c \in Call :
        LET t == Target(request[c])
        IN  (/\ wire[c] = "flying" /\ wire'[c] = "persisted"
             /\ View(t, world[t]) = seen[c][t]
             /\ t # "contacts" => \A f \in DOMAIN Proposed(request[c], seen[c]) :
                                    Normal(f, Proposed(request[c], seen[c])[f]))
            => View(t, world'[t]) # seen[c][t]

TokensAreSpent == [][PersistSpendsToken]_vars

\* A write of this server leaves no draft closed, unless another user edited the project.  The
\* close is a generic update, decided on a read that other calls may have overtaken: they
\* open and close the project, but make no draft of it.
WriteFollowsLifecycle ==
    \A c \in Call :
        (wire[c] = "flying" /\ wire'[c] = "persisted" /\ Target(request[c]) = "lead"
            /\ edits = 0) =>
            (world'.lead.status = "closed" => world.lead.status # "draft")

WritesFollowLifecycle == [][WriteFollowsLifecycle]_vars

\* The flag of a task_assign agrees with its outcome and with Dolibarr: it is applied only
\* if its POST succeeded and the role was seen, partial if the role was not seen, and
\* a role that was seen stays until another user takes it away.
AssignedAgrees ==
    \A c \in Call :
        (request[c] # Nil /\ request[c].op = "task_assign") =>
            /\ answer[c] = "applied" => assigned[c] = TRUE /\ ~ trouble[c]
            /\ assigned[c] = FALSE => answer[c] = "partial"
            /\ (assigned[c] = TRUE /\ edits = 0) => world.contacts

\* docs/architecture.md: a configured inactive stage is rejected before preview.
InactiveStagesAreNotWritten ==
    \A c \in Call :
        (wire[c] = "flying" /\ request[c].op = "lead_change_status") =>
            ~ Inactive(Resolved(request[c], seen[c]))
=============================================================================
