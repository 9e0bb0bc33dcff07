----------------------------- MODULE LeadAssign -----------------------------
(***************************************************************************)
(* SalesService.lead_assign (src/src/dolibarr_mcp/sales.py): replacing the  *)
(* internal PROJECTLEADER relations of one lead by a single one.  The lead  *)
(* is read twice, then one POST and any number of DELETEs follow, each with *)
(* an await of its own and an error handler that carries on; there is no    *)
(* transaction.  Relations are identified by user, as the DELETE route is.  *)
(* The other fields of the lead are bound into the token too; leaving them  *)
(* out here only makes conflicts rarer.  A reply with a 2xx status is all   *)
(* the code asks of a write: Dolibarr may send one without doing anything.  *)
(***************************************************************************)
EXTENDS Naturals

CONSTANTS
    Call,       \* tool calls, each made once
    User,       \* users that can be leaders
    Nil,        \* Python's None
    MaxEdits    \* bound on edits of the leaders made outside of this server

ASSUME NilAssumption == Nil \notin User
ASSUME EditsAssumption == MaxEdits \in Nat

VARIABLES
    leaders,    \* Dolibarr: the lead's internal PROJECTLEADERs
    edits,      \* edits made outside of this server so far
    issued,     \* confirmation tokens returned in previews
    pc,         \* where the coroutine of a call is suspended
    desired,    \* its user_id
    given,      \* its confirmation_token, Nil for a call with apply=false
    owners,     \* the leaders as lead_get read them
    relations,  \* the leaders as the second read returned them
    todo,       \* relations still to be removed
    victim,     \* the relation whose DELETE is awaited
    failures,   \* calls whose partial_errors is not empty
    answer,     \* the outcome of a call
    wire,       \* writes that Dolibarr has not answered yet
    accepted,   \* writes that it answers with a 2xx status
    executed,   \* those of them that it carried out
    ousted,     \* history: calls whose user somebody else removed meanwhile
    joined      \* history: the leaders that somebody else added meanwhile

callVars == <<pc, desired, given, owners, relations, todo, victim, failures, answer>>
worldVars == <<leaders, edits, wire, accepted, executed, ousted, joined>>
vars == <<leaders, edits, issued, pc, desired, given, owners, relations, todo,
          victim, failures, answer, wire, accepted, executed, ousted, joined>>

Write == [call: Call, verb: {"add", "delete"}, user: User]

Token == [desired: User, owners: SUBSET User, relations: SUBSET User]

Reading == {"lookup", "owners", "relations"}

TypeOK ==
    /\ leaders \subseteq User
    /\ edits \in 0..MaxEdits
    /\ issued \subseteq Token
    /\ pc \in [Call -> Reading \cup {"idle", "adding", "removing", "refresh", "done"}]
    /\ desired \in [Call -> User \cup {Nil}]
    /\ given \in [Call -> Token \cup {Nil}]
    /\ owners \in [Call -> SUBSET User]
    /\ relations \in [Call -> SUBSET User]
    /\ todo \in [Call -> SUBSET User]
    /\ victim \in [Call -> User \cup {Nil}]
    /\ \A c \in Call : victim[c] \in todo[c] \cup {Nil}
    /\ failures \subseteq Call
    /\ answer \in [Call -> {"none", "not_found", "preview", "conflict", "no_op",
                            "applied", "partial", "failed", "lost"}]
    /\ wire \subseteq Write
    /\ accepted \subseteq Write
    /\ executed \subseteq accepted
    /\ ousted \subseteq Call
    /\ joined \in [Call -> SUBSET User]

Init ==
    /\ leaders \in SUBSET User
    /\ edits = 0
    /\ issued = {}
    /\ pc = [c \in Call |-> "idle"]
    /\ desired = [c \in Call |-> Nil]
    /\ given = [c \in Call |-> Nil]
    /\ owners = [c \in Call |-> {}]
    /\ relations = [c \in Call |-> {}]
    /\ todo = [c \in Call |-> {}]
    /\ victim = [c \in Call |-> Nil]
    /\ failures = {}
    /\ answer = [c \in Call |-> "none"]
    /\ wire = {}
    /\ accepted = {}
    /\ executed = {}
    /\ ousted = {}
    /\ joined = [c \in Call |-> {}]

---------------------------------------------------------------------------
(* Reading and confirming *)

Finish(c, outcome) ==
    /\ pc' = [pc EXCEPT ![c] = "done"]
    /\ answer' = [answer EXCEPT ![c] = outcome]

\* The caller may present any token it was given, or apply without one.
Invoke(c) ==
    /\ pc[c] = "idle"
    /\ \E u \in User, tok \in issued \cup {Nil} :
        /\ desired' = [desired EXCEPT ![c] = u]
        /\ given' = [given EXCEPT ![c] = tok]
    /\ pc' = [pc EXCEPT ![c] = "lookup"]
    /\ UNCHANGED <<issued, owners, relations, todo, victim, failures, answer, worldVars>>

\* The user is active and the project is a lead; or the call ends here.
Lookup(c) ==
    /\ pc[c] = "lookup"
    /\ \/ pc' = [pc EXCEPT ![c] = "owners"] /\ UNCHANGED answer
       \/ Finish(c, "not_found")
    /\ UNCHANGED <<issued, desired, given, owners, relations, todo, victim, failures, worldVars>>

\* The contacts as lead_get reads them.
ReadOwners(c) ==
    /\ pc[c] = "owners"
    /\ owners' = [owners EXCEPT ![c] = leaders]
    /\ pc' = [pc EXCEPT ![c] = "relations"]
    /\ UNCHANGED <<issued, desired, given, relations, todo, victim, failures, answer, worldVars>>

\* Mutant: the relations that will be removed are not part of the token.
MutantTokenOf(c) ==
    [desired |-> desired[c], owners |-> owners[c], relations |-> {}]

\* The token of a call whose second read of the contacts returns the leaders.
TokenOf(c) ==
    [desired |-> desired[c], owners |-> owners[c], relations |-> leaders]

SoleOwner(c) == leaders = {desired[c]}

\* The second read of the contacts; the code up to the next await runs on it.
ReadRelations(c) ==
    /\ pc[c] = "relations"
    /\ relations' = [relations EXCEPT ![c] = leaders]
    /\ UNCHANGED <<desired, given, owners, victim, failures>>

Preview(c) ==
    /\ ReadRelations(c)
    /\ given[c] = Nil
    /\ issued' = issued \cup {TokenOf(c)}
    /\ Finish(c, "preview")
    /\ UNCHANGED <<todo, worldVars>>

\* apply=true with the token of another state or user, or none.
Conflict(c) ==
    /\ ReadRelations(c)
    /\ given[c] # TokenOf(c)
    /\ Finish(c, "conflict")
    /\ UNCHANGED <<issued, todo, worldVars>>

Confirmed(c) == given[c] # Nil /\ given[c] = TokenOf(c)

NoOp(c) ==
    /\ ReadRelations(c)
    /\ Confirmed(c)
    /\ SoleOwner(c)
    /\ Finish(c, "no_op")
    /\ UNCHANGED <<issued, todo, worldVars>>

---------------------------------------------------------------------------
(* Writing *)

Message(c, verb, u) == [call |-> c, verb |-> verb, user |-> u]

Send(c, verb, u) ==
    /\ wire' = wire \cup {Message(c, verb, u)}
    /\ UNCHANGED <<leaders, edits, accepted, executed, ousted, joined>>

\* Any 2xx is a success; what became of the relation is not looked at.
Acknowledged(c, verb, u) == Message(c, verb, u) \in accepted

\* The desired user is not a leader yet: add it before anything is removed.
SendAdd(c) ==
    /\ ReadRelations(c)
    /\ Confirmed(c)
    /\ desired[c] \notin leaders
    /\ Send(c, "add", desired[c])
    /\ pc' = [pc EXCEPT ![c] = "adding"]
    /\ UNCHANGED <<issued, todo, answer>>

\* The desired user is one of the leaders: remove the others.
StartRemoving(c) ==
    /\ ReadRelations(c)
    /\ Confirmed(c)
    /\ ~ SoleOwner(c)
    /\ desired[c] \in leaders
    /\ todo' = [todo EXCEPT ![c] = leaders \ {desired[c]}]
    /\ pc' = [pc EXCEPT ![c] = "removing"]
    /\ UNCHANGED <<issued, answer, worldVars>>

AddReturns(c) ==
    /\ pc[c] = "adding"
    /\ Acknowledged(c, "add", desired[c])
    /\ todo' = [todo EXCEPT ![c] = relations[c] \ {desired[c]}]
    /\ pc' = [pc EXCEPT ![c] = "removing"]
    /\ UNCHANGED <<issued, desired, given, owners, relations, victim, failures, answer, worldVars>>

\* Mutant: the desired user counts as present although adding it failed.
MutantAddFailsRemoves(c) ==
    /\ pc[c] = "adding"
    /\ failures' = failures \cup {c}
    /\ todo' = [todo EXCEPT ![c] = relations[c] \ {desired[c]}]
    /\ pc' = [pc EXCEPT ![c] = "removing"]
    /\ UNCHANGED <<issued, desired, given, owners, relations, victim, answer, worldVars>>

\* Mutant: the failure is not recorded.
MutantAddFailsSilently(c) ==
    /\ pc[c] = "adding"
    /\ pc' = [pc EXCEPT ![c] = "refresh"]
    /\ UNCHANGED <<issued, desired, given, owners, relations, todo, victim, failures, answer,
                   worldVars>>

\* Refused, or no reply in time: nothing is removed.  What was sent stays sent.
AddFails(c) ==
    /\ pc[c] = "adding"
    /\ failures' = failures \cup {c}
    /\ pc' = [pc EXCEPT ![c] = "refresh"]
    /\ UNCHANGED <<issued, desired, given, owners, relations, todo, victim, answer, worldVars>>

SendDelete(c) ==
    /\ pc[c] = "removing"
    /\ victim[c] = Nil
    /\ \E u \in todo[c] :
        /\ victim' = [victim EXCEPT ![c] = u]
        /\ Send(c, "delete", u)
    /\ UNCHANGED <<issued, pc, desired, given, owners, relations, todo, failures, answer>>

\* The awaited DELETE is over, well or not: go on with the next relation.
NextRelation(c) ==
    /\ pc[c] = "removing"
    /\ victim[c] # Nil
    /\ todo' = [todo EXCEPT ![c] = @ \ {victim[c]}]
    /\ victim' = [victim EXCEPT ![c] = Nil]
    /\ UNCHANGED <<issued, pc, desired, given, owners, relations, answer, worldVars>>

\* Mutant: the loop forgets to move on to the next relation.
MutantDeleteReturns(c) ==
    /\ pc[c] = "removing"
    /\ victim[c] # Nil
    /\ Acknowledged(c, "delete", victim[c])
    /\ todo' = [todo EXCEPT ![c] = @ \ {victim[c]}]
    /\ UNCHANGED <<issued, pc, desired, given, owners, relations, victim, failures, answer,
                   worldVars>>

DeleteReturns(c) ==
    /\ Acknowledged(c, "delete", victim[c])
    /\ NextRelation(c)
    /\ UNCHANGED failures

\* Mutant: a relation that could not be removed is not reported.
MutantDeleteFailsSilently(c) == NextRelation(c) /\ UNCHANGED failures

\* Mutant: the DELETE has no timeout and no error handler.
MutantDeleteFailsNever(c) == FALSE /\ UNCHANGED vars

DeleteFails(c) ==
    /\ NextRelation(c)
    /\ failures' = failures \cup {c}

RemovalsEnd(c) ==
    /\ pc[c] = "removing"
    /\ todo[c] = {}
    /\ pc' = [pc EXCEPT ![c] = "refresh"]
    /\ UNCHANGED <<issued, desired, given, owners, relations, todo, victim, failures, answer,
                   worldVars>>

\* The final lead_get; the outcome does not depend on what it returns.
Refresh(c) ==
    /\ pc[c] = "refresh"
    /\ Finish(c, IF c \in failures THEN "partial" ELSE "applied")
    /\ UNCHANGED <<issued, desired, given, owners, relations, todo, victim, failures, worldVars>>

\* A read that fails ends the call with an error, the final one included.
ReadFails(c) ==
    /\ pc[c] \in Reading \cup {"refresh"}
    /\ Finish(c, "failed")
    /\ UNCHANGED <<issued, desired, given, owners, relations, todo, victim, failures, worldVars>>

\* The coroutine ends with its process or with its client's connection.
Lost(c) ==
    /\ pc[c] \notin {"idle", "done"}
    /\ Finish(c, "lost")
    /\ todo' = [todo EXCEPT ![c] = {}]
    /\ victim' = [victim EXCEPT ![c] = Nil]
    /\ UNCHANGED <<issued, desired, given, owners, relations, failures, worldVars>>

---------------------------------------------------------------------------
(* Dolibarr and its other users: external *)

\* The calls that rely on the leaders they read: they write, or have a write under way.
Relies(c) ==
    pc[c] \in {"adding", "removing", "refresh"} \/ \E w \in wire : w.call = c

\* What the other calls do not know of a change of the leaders.
Surprise(others) ==
    /\ ousted' = ousted \cup {c \in others : Relies(c) /\ desired[c] \in leaders \ leaders'}
    /\ joined' = [c \in Call |-> joined[c] \cup
                    IF c \in others /\ Relies(c) THEN leaders' \ leaders ELSE {}]

Execute(w) ==
    /\ w \in wire
    /\ wire' = wire \ {w}
    /\ accepted' = accepted \cup {w}
    /\ executed' = executed \cup {w}
    /\ leaders' = IF w.verb = "add" THEN leaders \cup {w.user} ELSE leaders \ {w.user}
    /\ Surprise(Call \ {w.call})
    /\ UNCHANGED <<edits, issued, callVars>>

\* A 2xx status for a write that changed nothing.
Ignore(w) ==
    /\ w \in wire
    /\ wire' = wire \ {w}
    /\ accepted' = accepted \cup {w}
    /\ UNCHANGED <<leaders, edits, issued, executed, ousted, joined, callVars>>

Refuse(w) ==
    /\ w \in wire
    /\ wire' = wire \ {w}
    /\ UNCHANGED <<leaders, edits, issued, accepted, executed, ousted, joined, callVars>>

Edit ==
    /\ edits < MaxEdits
    /\ edits' = edits + 1
    /\ leaders' \in SUBSET User
    /\ Surprise(Call)
    /\ UNCHANGED <<issued, wire, accepted, executed, callVars>>

Step(c) ==
    \/ Lookup(c) \/ ReadOwners(c) \/ Preview(c) \/ Conflict(c) \/ NoOp(c)
    \/ SendAdd(c) \/ StartRemoving(c) \/ AddReturns(c) \/ AddFails(c)
    \/ SendDelete(c) \/ DeleteReturns(c) \/ DeleteFails(c) \/ RemovalsEnd(c)
    \/ Refresh(c) \/ ReadFails(c)

Next ==
    \/ \E c \in Call : Invoke(c) \/ Step(c) \/ Lost(c)
    \/ \E w \in wire : Execute(w) \/ Ignore(w) \/ Refuse(w)
    \/ Edit

\* Every await of a started call ends: with its result or with a timeout.
Fairness == \A c \in Call : WF_vars(Step(c))

Spec == Init /\ [][Next]_vars /\ Fairness

---------------------------------------------------------------------------
(* What is claimed *)

\* Whatever a call writes was shown in a preview: the user it adds, and that
\* each relation it deletes was there to be replaced by that user.
WritesWerePreviewed ==
    \A w \in wire \cup accepted : \E d \in Call :
        /\ answer[d] = "preview"
        /\ desired[d] = desired[w.call]
        /\ owners[d] = owners[w.call]
        /\ IF w.verb = "add" THEN w.user = desired[d]
           ELSE w.user \in relations[d] \ {desired[d]}

\* Dolibarr said yes to a write of the call and did nothing.
Ignored(c, verb, u) == Message(c, verb, u) \in accepted \ executed

\* Adding comes first, and nothing is removed unless the POST was acknowledged.  So
\* a call takes a lead its last leader only if somebody else removed the user it
\* assigns while it relied on it, another assignment for instance, or if the POST
\* was acknowledged and ignored.
RemovesLastLeader(c) ==
    /\ leaders # {} /\ leaders' = {}
    /\ \E w \in wire : w.call = c /\ w \in executed' \ executed

LastLeaderKept ==
    [][\A c \in Call : RemovesLastLeader(c) =>
        c \in ousted \/ Ignored(c, "add", desired[c])]_vars

\* A call that answers applied or no_op compares nothing with the refreshed lead, and
\* still the leaders are accounted for.  Its user is one, unless somebody else removed
\* it or the POST was ignored; any other was added by somebody else after the call read
\* the relations, or its DELETE was acknowledged and ignored.
Succeeds(c) == answer[c] = "none" /\ answer'[c] \in {"applied", "no_op"}

LeadersExplained(c) ==
    /\ desired[c] \in leaders \/ c \in ousted \/ Ignored(c, "add", desired[c])
    /\ \A u \in leaders \ {desired[c]} : u \in joined[c] \/ Ignored(c, "delete", u)

SuccessMeansSoleOwner == [][\A c \in Call : Succeeds(c) => LeadersExplained(c)]_vars

\* Nothing that a call sent can still be executed after it answered applied, and
\* previews, conflicts and no-ops never send anything.
AnswersSettleWrites ==
    \A c \in Call :
        /\ answer[c] = "applied" => \A w \in wire : w.call # c
        /\ answer[c] \in {"not_found", "preview", "conflict", "no_op"} =>
            \A w \in wire \cup accepted : w.call # c

\* Every call that was made is answered.
EveryCallIsAnswered == \A c \in Call : pc[c] = "lookup" ~> pc[c] = "done"

\* docs/adr/0003: "If a later call fails, the tool returns `partial`, safe generic
\* errors, and a refreshed lead".  So a call that changed the leaders never answers
\* with a mere error.
FailureAfterWriteIsPartial ==
    \A c \in Call : answer[c] = "failed" => \A w \in executed : w.call # c
=============================================================================
