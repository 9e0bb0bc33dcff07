---------------------------- MODULE LeaveRequests ----------------------------
(***************************************************************************)
(* LeaveRequestService (src/src/dolibarr_mcp/leave_requests.py) at work on  *)
(* the holidays of one Dolibarr instance.                                   *)
(*                                                                         *)
(* A tool call is a coroutine that gives up control at every await, so each *)
(* action below is the code between two awaits: read the holiday and decide *)
(* what to do (preview, conflict, no-op, send the write), take the reply to *)
(* the write, read again and answer.  Other calls, other users of Dolibarr  *)
(* and the execution of writes already sent are free to happen in between.  *)
(* A GET is executed by Dolibarr in the same step as the code that handles  *)
(* its response: that code touches nothing but its own call.                *)
(***************************************************************************)
EXTENDS Integers

CONSTANTS
    Call,           \* tool calls, each made once
    Holiday,        \* Dolibarr's holiday ids
    Day,            \* calendar days
    Reason,         \* refusal reasons
    Offered,        \* the operations this instance exercises
    Nil,            \* Python's None
    Absent,         \* "record" of a holiday id that does not exist
    MaxEdits        \* bound on edits made outside of this server

Transition == {"submit", "approve", "refuse", "cancel", "reopen"}
Op == Transition \cup {"create", "update"}

ASSUME OfferedAssumption == Offered \subseteq Op
ASSUME DayAssumption == Day \subseteq Int
ASSUME EditsAssumption == MaxEdits \in Nat

Status == {"draft", "submitted", "approved", "canceled", "refused"}

ASSUME NilAssumption ==
    Nil \notin Status /\ Nil \notin Day /\ Nil \notin Reason /\ Nil \notin Holiday

\* The fields the rules below tell apart; the others travel with them unread.
Record == [status: Status, start: Day, end: Day, reason: Reason \cup {Nil}]
ASSUME AbsentAssumption == Absent \notin Record

Proposal == [status: Status \cup {Nil}, start: Day \cup {Nil},
             end: Day \cup {Nil}, reason: Reason \cup {Nil}]

\* What a create starts from, and the "current" of its token.
Blank == [status |-> "draft", start |-> Nil, end |-> Nil, reason |-> Nil]

\* The arguments of a call but for apply and confirmation_token.
Request == [op: Offered, target: Holiday \cup {Nil}, start: Day \cup {Nil},
            end: Day \cup {Nil}, reason: Reason \cup {Nil}]

\* SHA-256 over this record: injective, and readable only to Dolibarr's callers.
Token == [op: Offered, target: Holiday \cup {Nil}, proposed: Proposal,
          current: Record \cup {Blank}]

VARIABLES
    holiday,    \* Dolibarr: the record of every holiday id
    edits,      \* edits made outside of this server so far
    issued,     \* confirmation tokens returned in previews
    pc,         \* where the coroutine of a call is suspended
    request,    \* its arguments
    given,      \* its confirmation_token, Nil for a call with apply=false
    seen,       \* the record its first read returned
    wire,       \* its write: none, flying, refused, ignored or persisted
    made,       \* the id a create was given by Dolibarr
    answer,     \* its outcome
    stale       \* history: calls whose write met a record they had not seen

callVars == <<pc, request, given, seen, answer>>
worldVars == <<holiday, edits, wire, made, stale>>
vars == <<holiday, edits, issued, pc, request, given, seen, wire, made, answer, stale>>

---------------------------------------------------------------------------
(* Rules *)

\* Mutant: the canceled status misspelt.
MutantDesired ==
    [submit |-> "submitted", approve |-> "approved", refuse |-> "refused",
     cancel |-> "cancelled", reopen |-> "submitted"]

\* desired_by_action.
Desired ==
    [submit |-> "submitted", approve |-> "approved", refuse |-> "refused",
     cancel |-> "canceled", reopen |-> "submitted"]

\* Mutant: drafts can be canceled too.
MutantAllowed ==
    [submit |-> {"draft"}, approve |-> {"submitted"}, refuse |-> {"submitted"},
     cancel |-> {"draft", "submitted", "approved"}, reopen |-> {"canceled"}]

\* allowed_by_action.
Allowed ==
    [submit |-> {"draft"}, approve |-> {"submitted"}, refuse |-> {"submitted"},
     cancel |-> {"submitted", "approved"}, reopen |-> {"canceled"}]

Keep(old, new) == IF new = Nil THEN old ELSE new

Merge(old, p) ==
    [status |-> Keep(old.status, p.status), start |-> Keep(old.start, p.start),
     end |-> Keep(old.end, p.end), reason |-> Keep(old.reason, p.reason)]

\* The inputs the pydantic models let through.
WellFormed(q) ==
    /\ (q.op = "create") <=> (q.target = Nil)
    /\ (q.op = "refuse") <=> (q.reason # Nil)
    /\ q.op \in Transition => q.start = Nil /\ q.end = Nil
    /\ q.op = "update" => q.start # Nil \/ q.end # Nil
    /\ q.op = "create" => q.start # Nil /\ q.end # Nil
    /\ q.start # Nil /\ q.end # Nil => q.start <= q.end

\* Mutant: the dates of an update are checked as they came, not merged.
MutantEligibleUnmerged(q, cur) ==
    /\ q.op \in Transition => cur.status \in Allowed[q.op] \cup {Desired[q.op]}
    /\ q.op = "update" => cur.status = "draft"

Eligible(q, cur) ==
    /\ q.op \in Transition => cur.status \in Allowed[q.op] \cup {Desired[q.op]}
    /\ q.op = "update" => /\ cur.status = "draft"
                          /\ Keep(cur.start, q.start) <= Keep(cur.end, q.end)

\* A reason is not proposed again for a holiday that is already refused.
Proposed(q, cur) ==
    [status |-> IF q.op \in Transition THEN Desired[q.op] ELSE Nil,
     start  |-> q.start,
     end    |-> q.end,
     reason |-> IF q.op = "refuse" /\ cur.status # "refused" THEN q.reason ELSE Nil]

\* Mutant: no-ops are not recognised.
MutantChanges(q, cur) == TRUE

Changes(q, cur) == Merge(cur, Proposed(q, cur)) # cur

\* Mutant: the token of a target does not cover its state.
MutantTokenOf(q, cur) ==
    [op |-> q.op, target |-> q.target, proposed |-> Proposed(q, cur), current |-> Blank]

TokenOf(q, cur) ==
    [op |-> q.op, target |-> q.target, proposed |-> Proposed(q, cur), current |-> cur]

Current(c) == IF request[c].op = "create" THEN Blank ELSE holiday[request[c].target]

---------------------------------------------------------------------------
TypeOK ==
    /\ holiday \in [Holiday -> Record \cup {Absent}]
    /\ edits \in 0..MaxEdits
    /\ issued \subseteq Token
    /\ pc \in [Call -> {"idle", "read", "write", "reread", "done"}]
    /\ request \in [Call -> Request \cup {Nil}]
    /\ given \in [Call -> Token \cup {Nil}]
    /\ seen \in [Call -> Record \cup {Blank, Nil}]
    /\ wire \in [Call -> {"none", "flying", "refused", "ignored", "persisted"}]
    /\ made \in [Call -> Holiday \cup {Nil}]
    /\ answer \in [Call -> {"none", "preview", "rejected", "conflict", "no_op",
                            "applied", "partial", "failed"}]
    /\ stale \subseteq Call

Init ==
    /\ holiday \in [Holiday -> {r \in Record : r.start <= r.end} \cup {Absent}]
    /\ edits = 0
    /\ issued = {}
    /\ pc = [c \in Call |-> "idle"]
    /\ request = [c \in Call |-> Nil]
    /\ given = [c \in Call |-> Nil]
    /\ seen = [c \in Call |-> Nil]
    /\ wire = [c \in Call |-> "none"]
    /\ made = [c \in Call |-> Nil]
    /\ answer = [c \in Call |-> "none"]
    /\ stale = {}

---------------------------------------------------------------------------
(* A tool call *)

\* The caller may present any token it was given, or apply without one.
Invoke(c) ==
    /\ pc[c] = "idle"
    /\ \E q \in Request, tok \in issued \cup {Nil} :
        /\ WellFormed(q)
        /\ request' = [request EXCEPT ![c] = q]
        /\ given' = [given EXCEPT ![c] = tok]
    /\ pc' = [pc EXCEPT ![c] = "read"]
    /\ UNCHANGED <<issued, seen, answer, worldVars>>

Finish(c, outcome) ==
    /\ pc' = [pc EXCEPT ![c] = "done"]
    /\ answer' = [answer EXCEPT ![c] = outcome]

\* The read returned a record; the code up to the next await runs on it.
ReadReturns(c) ==
    /\ pc[c] = "read"
    /\ Current(c) # Absent
    /\ seen' = [seen EXCEPT ![c] = Current(c)]
    /\ UNCHANGED <<request, given>>

\* The operation is not allowed from the state that was read.
Reject(c) ==
    /\ ReadReturns(c)
    /\ ~ Eligible(request[c], Current(c))
    /\ Finish(c, "rejected")
    /\ UNCHANGED <<issued, worldVars>>

\* apply=false: show the changes and the token that binds them to this state.
Preview(c) ==
    /\ ReadReturns(c)
    /\ Eligible(request[c], Current(c))
    /\ given[c] = Nil
    /\ issued' = issued \cup {TokenOf(request[c], Current(c))}
    /\ Finish(c, "preview")
    /\ UNCHANGED worldVars

\* apply=true with the token of another state, operation or input, or none.
Conflict(c) ==
    /\ ReadReturns(c)
    /\ Eligible(request[c], Current(c))
    /\ given[c] # TokenOf(request[c], Current(c))
    /\ Finish(c, "conflict")
    /\ UNCHANGED <<issued, worldVars>>

\* Mutant: any token will do.
MutantConfirmed(c) ==
    /\ Eligible(request[c], Current(c))
    /\ given[c] # Nil

Confirmed(c) ==
    /\ Eligible(request[c], Current(c))
    /\ given[c] # Nil
    /\ given[c] = TokenOf(request[c], Current(c))

\* Confirmed, but the record already has the proposed values.
NoOp(c) ==
    /\ ReadReturns(c)
    /\ Confirmed(c)
    /\ ~ Changes(request[c], Current(c))
    /\ Finish(c, "no_op")
    /\ UNCHANGED <<issued, worldVars>>

SendWrite(c) ==
    /\ ReadReturns(c)
    /\ Confirmed(c)
    /\ Changes(request[c], Current(c))
    /\ pc' = [pc EXCEPT ![c] = "write"]
    /\ wire' = [wire EXCEPT ![c] = "flying"]
    /\ UNCHANGED <<issued, answer, holiday, edits, made, stale>>

\* Dolibarr acknowledged the write: read the record again.
WriteAcknowledged(c) ==
    /\ pc[c] = "write"
    /\ wire[c] \in {"ignored", "persisted"}
    /\ pc' = [pc EXCEPT ![c] = "reread"]
    /\ UNCHANGED <<issued, request, given, seen, answer, worldVars>>

\* The answer of a transition depends on the status that is read; that of
\* create and update does not look at the record.
Reread(c) ==
    LET t == IF request[c].op = "create" THEN made[c] ELSE request[c].target
    IN  /\ pc[c] = "reread"
        /\ holiday[t] # Absent
        /\ Finish(c, IF request[c].op \in Transition
                         /\ holiday[t].status # Desired[request[c].op]
                      THEN "partial" ELSE "applied")
        /\ UNCHANGED <<issued, request, given, seen, worldVars>>

\* Mutant: a write without a reply is reported as a partial success.
MutantCallFailsPartial(c) ==
    /\ \/ pc[c] = "read" /\ request[c].op # "create"
       \/ pc[c] \in {"write", "reread"}
    /\ Finish(c, IF pc[c] = "write" THEN "partial" ELSE "failed")
    /\ UNCHANGED <<issued, request, given, seen, worldVars>>

\* Any call to Dolibarr can fail: an error status, an unusable payload, a
\* timeout, or the end of the coroutine with its client or its process.  What
\* was sent stays sent: a write may still be executed after this.
CallFails(c) ==
    /\ \/ pc[c] = "read" /\ request[c].op # "create"
       \/ pc[c] \in {"write", "reread"}
    /\ Finish(c, "failed")
    /\ UNCHANGED <<issued, request, given, seen, worldVars>>

---------------------------------------------------------------------------
(* Dolibarr and its other users: external *)

\* Dolibarr executes the write, checking nothing this server could rely on.
Persist(c) ==
    /\ wire[c] = "flying"
    /\ request[c].op # "create"
    /\ LET t == request[c].target
       IN  /\ holiday[t] # Absent
           /\ holiday' = [holiday EXCEPT ![t] =
                            Merge(holiday[t], Proposed(request[c], seen[c]))]
           /\ stale' = IF holiday[t] = seen[c] THEN stale ELSE stale \cup {c}
    /\ wire' = [wire EXCEPT ![c] = "persisted"]
    /\ UNCHANGED <<issued, edits, made, callVars>>

PersistCreate(c) ==
    /\ wire[c] = "flying"
    /\ request[c].op = "create"
    /\ \E t \in Holiday :
        /\ holiday[t] = Absent
        /\ holiday' = [holiday EXCEPT ![t] =
                         Merge(Blank, Proposed(request[c], Blank))]
        /\ made' = [made EXCEPT ![c] = t]
    /\ wire' = [wire EXCEPT ![c] = "persisted"]
    /\ UNCHANGED <<issued, edits, stale, callVars>>

\* Dolibarr refuses the write, or acknowledges an edit it does not persist.
Discard(c) ==
    /\ wire[c] = "flying"
    /\ \E w \in {"refused", "ignored"} :
        /\ w = "ignored" => request[c].op # "create"
        /\ wire' = [wire EXCEPT ![c] = w]
    /\ UNCHANGED <<holiday, edits, issued, made, stale, callVars>>

\* Another user adds, edits or deletes a holiday; never with reversed dates.
Edit(t) ==
    /\ edits < MaxEdits
    /\ edits' = edits + 1
    /\ \E r \in {x \in Record : x.start <= x.end} \cup {Absent} :
        holiday' = [holiday EXCEPT ![t] = r]
    /\ UNCHANGED <<issued, wire, made, stale, callVars>>

Step(c) ==
    \/ Reject(c) \/ Preview(c) \/ Conflict(c) \/ NoOp(c) \/ SendWrite(c)
    \/ WriteAcknowledged(c) \/ Reread(c) \/ CallFails(c)

Next ==
    \/ \E c \in Call : Invoke(c) \/ Step(c)
    \/ \E c \in Call : Persist(c) \/ PersistCreate(c) \/ Discard(c)
    \/ \E t \in Holiday : Edit(t)

Spec == Init /\ [][Next]_vars

---------------------------------------------------------------------------
(* What is claimed *)

\* Two calls that ask for the same thing of a record in the same state.
SameChange(c, d) ==
    /\ request[c].op = request[d].op
    /\ request[c].target = request[d].target
    /\ request[c].start = request[d].start
    /\ request[c].end = request[d].end
    /\ request[c].reason = request[d].reason
    /\ seen[c] = seen[d]

\* No write leaves this server unless an earlier call previewed exactly this
\* operation with these inputs on a record in exactly the state that the
\* writing call has just read again.
WritesWerePreviewed ==
    \A c \in Call : wire[c] # "none" =>
        \E d \in Call : answer[d] = "preview" /\ SameChange(c, d)

\* An answer other than a failure settles what became of the write: previews,
\* rejections, conflicts and no-ops sent none, and nothing can still land
\* after the caller was told that the change was applied, even partially.
AnswersSettleWrites ==
    \A c \in Call :
        /\ answer[c] \in {"preview", "rejected", "conflict", "no_op"} => wire[c] = "none"
        /\ answer[c] \in {"applied", "partial"} => wire[c] \in {"ignored", "persisted"}

Reversed(t) == holiday[t] # Absent /\ holiday[t].start > holiday[t].end

\* Leave dates are reversed only where an update met a record that had changed
\* since the update read it: each partial update keeps start <= end on the
\* record it merged its dates with, and no other operation touches the dates.
ReversedOnlyByStaleUpdate ==
    \A t \in Holiday : Reversed(t) =>
        \E c \in stale : request[c].op = "update" /\ request[c].target = t

\* docs/adr/0004: "The adapter exposes these state transitions".
Workflow ==
    {<<"draft", "submitted">>, <<"submitted", "approved">>, <<"submitted", "refused">>,
     <<"submitted", "canceled">>, <<"approved", "canceled">>, <<"canceled", "submitted">>}

Persists(c) == wire[c] = "flying" /\ wire'[c] = "persisted"

\* A write that meets the record it was decided on moves the status along the
\* documented workflow and leaves the dates alone, or edits a draft's dates.
PersistsWithinWorkflow ==
    \A c \in Call : Persists(c) /\ c \notin stale' /\ request[c].op # "create" =>
        LET old == holiday[request[c].target]
            new == holiday'[request[c].target]
        IN  \/ /\ <<old.status, new.status>> \in Workflow
               /\ new.start = old.start /\ new.end = old.end
            \/ /\ old.status = "draft" /\ new.status = "draft"
               /\ new.reason = old.reason

WritesFollowWorkflow == [][PersistsWithinWorkflow]_vars

\* Executing a write spends its token: whatever the record has become in the
\* meantime, a call with the same arguments that reads it now computes another
\* token, so a replay is a conflict until somebody restores the old record.
\* (A create has no current state in its token and is excluded: its token can
\* be used again.)
PersistSpendsToken ==
    \A c \in Call : Persists(c) /\ request[c].op # "create" =>
        TokenOf(request[c], holiday'[request[c].target]) # given[c]

TokensAreSpent == [][PersistSpendsToken]_vars

\* The service implements the confirmed-mutation protocol.
ChangeOf(tok) == [op |-> tok.op, proposed |-> tok.proposed]
ProtocolChange == {ChangeOf(TokenOf(q, v)) :
                    q \in {x \in Request : WellFormed(x)}, v \in Record \cup {Blank}}
ResultOf(ch, v) == Merge(v, ch.proposed)

PreviewOf(tok) == <<tok.target, ChangeOf(tok), tok.current>>

Protocol == INSTANCE ConfirmedWrite WITH
    Target <- Holiday, New <- Nil, Value <- Record, Change <- ProtocolChange,
    Result <- ResultOf,
    store <- holiday,
    previews <- {PreviewOf(tok) : tok \in issued},
    auth <- [c \in Call |-> IF wire[c] = "flying"
                           THEN {PreviewOf(TokenOf(request[c], seen[c]))} ELSE {}],
    used <- {c \in Call : wire[c] # "none"}

ImplementsConfirmedWrite == Protocol!Spec
=============================================================================
