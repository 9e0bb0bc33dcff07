---------------------------- MODULE UpdatesProofs ----------------------------
(***************************************************************************)
(* Safety of Updates for any number of calls and edits, any stages and any  *)
(* catalog.  What a call relies on after its reads is that its write was    *)
(* decided on what it still remembers, and that tokens come from previews.  *)
(***************************************************************************)
EXTENDS Updates, FiniteSetTheorems, TLAPS

\* The variables that belong to calls are functions of the calls.
CallsInv ==
    /\ pc \in [Call -> {"idle", "read", "write", "reread", "leaders", "done"}]
    /\ answer \in [Call -> Outcome \cup {Nil}]
    /\ wire \in [Call -> {"none", "flying", "refused", "void", "persisted"}]
    /\ trouble \in [Call -> BOOLEAN]
    /\ DOMAIN request = Call /\ DOMAIN given = Call /\ DOMAIN seen = Call

\* The parts of Dolibarr that are records keep their fields.
WorldInv ==
    /\ "thirdparty" \in DOMAIN world => DOMAIN world.thirdparty = {"country", "address", "note"}
    /\ "lead" \in DOMAIN world =>
        DOMAIN world.lead = {"opportunity", "party", "stage", "status"}

\* A call never mixes up its own phase, write and answer.
PhaseInv(c) ==
    /\ pc[c] # "idle" => request[c] \in Request /\ Target(request[c]) \in DOMAIN world
    /\ pc[c] \in {"idle", "read"} => wire[c] = "none"
    /\ pc[c] \in {"reread", "leaders"} => wire[c] \in {"void", "persisted"} \/ trouble[c]
    /\ pc[c] = "leaders" => Target(request[c]) = "lead"
    /\ trouble[c] => pc[c] \in {"reread", "done"} /\ Target(request[c]) = "contacts"
    /\ pc[c] # "done" => answer[c] = Nil
    /\ answer[c] = "preview" => pc[c] = "done"

\* A write was confirmed and changes something.
WriteInv(c) ==
    wire[c] # "none" =>
        /\ given[c] = TokenOf(request[c], seen[c])
        /\ given[c] \in issued
        /\ ~ Unchanged(request[c], seen[c])

\* A token is only known from a preview.
IssuedInv ==
    /\ \A c \in Call : given[c] \in issued \cup {Nil}
    /\ \A tok \in issued : \E d \in Call :
        /\ answer[d] = "preview"
        /\ tok = TokenOf(request[d], seen[d])

Inv ==
    /\ CallsInv
    /\ WorldInv
    /\ \A c \in Call : PhaseInv(c) /\ WriteInv(c)
    /\ IssuedInv
    /\ AnswersSettleWrites

---------------------------------------------------------------------------
(* The rules *)

\* Every request is about a record of its target.
LEMMA TargetOfRequest ==
    ASSUME NEW q \in Request
    PROVE  /\ q.op = "task_assign" <=> Target(q) = "contacts"
           /\ q.op = "thirdparty_update" <=> Target(q) = "thirdparty"
           /\ Target(q) \in {"contacts", "thirdparty", "lead"}
BY DEF Request, Target, LeadOperation

\* What is proposed are fields of the target.
LEMMA ProposedFields ==
    ASSUME NEW q \in Request, NEW s, q.op # "task_assign"
    PROVE  DOMAIN Proposed(q, s) \subseteq
            IF Target(q) = "thirdparty" THEN {"country", "address", "note"}
            ELSE {"opportunity", "party", "stage", "status"}
<1>1. CASE q.op = "thirdparty_update"
    <2>1. q.input \in ThirdpartyInput /\ Proposed(q, s) = q.input /\ Target(q) = "thirdparty"
        BY <1>1 DEF Request, Proposed, Target, LeadOperation
    <2>. QED
        BY <2>1 DEF ThirdpartyInput
<1>2. CASE q.op = "lead_update"
    <2>1. q.input \in LeadInput /\ Proposed(q, s) = q.input /\ Target(q) = "lead"
        BY <1>2 DEF Request, Proposed, Target, LeadOperation
    <2>. QED
        BY <2>1 DEF LeadInput
<1>3. CASE q.op = "lead_change_status"
    BY <1>3 DEF Proposed, Target
<1>4. CASE q.op = "lead_open_project"
    BY <1>4 DEF Proposed, Target
<1>5. CASE q.op = "lead_close_project"
    BY <1>5 DEF Proposed, Target
<1>. QED
    BY <1>1, <1>2, <1>3, <1>4, <1>5 DEF Request, LeadOperation

\* A token tells the operation, the state and the proposal apart.
LEMMA TokenTells ==
    ASSUME NEW q \in Request, NEW r \in Request, NEW s, NEW t, TokenOf(q, s) = TokenOf(r, t)
    PROVE  /\ q.op = r.op
           /\ Current(s) = Current(t)
           /\ q.op # "task_assign" => Proposed(q, s) = Proposed(r, t)
BY DEF TokenOf

---------------------------------------------------------------------------
(* The steps of a call *)

Settled(c) ==
    /\ answer[c] \in {"rejected", "preview", "conflict", "no_op"} => wire[c] = "none"
    /\ answer[c] = "applied" => wire[c] \in {"void", "persisted"}
    /\ answer[c] = "partial" => wire[c] \in {"void", "persisted"} \/ trouble[c]

\* A step of one call leaves what is known of the others as it is.
LEMMA CallStep ==
    ASSUME Inv, NEW c \in Call, world' = world, issued \subseteq issued', pc[c] # "done",
           CallsInv', PhaseInv(c)', WriteInv(c)', Settled(c)', given'[c] \in issued' \cup {Nil},
           \A d \in Call \ {c} :
                /\ pc'[d] = pc[d] /\ request'[d] = request[d] /\ given'[d] = given[d]
                /\ seen'[d] = seen[d] /\ wire'[d] = wire[d] /\ trouble'[d] = trouble[d]
                /\ answer'[d] = answer[d],
           \A tok \in issued' \ issued :
                answer'[c] = "preview" /\ tok = TokenOf(request[c], seen[c])'
    PROVE  Inv'
<1>1. ASSUME NEW d \in Call \ {c} PROVE PhaseInv(d)' /\ WriteInv(d)'
    BY DEF Inv, PhaseInv, WriteInv
<1>2. WorldInv'
    BY DEF Inv, WorldInv
<1>3. \A d \in Call : given'[d] \in issued' \cup {Nil}
    BY DEF Inv, IssuedInv
<1>4. ASSUME NEW tok \in issued'
      PROVE  \E d \in Call : answer'[d] = "preview" /\ tok = TokenOf(request[d], seen[d])'
    <2>1. CASE tok \in issued
        <3>1. PICK d \in Call : answer[d] = "preview" /\ tok = TokenOf(request[d], seen[d])
            BY <2>1 DEF Inv, IssuedInv
        <3>2. d # c
            BY <3>1 DEF Inv, PhaseInv
        <3>3. request'[d] = request[d] /\ seen'[d] = seen[d] /\ answer'[d] = answer[d]
            BY <3>2
        <3>. QED
            BY <3>1, <3>3
    <2>. QED
        BY <2>1
<1>5. IssuedInv'
    BY <1>3, <1>4 DEF IssuedInv
<1>6. ASSUME NEW d \in Call PROVE Settled(d)'
    BY DEF Inv, AnswersSettleWrites, Settled
<1>7. AnswersSettleWrites'
    BY <1>6 DEF AnswersSettleWrites, Settled
<1>. QED
    BY <1>1, <1>2, <1>5, <1>7 DEF Inv

LEMMA InvokeInv == ASSUME Inv, NEW c \in Call, Invoke(c) PROVE Inv'
<1>1. PICK q \in Request, tok \in issued \cup {Nil} :
        /\ pc[c] = "idle" /\ Target(q) \in DOMAIN world
        /\ request' = [request EXCEPT ![c] = q]
        /\ given' = [given EXCEPT ![c] = tok]
        /\ \/ pc' = [pc EXCEPT ![c] = "done"] /\ answer' = [answer EXCEPT ![c] = "rejected"]
           \/ pc' = [pc EXCEPT ![c] = "read"] /\ UNCHANGED answer
        /\ UNCHANGED <<world, edits, issued, seen, there, trouble, assigned, wire>>
    BY DEF Invoke, Finish
<1>2. wire[c] = "none" /\ answer[c] = Nil
    BY <1>1 DEF Inv, PhaseInv
<1>3. CallsInv'
    BY <1>1 DEF Inv, CallsInv, Outcome
<1>4. PhaseInv(c)' /\ WriteInv(c)' /\ Settled(c)'
    BY <1>1, <1>2, NilAssumption DEF Inv, CallsInv, PhaseInv, WriteInv, Settled, Outcome
<1>5. given'[c] \in issued' \cup {Nil}
    BY <1>1 DEF Inv, CallsInv
<1>. QED
    BY <1>1, <1>3, <1>4, <1>5, CallStep DEF Inv, CallsInv

LEMMA ReadPartInv == ASSUME Inv, NEW c \in Call, ReadPart(c) PROVE Inv'
<1>. USE DEF ReadPart, Returns
<1>1. pc[c] = "read" /\ wire[c] = "none"
    BY DEF Inv, PhaseInv
<1>2. CallsInv'
    BY DEF Inv, CallsInv
<1>3. PhaseInv(c)' /\ WriteInv(c)' /\ Settled(c)'
    BY <1>1, NilAssumption DEF Inv, CallsInv, PhaseInv, WriteInv, Settled, Outcome
<1>. QED
    BY <1>1, <1>2, <1>3, CallStep DEF Inv, CallsInv, IssuedInv

LEMMA RejectInv == ASSUME Inv, NEW c \in Call, Reject(c) PROVE Inv'
<1>. USE DEF Reject, Decides, Returns, Finish
<1>1. pc[c] = "read" /\ wire[c] = "none"
    BY DEF Inv, PhaseInv
<1>2. CallsInv'
    BY DEF Inv, CallsInv, Outcome
<1>3. PhaseInv(c)' /\ WriteInv(c)' /\ Settled(c)'
    BY <1>1 DEF Inv, CallsInv, PhaseInv, WriteInv, Settled
<1>. QED
    BY <1>1, <1>2, <1>3, CallStep DEF Inv, CallsInv, IssuedInv

LEMMA PreviewInv == ASSUME Inv, NEW c \in Call, Preview(c) PROVE Inv'
<1>. USE DEF Preview, Decides, Returns, Finish
<1>1. pc[c] = "read" /\ wire[c] = "none"
    BY DEF Inv, PhaseInv
<1>2. CallsInv'
    BY DEF Inv, CallsInv, Outcome
<1>3. PhaseInv(c)' /\ WriteInv(c)' /\ Settled(c)'
    BY <1>1 DEF Inv, CallsInv, PhaseInv, WriteInv, Settled
<1>4. seen'[c] = Known(c) /\ request'[c] = request[c] /\ answer'[c] = "preview"
    BY DEF Inv, CallsInv
<1>. QED
    BY <1>1, <1>2, <1>3, <1>4, CallStep DEF Inv, CallsInv, IssuedInv

LEMMA ConflictInv == ASSUME Inv, NEW c \in Call, Conflict(c) PROVE Inv'
<1>. USE DEF Conflict, Decides, Returns, Finish
<1>1. pc[c] = "read" /\ wire[c] = "none"
    BY DEF Inv, PhaseInv
<1>2. CallsInv'
    BY DEF Inv, CallsInv, Outcome
<1>3. PhaseInv(c)' /\ WriteInv(c)' /\ Settled(c)'
    BY <1>1 DEF Inv, CallsInv, PhaseInv, WriteInv, Settled
<1>. QED
    BY <1>1, <1>2, <1>3, CallStep DEF Inv, CallsInv, IssuedInv

LEMMA NoOpInv == ASSUME Inv, NEW c \in Call, NoOp(c) PROVE Inv'
<1>. USE DEF NoOp, Confirmed, Decides, Returns, Finish
<1>1. pc[c] = "read" /\ wire[c] = "none"
    BY DEF Inv, PhaseInv
<1>2. CallsInv'
    BY DEF Inv, CallsInv, Outcome
<1>3. PhaseInv(c)' /\ WriteInv(c)' /\ Settled(c)'
    BY <1>1 DEF Inv, CallsInv, PhaseInv, WriteInv, Settled
<1>. QED
    BY <1>1, <1>2, <1>3, CallStep DEF Inv, CallsInv, IssuedInv

LEMMA SendWriteInv == ASSUME Inv, NEW c \in Call, SendWrite(c) PROVE Inv'
<1>. USE DEF SendWrite, Confirmed, Decides, Returns
<1>1. pc[c] = "read" /\ wire[c] = "none" /\ answer[c] = Nil
    BY DEF Inv, PhaseInv
<1>2. CallsInv'
    BY DEF Inv, CallsInv
<1>3. seen'[c] = Known(c) /\ request'[c] = request[c] /\ given'[c] = given[c]
    BY DEF Inv, CallsInv
<1>4. PhaseInv(c)' /\ Settled(c)'
    BY <1>1, <1>3, NilAssumption DEF Inv, CallsInv, PhaseInv, Settled, Outcome
<1>5. WriteInv(c)'
    BY <1>3 DEF WriteInv, Inv, IssuedInv
<1>. QED
    BY <1>1, <1>2, <1>4, <1>5, CallStep DEF Inv, CallsInv, IssuedInv

\* After the write a call only looks at what became of it.
LEMMA LaterStepsInv ==
    ASSUME Inv, NEW c \in Call,
           \/ WriteReturns(c) \/ PostFails(c) \/ RereadContacts(c) \/ RereadContactsFails(c)
           \/ RereadThirdparty(c) \/ RereadLead(c) \/ RereadLeaders(c) \/ CallFails(c)
    PROVE  Inv'
<1>. USE DEF WriteReturns, PostFails, RereadContacts, RereadContactsFails, RereadThirdparty,
             RereadLead, RereadLeaders, CallFails, Finish
<1>1. /\ pc[c] \in {"read", "write", "reread", "leaders"}
      /\ UNCHANGED <<world, issued, request, given, seen, wire>>
    OBVIOUS
<1>2. CallsInv'
    <2>. USE DEF Inv, CallsInv, Outcome
    <2>1. CASE WriteReturns(c) \/ PostFails(c)
        BY <2>1
    <2>2. CASE RereadContacts(c) \/ RereadContactsFails(c)
        BY <2>2
    <2>3. CASE RereadThirdparty(c) \/ RereadLead(c)
        BY <2>3
    <2>4. CASE RereadLeaders(c) \/ CallFails(c)
        BY <2>4
    <2>. QED
        BY <2>1, <2>2, <2>3, <2>4
<1>3. WriteInv(c)'
    BY <1>1 DEF Inv, WriteInv
<1>4. PhaseInv(c)' /\ Settled(c)'
    <2>. USE NilAssumption, TargetOfRequest DEF Inv, CallsInv, PhaseInv, Settled, Outcome
    <2>1. CASE WriteReturns(c)
        BY <2>1
    <2>2. CASE PostFails(c)
        BY <2>2
    <2>3. CASE RereadContacts(c)
        BY <2>3
    <2>4. CASE RereadContactsFails(c)
        BY <2>4
    <2>5. CASE RereadThirdparty(c)
        BY <2>5
    <2>6. CASE RereadLead(c)
        BY <2>6
    <2>7. CASE RereadLeaders(c)
        BY <2>7
    <2>8. CASE CallFails(c)
        BY <2>8
    <2>. QED
        BY <2>1, <2>2, <2>3, <2>4, <2>5, <2>6, <2>7, <2>8
<1>. QED
    BY <1>1, <1>2, <1>3, <1>4, CallStep DEF Inv, CallsInv, IssuedInv

---------------------------------------------------------------------------
(* Dolibarr and its other users *)

\* What a write makes of a record are the fields that it had.
LEMMA EffectFields ==
    ASSUME NEW q \in Request, NEW s, NEW v, q.op # "task_assign"
    PROVE  DOMAIN Effect(q, s, v) = DOMAIN v
BY DEF Effect

\* The calls learn nothing of what happens to a write, or to Dolibarr, until they read.
LEMMA WorldStep ==
    ASSUME Inv, UNCHANGED <<issued, callVars>>, WorldInv', DOMAIN world' = DOMAIN world, CallsInv',
           \A d \in Call : \/ wire'[d] = wire[d]
                           \/ wire[d] = "flying" /\ wire'[d] # "none"
    PROVE  Inv'
<1>. USE DEF callVars
<1>1. ASSUME NEW d \in Call PROVE PhaseInv(d)' /\ WriteInv(d)' /\ Settled(d)'
    BY DEF Inv, PhaseInv, WriteInv, Settled, AnswersSettleWrites
<1>2. IssuedInv'
    BY DEF Inv, IssuedInv
<1>3. AnswersSettleWrites'
    BY <1>1 DEF AnswersSettleWrites, Settled
<1>. QED
    BY <1>1, <1>2, <1>3 DEF Inv

LEMMA PersistInv == ASSUME Inv, NEW c \in Call, Persist(c) PROVE Inv'
<1>. DEFINE q == request[c]
            t == Target(q)
<1>1. /\ wire[c] = "flying" /\ wire' = [wire EXCEPT ![c] = "persisted"]
      /\ world' = [world EXCEPT ![t] = Effect(q, seen[c], world[t])]
      /\ UNCHANGED <<edits, issued, callVars>>
    BY DEF Persist, Fate
<1>2. q \in Request /\ t \in DOMAIN world
    BY <1>1 DEF Inv, PhaseInv
<1>3. DOMAIN world' = DOMAIN world
    BY <1>1
<1>4. CallsInv'
    BY <1>1 DEF Inv, CallsInv, callVars
<1>5. t # "contacts" => DOMAIN world'[t] = DOMAIN world[t]
    BY <1>1, <1>2, EffectFields, TargetOfRequest
<1>6. WorldInv'
    BY <1>1, <1>2, <1>5 DEF Inv, WorldInv
<1>. QED
    BY <1>1, <1>3, <1>4, <1>6, WorldStep DEF Inv, CallsInv

LEMMA DiscardInv == ASSUME Inv, NEW c \in Call, Discard(c) PROVE Inv'
<1>. USE DEF Discard, Fate
<1>1. CallsInv'
    BY DEF Inv, CallsInv, callVars
<1>2. WorldInv'
    BY DEF Inv, WorldInv
<1>. QED
    BY <1>1, <1>2, WorldStep DEF Inv, CallsInv

LEMMA EditInv ==
    ASSUME Inv, NEW p \in DOMAIN world, NEW v \in Edited(p), Edit([world EXCEPT ![p] = v])
    PROVE  Inv'
<1>1. world' = [world EXCEPT ![p] = v] /\ UNCHANGED <<issued, wire, callVars>>
    BY DEF Edit
<1>2. CallsInv'
    BY <1>1 DEF Inv, CallsInv, callVars
<1>3. p = "thirdparty" => DOMAIN v = {"country", "address", "note"}
    BY DEF Edited, Thirdparty
<1>4. p = "lead" => DOMAIN v = {"opportunity", "party", "stage", "status"}
    BY DEF Edited, Lead
<1>5. WorldInv'
    BY <1>1, <1>3, <1>4 DEF Inv, WorldInv
<1>. QED
    BY <1>1, <1>2, <1>5, WorldStep

---------------------------------------------------------------------------
(* Every step *)

LEMMA InitInv == Init => Inv
<1>. SUFFICES ASSUME Init PROVE Inv
    OBVIOUS
<1>1. CallsInv
    BY DEF Init, CallsInv
<1>2. WorldInv
    <2>1. world \in World
        BY DEF Init
    <2>2. "thirdparty" \in DOMAIN world => world.thirdparty \in Thirdparty
        BY <2>1 DEF World
    <2>3. "lead" \in DOMAIN world => world.lead \in Lead
        BY <2>1 DEF World
    <2>. QED
        BY <2>2, <2>3 DEF WorldInv, Thirdparty, Lead
<1>3. \A c \in Call : PhaseInv(c) /\ WriteInv(c)
    BY NilAssumption DEF Init, PhaseInv, WriteInv, Outcome
<1>4. IssuedInv
    BY DEF Init, IssuedInv
<1>5. AnswersSettleWrites
    BY NilAssumption DEF Init, AnswersSettleWrites, Outcome
<1>. QED
    BY <1>1, <1>2, <1>3, <1>4, <1>5 DEF Inv

LEMMA NextInv == Inv /\ [Next]_vars => Inv'
<1>. SUFFICES ASSUME Inv, [Next]_vars PROVE Inv'
    OBVIOUS
<1>1. ASSUME NEW c \in Call, Invoke(c) \/ Step(c) PROVE Inv'
    BY <1>1, InvokeInv, ReadPartInv, RejectInv, PreviewInv, ConflictInv, NoOpInv, SendWriteInv,
       LaterStepsInv DEF Step
<1>2. ASSUME NEW c \in Call, Persist(c) \/ Discard(c) PROVE Inv'
    BY <1>2, PersistInv, DiscardInv
<1>3. ASSUME NEW p \in DOMAIN world, NEW v \in Edited(p), Edit([world EXCEPT ![p] = v])
      PROVE  Inv'
    BY <1>3, EditInv
<1>4. CASE UNCHANGED vars
    <2>. USE <1>4 DEF vars
    <2>1. CallsInv' /\ WorldInv'
        BY DEF Inv, CallsInv, WorldInv
    <2>2. UNCHANGED callVars
        BY DEF callVars
    <2>. QED
        BY <2>1, <2>2, WorldStep
<1>. QED
    BY <1>1, <1>2, <1>3, <1>4 DEF Next

THEOREM Invariance == Spec => []Inv
BY InitInv, NextInv, PTL DEF Spec

---------------------------------------------------------------------------
(* What is claimed *)

\* sales.py, tasks.py: a call that was answered has nothing under way any more, but for a
\* failed one and a task_assign that reported its POST as failed.
THEOREM AnswersSettle == Spec => []AnswersSettleWrites
BY Invariance, PTL DEF Inv

\* _confirmation_token, _confirmed: what is written was previewed, next to the same state.
THEOREM WritesPreviewed == Spec => []WritesWerePreviewed
<1>1. Inv => WritesWerePreviewed
    <2>. SUFFICES ASSUME Inv, NEW c \in Call, wire[c] # "none"
                  PROVE  \E d \in Call :
                            /\ answer[d] = "preview"
                            /\ request[d].op = request[c].op
                            /\ Current(seen[d]) = Current(seen[c])
                            /\ request[c].op # "task_assign" =>
                                Proposed(request[d], seen[d]) = Proposed(request[c], seen[c])
        BY DEF WritesWerePreviewed
    <2>1. given[c] = TokenOf(request[c], seen[c]) /\ given[c] \in issued
        BY DEF Inv, WriteInv
    <2>2. PICK d \in Call : answer[d] = "preview" /\ given[c] = TokenOf(request[d], seen[d])
        BY <2>1 DEF Inv, IssuedInv
    <2>3. request[c] \in Request /\ request[d] \in Request
        BY <2>2, NilAssumption DEF Inv, PhaseInv, Outcome
    <2>4. TokenOf(request[d], seen[d]) = TokenOf(request[c], seen[c])
        BY <2>1, <2>2
    <2>5. /\ request[d].op = request[c].op
          /\ Current(seen[d]) = Current(seen[c])
          /\ request[c].op # "task_assign" =>
                Proposed(request[d], seen[d]) = Proposed(request[c], seen[c])
        BY <2>3, <2>4, TokenTells
    <2>. QED
        BY <2>2, <2>5
<1>. QED
    BY <1>1, Invariance, PTL

\* A write is executed by Dolibarr, whatever the calls do.
LEMMA PersistedBy ==
    ASSUME Inv, [Next]_vars, NEW c \in Call, wire[c] = "flying", wire'[c] = "persisted"
    PROVE  Persist(c)
<1>1. ASSUME NEW d \in Call, Invoke(d) \/ Step(d) PROVE FALSE
    BY <1>1 DEF Invoke, Step, ReadPart, Reject, Preview, Conflict, NoOp, SendWrite, Inv, CallsInv,
        WriteReturns, PostFails, RereadContacts, RereadContactsFails, RereadThirdparty,
        RereadLead, RereadLeaders, CallFails
<1>2. ASSUME NEW d \in Call, Persist(d) \/ Discard(d) PROVE Persist(c)
    BY <1>2 DEF Persist, Discard, Fate, Inv, CallsInv
<1>3. ASSUME NEW w, Edit(w) PROVE FALSE
    BY <1>3 DEF Edit
<1>. QED
    BY <1>1, <1>2, <1>3 DEF Next, vars

\* An executed write changes the state that its token covers, so the token is spent.
LEMMA PersistSpends == Inv /\ [Next]_vars => PersistSpendsToken
<1>. SUFFICES ASSUME Inv, [Next]_vars, NEW c \in Call,
                     wire[c] = "flying", wire'[c] = "persisted",
                     View(Target(request[c]), world[Target(request[c])])
                        = seen[c][Target(request[c])],
                     Target(request[c]) # "contacts" =>
                        \A f \in DOMAIN Proposed(request[c], seen[c]) :
                            Normal(f, Proposed(request[c], seen[c])[f])
              PROVE  View(Target(request[c]), world'[Target(request[c])])
                        # seen[c][Target(request[c])]
    BY DEF PersistSpendsToken
<1>. DEFINE q == request[c]
            t == Target(q)
            p == Proposed(q, seen[c])
<1>1. Persist(c)
    BY PersistedBy
<1>2. /\ q \in Request /\ t \in DOMAIN world
      /\ ~ Unchanged(q, seen[c])
    BY DEF Inv, PhaseInv, WriteInv
<1>3. world'[t] = Effect(q, seen[c], world[t])
    BY <1>1, <1>2 DEF Persist
<1>4. CASE t = "contacts"
    BY <1>2, <1>3, <1>4, TargetOfRequest DEF Effect, View, Unchanged
<1>5. CASE t # "contacts"
    <2>1. q.op # "task_assign" /\ t \in {"thirdparty", "lead"}
        BY <1>2, <1>5, TargetOfRequest
    <2>2. PICK f \in DOMAIN p : seen[c][t][f] # p[f]
        BY <1>2, <2>1 DEF Unchanged
    <2>3. f \in DOMAIN world[t]
        BY <1>2, <2>1, ProposedFields DEF Inv, WorldInv
    <2>4. world'[t][f] = Sent(f, p[f]) /\ f \in DOMAIN world'[t]
        BY <1>3, <2>1, <2>3 DEF Effect
    <2>5. View(t, world'[t])[f] = Shown(f, Sent(f, p[f]))
        BY <2>1, <2>4 DEF View, ShownRecord
    <2>6. Shown(f, Sent(f, p[f])) = p[f]
        BY <1>5 DEF Normal
    <2>. QED
        BY <2>2, <2>5, <2>6
<1>. QED
    BY <1>4, <1>5

\* sales.py: repeating a confirmed call, as after a timeout, does not write a second time.
THEOREM TokensSpent == Spec => TokensAreSpent
BY PersistSpends, Invariance, PTL DEF Spec, TokensAreSpent

---------------------------------------------------------------------------
(* What a call has read at each point: the parts come in one order, and     *)
(* nothing is decided before the last one.                                  *)

\* All that a request may have to read, in its order.
Path(q) ==
    CASE q.op = "thirdparty_update" -> <<"thirdparty">>
      [] q.op = "task_assign" -> <<"task", "project", "user", "contacts">>
      [] q.op = "lead_change_status" /\ q.input \in Unlisted -> <<"observed", "lead", "leaders">>
      [] q.op = "lead_update" -> <<"lead", "leaders", "party">>
      [] OTHER -> <<"lead", "leaders">>

Upto(q, n) == {Path(q)[i] : i \in 1..n}

\* The parts that a call has read are the first ones of its path, all that its decision needs
\* when it was made; a stage was observed without doubt.
ReadsInv(c) ==
    /\ pc[c] = "idle" => seen[c] = <<>> /\ request[c] = Nil
    /\ pc[c] # "idle" => \E n \in 0..Len(Path(request[c])) : DOMAIN seen[c] = Upto(request[c], n)
    /\ pc[c] = "read" => Cardinality(DOMAIN seen[c]) < Len(Plan(request[c], seen[c]))
    /\ (wire[c] # "none" \/ pc[c] \in {"write", "reread", "leaders"}) =>
            Cardinality(DOMAIN seen[c]) = Len(Plan(request[c], seen[c]))
    /\ "observed" \in DOMAIN seen[c] =>
            /\ seen[c].observed \in [Unlisted -> SUBSET Stage]
            /\ Cardinality(seen[c].observed[request[c].input]) = 1

---------------------------------------------------------------------------
(* Paths and plans *)

LEMMA PathLength ==
    ASSUME NEW q \in Request
    PROVE  Len(Path(q)) \in 1..4
BY DEF Path

LEMMA PathDistinct ==
    ASSUME NEW q \in Request, NEW i \in 1..Len(Path(q)), NEW j \in 1..Len(Path(q)), i # j
    PROVE  Path(q)[i] # Path(q)[j]
BY DEF Path

\* As many parts as were read.
LEMMA UptoCount ==
    ASSUME NEW q \in Request, NEW n \in 0..Len(Path(q))
    PROVE  IsFiniteSet(Upto(q, n)) /\ Cardinality(Upto(q, n)) = n
<1>. DEFINE P(m) == IsFiniteSet(Upto(q, m)) /\ Cardinality(Upto(q, m)) = m
<1>0. P(0)
    BY FS_EmptySet DEF Upto
<1>1. ASSUME NEW m \in 0..3, m + 1 <= Len(Path(q)), P(m) PROVE P(m + 1)
    <2>1. Upto(q, m + 1) = Upto(q, m) \cup {Path(q)[m + 1]}
        BY DEF Upto
    <2>2. Path(q)[m + 1] \notin Upto(q, m)
        BY <1>1, PathDistinct, PathLength DEF Upto
    <2>. QED
        BY <1>1, <2>1, <2>2, FS_AddElement
<1>. HIDE DEF P
<1>2. Len(Path(q)) \in 1..4
    BY PathLength
<1>3. (1 <= Len(Path(q)) => P(1)) /\ (2 <= Len(Path(q)) => P(2))
    BY <1>0, <1>1, <1>2
<1>4. (3 <= Len(Path(q)) => P(3)) /\ (4 <= Len(Path(q)) => P(4))
    BY <1>1, <1>2, <1>3
<1>5. n = 0 \/ n = 1 \/ n = 2 \/ n = 3 \/ n = 4
    BY <1>2
<1>6. P(n)
    BY <1>0, <1>2, <1>3, <1>4, <1>5
<1>. QED
    BY <1>6 DEF P

\* A plan follows the path.
LEMMA PlanIsPath ==
    ASSUME NEW q \in Request, NEW s
    PROVE  /\ Len(Plan(q, s)) \in 1..Len(Path(q))
           /\ \A i \in 1..Len(Plan(q, s)) : Plan(q, s)[i] = Path(q)[i]
           /\ q.op # "lead_update" => Len(Plan(q, s)) = Len(Path(q))
           /\ q.op = "lead_update" => Len(Plan(q, s)) >= 2
<1>1. CASE q.op = "thirdparty_update"
    BY <1>1 DEF Plan, Path
<1>2. CASE q.op = "task_assign"
    BY <1>2 DEF Plan, Path
<1>3. CASE q.op = "lead_change_status"
    BY <1>3 DEF Plan, Path
<1>4. CASE q.op = "lead_update"
    BY <1>4 DEF Plan, Path
<1>5. CASE q.op \in {"lead_open_project", "lead_close_project"}
    BY <1>5 DEF Plan, Path
<1>. QED
    BY <1>1, <1>2, <1>3, <1>4, <1>5 DEF Request, LeadOperation

\* What the third party of a lead is compared with does not change while a call reads on.
LEMMA PlanGrows ==
    ASSUME NEW q \in Request, NEW s, NEW t, DOMAIN s \subseteq DOMAIN t,
           "lead" \in DOMAIN s => t.lead = s.lead
    PROVE  Len(Plan(q, s)) <= Len(Plan(q, t))
<1>1. CASE q.op = "lead_update"
    BY <1>1 DEF Plan
<1>2. CASE q.op # "lead_update"
    <2>1. Len(Plan(q, s)) = Len(Path(q)) /\ Len(Plan(q, t)) = Len(Path(q))
        BY <1>2, PlanIsPath
    <2>. QED
        BY <2>1, PathLength
<1>. QED
    BY <1>1, <1>2

---------------------------------------------------------------------------
(* What Dolibarr has *)

\* The values of a part.
PartType(p) ==
    CASE p = "thirdparty" -> Thirdparty
      [] p = "lead" -> Lead
      [] p = "observed" -> [Unlisted -> SUBSET Stage]
      [] OTHER -> BOOLEAN

LEMMA WorldDomain ==
    ASSUME NEW w \in World
    PROVE  DOMAIN w \in {{"thirdparty"}, {"lead", "leaders", "party", "observed"},
                         {"task", "project", "user", "contacts"}}
BY DEF World

LEMMA WorldPart ==
    ASSUME NEW w \in World, NEW p \in DOMAIN w
    PROVE  /\ w[p] \in PartType(p)
           /\ \A v \in PartType(p) : [w EXCEPT ![p] = v] \in World
<1>1. CASE w \in [thirdparty: Thirdparty]
    BY <1>1 DEF World, PartType
<1>2. CASE w \in [lead: Lead, leaders: BOOLEAN, party: BOOLEAN,
                  observed: [Unlisted -> SUBSET Stage]]
    <2>1. p \in {"lead", "leaders", "party", "observed"}
        BY <1>2
    <2>2. CASE p = "lead"
        BY <1>2, <2>2 DEF World, PartType
    <2>3. CASE p = "observed"
        BY <1>2, <2>3 DEF World, PartType
    <2>4. CASE p \in {"leaders", "party"}
        BY <1>2, <2>4 DEF World, PartType
    <2>. QED
        BY <2>1, <2>2, <2>3, <2>4
<1>3. CASE w \in [task: BOOLEAN, project: BOOLEAN, user: BOOLEAN, contacts: BOOLEAN]
    BY <1>3 DEF World, PartType
<1>. QED
    BY <1>1, <1>2, <1>3 DEF World

\* What a call reads is there.
LEMMA PathInWorld ==
    ASSUME NEW w \in World, NEW q \in Request, Target(q) \in DOMAIN w, NEW i \in 1..Len(Path(q))
    PROVE  Path(q)[i] \in DOMAIN w
<1>1. CASE q.op = "thirdparty_update"
    BY <1>1, WorldDomain DEF Target, Path
<1>2. CASE q.op = "task_assign"
    BY <1>2, WorldDomain DEF Target, Path
<1>3. CASE q.op \in LeadOperation
    <2>1. Target(q) = "lead"
        BY <1>3 DEF Target, LeadOperation
    <2>2. DOMAIN w = {"lead", "leaders", "party", "observed"}
        BY <2>1, WorldDomain
    <2>. QED
        BY <1>3, <2>2 DEF Path, LeadOperation
<1>. QED
    BY <1>1, <1>2, <1>3, OperationAssumption DEF Request

\* The path ends with what the operation changes and what it is decided on.
LEMMA PathHolds ==
    ASSUME NEW q \in Request
    PROVE  /\ q.op = "thirdparty_update" => Upto(q, Len(Path(q))) = {"thirdparty"}
           /\ q.op = "task_assign" => "contacts" \in Upto(q, Len(Path(q)))
           /\ q.op = "lead_update" => "lead" \in Upto(q, 2)
           /\ q.op \in {"lead_change_status", "lead_open_project", "lead_close_project"} =>
                "lead" \in Upto(q, Len(Path(q)))
           /\ (q.op = "lead_change_status" /\ q.input \in Unlisted) =>
                "observed" \in Upto(q, Len(Path(q)))
<1>1. CASE q.op = "thirdparty_update"
    BY <1>1 DEF Path, Upto
<1>2. CASE q.op = "task_assign"
    BY <1>2 DEF Path, Upto
<1>3. CASE q.op = "lead_update"
    BY <1>3 DEF Path, Upto
<1>4. CASE q.op = "lead_change_status"
    BY <1>4 DEF Path, Upto
<1>5. CASE q.op \in {"lead_open_project", "lead_close_project"}
    BY <1>5 DEF Path, Upto
<1>. QED
    BY <1>1, <1>2, <1>3, <1>4, <1>5 DEF Request, LeadOperation

\* Whatever was decided was decided on the target.
LEMMA DecidedOnTarget ==
    ASSUME NEW q \in Request, NEW s, NEW n \in 0..Len(Path(q)), DOMAIN s = Upto(q, n),
           Cardinality(DOMAIN s) = Len(Plan(q, s))
    PROVE  /\ Target(q) \in DOMAIN s
           /\ (q.op = "lead_change_status" /\ q.input \in Unlisted) => "observed" \in DOMAIN s
<1>1. n = Len(Plan(q, s))
    BY UptoCount
<1>2. CASE q.op = "lead_update"
    <2>1. n >= 2
        BY <1>1, <1>2, PlanIsPath
    <2>2. Upto(q, 2) \subseteq Upto(q, n)
        BY <2>1, PathLength DEF Upto
    <2>. QED
        BY <1>2, <2>2, PathHolds DEF Target
<1>3. CASE q.op # "lead_update"
    <2>1. n = Len(Path(q))
        BY <1>1, <1>3, PlanIsPath
    <2>. QED
        BY <1>3, <2>1, PathHolds DEF Target, Request, LeadOperation
<1>. QED
    BY <1>2, <1>3

---------------------------------------------------------------------------
(* What a write makes *)

\* A stage that was resolved is one of Dolibarr's.
LEMMA ResolvedStage ==
    ASSUME NEW q \in Request, q.op = "lead_change_status", NEW s,
           q.input \in Unlisted => /\ s.observed \in [Unlisted -> SUBSET Stage]
                                   /\ Cardinality(s.observed[q.input]) = 1
    PROVE  Resolved(q, s) \in Stage
<1>. DEFINE obs == IF q.input \in Unlisted THEN s.observed ELSE Nil
<1>1. q.input \in Stage \cup Unlisted \cup DOMAIN Catalog
    BY DEF Request, LeadOperation
<1>2. \E i \in Stage : i \in Candidates(q.input, obs)
    <2>1. CASE q.input \in Unlisted
        <3>1. s.observed[q.input] # {}
            BY <2>1, FS_EmptySet
        <3>. QED
            BY <2>1, <3>1 DEF Candidates
    <2>2. CASE q.input \in Stage
        BY <2>2, CatalogAssumption DEF Candidates
    <2>3. CASE q.input \in DOMAIN Catalog
        BY <2>3, CatalogAssumption DEF Candidates, ConfiguredStage
    <2>. QED
        BY <1>1, <2>1, <2>2, <2>3
<1>. QED
    BY <1>2 DEF Resolved

\* A write of this server leaves a lead a lead, and only a close closes it.
LEMMA LeadEffect ==
    ASSUME NEW q \in Request, Target(q) = "lead", NEW s, NEW v \in Lead,
           (q.op = "lead_change_status" /\ q.input \in Unlisted) =>
                /\ s.observed \in [Unlisted -> SUBSET Stage]
                /\ Cardinality(s.observed[q.input]) = 1
    PROVE  /\ Effect(q, s, v) \in Lead
           /\ Effect(q, s, v).opportunity = v.opportunity
           /\ v.status # "draft" => Effect(q, s, v).status # "draft"
           /\ (q.op # "lead_close_project" /\ Effect(q, s, v).status = "closed") =>
                v.status = "closed"
<1>. DEFINE e == Effect(q, s, v)
<1>1. q.op \in LeadOperation
    BY TargetOfRequest, OperationAssumption DEF Request, Target
<1>2. CASE q.op = "lead_update"
    <2>1. q.input \in LeadInput /\ Proposed(q, s) = q.input
        BY <1>2 DEF Request, LeadOperation, Proposed
    <2>2. e = [v EXCEPT !.party = q.input.party] /\ q.input.party = "p"
        BY <1>2, <2>1 DEF Effect, LeadInput, Lead, Sent
    <2>. QED
        BY <1>2, <2>2 DEF Lead
<1>3. CASE q.op = "lead_change_status"
    <2>1. Resolved(q, s) \in Stage
        BY <1>3, ResolvedStage
    <2>2. Proposed(q, s) = [stage |-> Resolved(q, s)]
        BY <1>3 DEF Proposed
    <2>3. e = [v EXCEPT !.stage = Resolved(q, s)]
        BY <1>3, <2>2 DEF Effect, Lead, Sent
    <2>. QED
        BY <1>3, <2>1, <2>3 DEF Lead
<1>4. CASE q.op = "lead_open_project"
    <2>1. e = [v EXCEPT !.status = "open"]
        BY <1>4 DEF Effect, Lead, Sent, Proposed
    <2>. QED
        BY <1>4, <2>1 DEF Lead
<1>5. CASE q.op = "lead_close_project"
    <2>1. e = [v EXCEPT !.status = "closed"]
        BY <1>5 DEF Effect, Lead, Sent, Proposed
    <2>. QED
        BY <1>5, <2>1 DEF Lead
<1>. QED
    BY <1>1, <1>2, <1>3, <1>4, <1>5 DEF LeadOperation

LEMMA ThirdpartyEffect ==
    ASSUME NEW q \in Request, Target(q) = "thirdparty", NEW s, NEW v \in Thirdparty
    PROVE  Effect(q, s, v) \in Thirdparty
<1>1. q.op = "thirdparty_update" /\ q.input \in ThirdpartyInput /\ Proposed(q, s) = q.input
    BY TargetOfRequest DEF Request, Proposed, LeadOperation
<1>2. \A f \in DOMAIN q.input :
        /\ f = "country" => Sent(f, q.input[f]) \in {"DE", "FR"}
        /\ f = "address" => Sent(f, q.input[f]) \in {"", "a"}
        /\ f = "note" => Sent(f, q.input[f]) \in Note
    BY <1>1 DEF ThirdpartyInput, Sent, Upper, Note
<1>3. Effect(q, s, v) = [f \in {"country", "address", "note"} |->
                            IF f \in DOMAIN q.input THEN Sent(f, q.input[f]) ELSE v[f]]
    BY <1>1 DEF Effect, Thirdparty
<1>4. DOMAIN Effect(q, s, v) = {"country", "address", "note"}
    BY <1>3
<1>5. /\ Effect(q, s, v).country \in {"DE", "FR"}
      /\ Effect(q, s, v).address \in {"", "a"}
      /\ Effect(q, s, v).note \in Note
    <2>. DEFINE e(f) == IF f \in DOMAIN q.input THEN Sent(f, q.input[f]) ELSE v[f]
    <2>1. v.country \in {"DE", "FR"} /\ v.address \in {"", "a"} /\ v.note \in Note
        BY DEF Thirdparty
    <2>2. e("country") \in {"DE", "FR"} /\ e("address") \in {"", "a"} /\ e("note") \in Note
        BY <1>2, <2>1
    <2>3. \A f \in {"country", "address", "note"} : Effect(q, s, v)[f] = e(f)
        BY <1>3
    <2>. HIDE DEF e
    <2>. QED
        BY <2>2, <2>3
<1>6. Effect(q, s, v) = [f \in {"country", "address", "note"} |-> Effect(q, s, v)[f]]
    BY <1>3
<1>. QED
    BY <1>5, <1>6 DEF Thirdparty

---------------------------------------------------------------------------
(* Reading *)

\* The next part is one that was not read yet, and the plan is not over before it.
LEMMA Reading ==
    ASSUME Inv, world \in World, NEW c \in Call, ReadsInv(c), Returns(c)
    PROVE  /\ Awaited(c) \in DOMAIN world
           /\ Awaited(c) \notin DOMAIN seen[c]
           /\ \E n \in 0..Len(Path(request[c])) : DOMAIN Known(c) = Upto(request[c], n)
           /\ Cardinality(DOMAIN Known(c)) \in 1..Len(Plan(request[c], Known(c)))
           /\ "observed" \in DOMAIN Known(c) =>
                /\ Known(c).observed \in [Unlisted -> SUBSET Stage]
                /\ Cardinality(Known(c).observed[request[c].input]) = 1
<1>. DEFINE q == request[c]
            a == Awaited(c)
            l == Len(Plan(q, seen[c]))
<1>1. pc[c] = "read" /\ q \in Request /\ Target(q) \in DOMAIN world
    BY DEF Returns, Inv, PhaseInv
<1>2. PICK n \in 0..Len(Path(q)) : DOMAIN seen[c] = Upto(q, n)
    BY <1>1 DEF ReadsInv
<1>3. Cardinality(DOMAIN seen[c]) = n /\ IsFiniteSet(DOMAIN seen[c])
    BY <1>1, <1>2, UptoCount
<1>4. n < l /\ l \in 1..Len(Path(q))
    BY <1>1, <1>3, PlanIsPath DEF ReadsInv
<1>5. n + 1 \in 1..Len(Path(q)) /\ n + 1 \in 1..l
    BY <1>1, <1>4, PathLength
<1>6. a = Path(q)[n + 1]
    BY <1>1, <1>3, <1>5, PlanIsPath DEF Awaited
<1>7. a \in DOMAIN world
    BY <1>1, <1>5, <1>6, PathInWorld
<1>8. a \notin DOMAIN seen[c]
    BY <1>1, <1>2, <1>5, <1>6, PathDistinct, PathLength DEF Upto
<1>9. DOMAIN Known(c) = DOMAIN seen[c] \cup {a}
    BY DEF Known
<1>10. DOMAIN Known(c) = Upto(q, n + 1)
    BY <1>1, <1>2, <1>5, <1>6, <1>9, PathLength DEF Upto
<1>11. Cardinality(DOMAIN Known(c)) = n + 1
    BY <1>1, <1>5, <1>10, UptoCount, PathLength
<1>12. l <= Len(Plan(q, Known(c)))
    <2>1. "lead" \in DOMAIN seen[c] => Known(c).lead = seen[c].lead
        BY <1>8 DEF Known
    <2>. QED
        BY <1>1, <1>9, <2>1, PlanGrows
<1>13. Len(Plan(q, Known(c))) \in Nat
    BY <1>1, PlanIsPath, PathLength
<1>14. Cardinality(DOMAIN Known(c)) \in 1..Len(Plan(q, Known(c)))
    BY <1>4, <1>5, <1>11, <1>12, <1>13
<1>15. ASSUME "observed" \in DOMAIN Known(c)
       PROVE  /\ Known(c).observed \in [Unlisted -> SUBSET Stage]
              /\ Cardinality(Known(c).observed[q.input]) = 1
    <2>1. CASE a = "observed"
        <3>1. Known(c).observed = world.observed
            BY <1>15, <2>1 DEF Known, View
        <3>2. world.observed \in [Unlisted -> SUBSET Stage]
            BY <1>7, <2>1, WorldPart DEF PartType
        <3>3. Cardinality(world.observed[q.input]) = 1
            BY <2>1 DEF Returns, Usable
        <3>. QED
            BY <3>1, <3>2, <3>3
    <2>2. CASE a # "observed"
        BY <1>9, <1>15, <2>2 DEF Known, ReadsInv
    <2>. QED
        BY <2>1, <2>2
<1>. QED
    BY <1>5, <1>7, <1>8, <1>10, <1>14, <1>15

---------------------------------------------------------------------------
(* What calls know *)

\* Nothing in Dolibarr was changed by anybody.
Quiet == edits = 0 /\ \A d \in Call : wire[d] # "persisted"

\* The operations that look for their values in what they read again.
Checked(q) == q.op \notin {"thirdparty_update", "lead_update"}

\* What was seen is still so: all of it while nothing was written, and without edits that
\* a lead is no draft and that a user has the role.
KnowsInv(c) ==
    /\ ("lead" \in DOMAIN seen[c] /\ edits = 0 /\ seen[c].lead.status # "draft") =>
            world.lead.status # "draft"
    /\ ("contacts" \in DOMAIN seen[c] /\ edits = 0 /\ seen[c].contacts) => world.contacts
    /\ Quiet => \A p \in DOMAIN seen[c] : seen[c][p] = View(p, world[p])
    /\ (wire[c] # "none" /\ request[c].op = "lead_close_project") =>
            seen[c].lead.status # "draft"

\* What a call found after its write, and what it answers.
FoundInv(c) ==
    /\ pc[c] # "done" => assigned[c] = Nil
    /\ (pc[c] # "idle" /\ request[c].op = "task_assign") =>
        /\ answer[c] = "applied" => assigned[c] = TRUE /\ ~ trouble[c]
        /\ assigned[c] = FALSE => answer[c] = "partial"
        /\ (assigned[c] = TRUE /\ edits = 0) => world.contacts
    /\ (pc[c] # "idle" /\ Quiet /\ Checked(request[c])) =>
        /\ pc[c] = "leaders" => ~ there[c]
        /\ answer[c] # "applied"

TypesInv ==
    /\ world \in World
    /\ edits \in 0..MaxEdits
    /\ there \in [Call -> BOOLEAN]
    /\ assigned \in [Call -> {TRUE, FALSE, Nil}]
    /\ ("lead" \in DOMAIN world /\ edits = 0) => world.lead.opportunity

CallInv(c) == ReadsInv(c) /\ KnowsInv(c) /\ FoundInv(c)

ReadsKnown == TypesInv /\ \A c \in Call : CallInv(c)

\* A step of one call leaves what is known of the others as it is.
LEMMA OneCallReads ==
    ASSUME Inv, ReadsKnown, NEW c \in Call, UNCHANGED <<world, edits>>,
           wire'[c] = wire[c] \/ wire[c] = "none",
           there' \in [Call -> BOOLEAN], assigned' \in [Call -> {TRUE, FALSE, Nil}],
           \A d \in Call \ {c} :
                /\ pc'[d] = pc[d] /\ request'[d] = request[d] /\ given'[d] = given[d]
                /\ seen'[d] = seen[d] /\ wire'[d] = wire[d] /\ trouble'[d] = trouble[d]
                /\ answer'[d] = answer[d] /\ there'[d] = there[d] /\ assigned'[d] = assigned[d],
           CallInv(c)'
    PROVE  ReadsKnown'
<1>1. Quiet' => Quiet
    BY DEF Quiet
<1>2. TypesInv'
    BY DEF ReadsKnown, TypesInv
<1>3. ASSUME NEW d \in Call \ {c} PROVE CallInv(d)'
    <2>1. ReadsInv(d)'
        BY DEF ReadsKnown, CallInv, ReadsInv
    <2>2. KnowsInv(d)'
        BY <1>1 DEF ReadsKnown, CallInv, KnowsInv
    <2>3. FoundInv(d)'
        BY <1>1 DEF ReadsKnown, CallInv, FoundInv
    <2>. QED
        BY <2>1, <2>2, <2>3 DEF CallInv
<1>. QED
    BY <1>2, <1>3 DEF ReadsKnown

\* What a call reads is so.
LEMMA KnownIsSo ==
    ASSUME Inv, ReadsKnown, NEW c \in Call, Returns(c)
    PROVE  /\ ("lead" \in DOMAIN Known(c) /\ edits = 0 /\ Known(c).lead.status # "draft") =>
                world.lead.status # "draft"
           /\ ("contacts" \in DOMAIN Known(c) /\ edits = 0 /\ Known(c).contacts) =>
                world.contacts
           /\ Quiet => \A p \in DOMAIN Known(c) : Known(c)[p] = View(p, world[p])
<1>. DEFINE a == Awaited(c)
<1>1. a \in DOMAIN world /\ a \notin DOMAIN seen[c]
    BY Reading DEF ReadsKnown, TypesInv, CallInv
<1>2. /\ DOMAIN Known(c) = DOMAIN seen[c] \cup {a}
      /\ Known(c)[a] = View(a, world[a])
      /\ \A p \in DOMAIN seen[c] : Known(c)[p] = seen[c][p]
    BY <1>1 DEF Known
<1>3. KnowsInv(c)
    BY DEF ReadsKnown, CallInv
<1>4. a = "lead" => View(a, world[a]).status = world.lead.status
    <2>. SUFFICES ASSUME a = "lead" PROVE View(a, world[a]).status = world.lead.status
        OBVIOUS
    <2>1. world.lead \in Lead
        BY <1>1, WorldPart DEF ReadsKnown, TypesInv, PartType
    <2>. QED
        BY <2>1 DEF View, ShownRecord, Shown, Lead
<1>5. a = "contacts" => View(a, world[a]) = world.contacts
    BY DEF View
<1>6. ASSUME "lead" \in DOMAIN Known(c), edits = 0, Known(c).lead.status # "draft"
      PROVE  world.lead.status # "draft"
    BY <1>2, <1>3, <1>4, <1>6 DEF KnowsInv
<1>7. ASSUME "contacts" \in DOMAIN Known(c), edits = 0, Known(c).contacts
      PROVE  world.contacts
    BY <1>2, <1>3, <1>5, <1>7 DEF KnowsInv
<1>8. ASSUME Quiet, NEW p \in DOMAIN Known(c) PROVE Known(c)[p] = View(p, world[p])
    BY <1>2, <1>3, <1>8 DEF KnowsInv
<1>. QED
    BY <1>6, <1>7, <1>8

---------------------------------------------------------------------------
(* Every step *)

LEMMA InvokeReads == ASSUME Inv, ReadsKnown, NEW c \in Call, Invoke(c) PROVE ReadsKnown'
<1>1. PICK q \in Request, tok \in issued \cup {Nil} :
        /\ pc[c] = "idle" /\ Target(q) \in DOMAIN world
        /\ request' = [request EXCEPT ![c] = q]
        /\ given' = [given EXCEPT ![c] = tok]
        /\ \/ pc' = [pc EXCEPT ![c] = "done"] /\ answer' = [answer EXCEPT ![c] = "rejected"]
           \/ pc' = [pc EXCEPT ![c] = "read"] /\ UNCHANGED answer
        /\ UNCHANGED <<world, edits, issued, seen, there, trouble, assigned, wire>>
    BY DEF Invoke, Finish
<1>2. wire[c] = "none" /\ answer[c] = Nil /\ seen[c] = <<>> /\ assigned[c] = Nil
    BY <1>1 DEF Inv, PhaseInv, ReadsKnown, CallInv, ReadsInv, FoundInv
<1>3. /\ request'[c] = q /\ seen'[c] = <<>> /\ wire'[c] = "none" /\ assigned'[c] = Nil
      /\ \/ pc'[c] = "done" /\ answer'[c] = "rejected"
         \/ pc'[c] = "read" /\ answer'[c] = Nil
    BY <1>1, <1>2 DEF Inv, CallsInv
<1>4. DOMAIN seen'[c] = {} /\ Upto(q, 0) = {} /\ Cardinality({}) = 0
    BY <1>3, FS_EmptySet DEF Upto
<1>5. Len(Plan(q, seen'[c])) \in 1..Len(Path(q)) /\ Len(Path(q)) \in 1..4
    BY PlanIsPath, PathLength
<1>6. ReadsInv(c)'
    BY <1>3, <1>4, <1>5 DEF ReadsInv
<1>7. KnowsInv(c)'
    BY <1>3, <1>4 DEF KnowsInv
<1>8. FoundInv(c)'
    BY <1>1, <1>3, NilAssumption DEF FoundInv, Outcome
<1>9. CallInv(c)'
    BY <1>6, <1>7, <1>8 DEF CallInv
<1>. QED
    BY <1>1, <1>9, OneCallReads DEF ReadsKnown, TypesInv, Inv, CallsInv

LEMMA ReadPartReads == ASSUME Inv, ReadsKnown, NEW c \in Call, ReadPart(c) PROVE ReadsKnown'
<1>1. /\ Returns(c) /\ ~ Complete(c) /\ seen' = [seen EXCEPT ![c] = Known(c)]
      /\ UNCHANGED <<world, edits, issued, pc, request, given, there, trouble, assigned, wire,
                     answer>>
    BY DEF ReadPart
<1>2. pc[c] = "read" /\ wire[c] = "none" /\ request[c] \in Request
    BY <1>1 DEF Returns, Inv, PhaseInv
<1>3. seen'[c] = Known(c)
    BY <1>1 DEF Inv, CallsInv
<1>4. ReadsInv(c)'
    <2>1. Cardinality(DOMAIN Known(c)) < Len(Plan(request[c], Known(c)))
        BY <1>1, <1>2, Reading, PlanIsPath, PathLength DEF Complete, ReadsKnown, TypesInv, CallInv
    <2>. QED
        BY <1>1, <1>2, <1>3, <2>1, Reading DEF ReadsInv, ReadsKnown, TypesInv, CallInv
<1>5. KnowsInv(c)'
    BY <1>1, <1>2, <1>3, KnownIsSo DEF KnowsInv, Quiet
<1>6. FoundInv(c)'
    BY <1>1 DEF FoundInv, Quiet, ReadsKnown, CallInv
<1>7. CallInv(c)'
    BY <1>4, <1>5, <1>6 DEF CallInv
<1>. QED
    BY <1>1, <1>7, OneCallReads DEF ReadsKnown, TypesInv, Inv, CallsInv

\* When all is read, the plan is over.
LEMMA DecidedReads ==
    ASSUME Inv, ReadsKnown, NEW c \in Call, Decides(c), pc'[c] \in {"write", "done"},
           wire'[c] # "none" => ~ Refused(request[c], Known(c)),
           \A d \in Call \ {c} : wire'[d] = wire[d]
    PROVE  ReadsInv(c)' /\ KnowsInv(c)'
<1>1. /\ Returns(c) /\ Complete(c)
      /\ seen' = [seen EXCEPT ![c] = Known(c)]
      /\ UNCHANGED <<world, edits, request, given, there, trouble>>
    BY DEF Decides
<1>2. pc[c] = "read" /\ wire[c] = "none" /\ request[c] \in Request
    BY <1>1 DEF Returns, Inv, PhaseInv
<1>3. seen'[c] = Known(c)
    BY <1>1 DEF Inv, CallsInv
<1>4. ReadsInv(c)'
    BY <1>1, <1>3, Reading DEF Complete, ReadsInv, ReadsKnown, TypesInv, CallInv
<1>5. wire'[c] # "none" /\ request'[c].op = "lead_close_project" =>
            Known(c).lead.status # "draft"
    BY <1>1 DEF Refused
<1>6. Quiet' => Quiet
    BY <1>1, <1>2 DEF Quiet
<1>7. KnowsInv(c)'
    BY <1>1, <1>3, <1>5, <1>6, KnownIsSo DEF KnowsInv
<1>. QED
    BY <1>4, <1>7

LEMMA DecisionReads ==
    ASSUME Inv, ReadsKnown, NEW c \in Call,
           Reject(c) \/ Preview(c) \/ Conflict(c) \/ NoOp(c) \/ SendWrite(c)
    PROVE  ReadsKnown'
<1>. USE DEF Reject, Preview, Conflict, Confirmed, NoOp, SendWrite, Finish
<1>1. /\ pc[c] = "read" /\ wire[c] = "none" /\ assigned[c] = Nil
      /\ request[c] \in Request /\ Target(request[c]) \in DOMAIN world
    BY DEF Decides, Returns, Inv, PhaseInv, ReadsKnown, CallInv, FoundInv
<1>2. /\ UNCHANGED <<world, edits, request, given, there, trouble>>
      /\ \A d \in Call \ {c} : /\ pc'[d] = pc[d] /\ seen'[d] = seen[d] /\ wire'[d] = wire[d]
                               /\ answer'[d] = answer[d] /\ assigned'[d] = assigned[d]
      /\ pc'[c] \in {"write", "done"}
      /\ SendWrite(c) \/ wire'[c] = "none"
    BY <1>1 DEF Decides, Inv, CallsInv, ReadsKnown, TypesInv
<1>3. ReadsInv(c)' /\ KnowsInv(c)'
    <2>1. CASE Decides(c)
        <3>1. wire'[c] # "none" => ~ Refused(request[c], Known(c))
            BY <1>2
        <3>. QED
            BY <1>2, <2>1, <3>1, DecidedReads
    <2>2. CASE Reject(c) /\ UNCHANGED seen
        <3>1. pc'[c] = "done" /\ wire'[c] = "none" /\ seen'[c] = seen[c]
            BY <1>1, <2>2 DEF Inv, CallsInv
        <3>2. Quiet' => Quiet
            BY <1>1, <1>2 DEF Quiet
        <3>3. ReadsInv(c)'
            BY <1>1, <1>2, <3>1 DEF ReadsInv, ReadsKnown, CallInv
        <3>4. KnowsInv(c)'
            BY <1>1, <1>2, <3>1, <3>2 DEF KnowsInv, ReadsKnown, CallInv
        <3>. QED
            BY <3>3, <3>4
    <2>. QED
        BY <2>1, <2>2
<1>4. FoundInv(c)' /\ assigned' \in [Call -> {TRUE, FALSE, Nil}]
    <2>1. CASE NoOp(c) /\ request[c].op = "task_assign"
        <3>1. Decides(c) /\ Returns(c) /\ Complete(c) /\ Unchanged(request[c], Known(c))
            BY <2>1 DEF Decides
        <3>2. "contacts" \in DOMAIN Known(c)
            BY <1>1, <2>1, <3>1, Reading, DecidedOnTarget
            DEF Complete, ReadsKnown, TypesInv, CallInv, Target
        <3>3. Known(c).contacts
            BY <2>1, <3>1 DEF Unchanged
        <3>4. edits = 0 => world.contacts
            BY <3>1, <3>2, <3>3, KnownIsSo
        <3>5. pc'[c] = "done" /\ answer'[c] = "no_op" /\ assigned'[c] = TRUE
            BY <2>1 DEF Inv, CallsInv, ReadsKnown, TypesInv
        <3>6. assigned' \in [Call -> {TRUE, FALSE, Nil}]
            BY <2>1 DEF ReadsKnown, TypesInv
        <3>. QED
            BY <1>2, <3>4, <3>5, <3>6 DEF FoundInv
    <2>2. CASE ~ (NoOp(c) /\ request[c].op = "task_assign")
        <3>1. assigned' = assigned
            BY <2>2 DEF ReadsKnown, TypesInv
        <3>2. \/ pc'[c] = "done" /\ answer'[c] \in {"rejected", "preview", "conflict", "no_op"}
              \/ pc'[c] = "write" /\ answer'[c] = Nil
            BY <1>1 DEF Inv, CallsInv, PhaseInv
        <3>3. FoundInv(c)'
            BY <1>1, <3>1, <3>2, NilAssumption DEF FoundInv, Outcome
        <3>. QED
            BY <3>1, <3>3 DEF ReadsKnown, TypesInv
    <2>. QED
        BY <2>1, <2>2
<1>5. CallInv(c)'
    BY <1>3, <1>4 DEF CallInv
<1>. QED
    BY <1>1, <1>2, <1>4, <1>5, OneCallReads DEF ReadsKnown, TypesInv

\* A checked write that left the lead as it was seen is not found.
LEMMA NotShown ==
    ASSUME Inv, ReadsKnown, NEW c \in Call, Quiet, wire[c] # "none", Checked(request[c]),
           request[c] \in Request
    PROVE  /\ Target(request[c]) = "lead" => ~ Shows(c)
           /\ Target(request[c]) = "contacts" => ~ world.contacts
<1>. DEFINE q == request[c]
            t == Target(q)
<1>1. ~ Unchanged(q, seen[c])
    BY DEF Inv, WriteInv
<1>2. t \in DOMAIN seen[c]
    <2>1. pc[c] # "idle"
        BY DEF Inv, PhaseInv
    <2>2. PICK n \in 0..Len(Path(q)) : DOMAIN seen[c] = Upto(q, n)
        BY <2>1 DEF ReadsKnown, CallInv, ReadsInv
    <2>. QED
        BY <2>2, DecidedOnTarget DEF ReadsKnown, CallInv, ReadsInv
<1>3. seen[c][t] = View(t, world[t])
    BY <1>2 DEF ReadsKnown, CallInv, KnowsInv
<1>4. CASE t = "lead"
    <2>1. q.op # "task_assign" /\ q.op # "lead_update"
        BY <1>4, TargetOfRequest DEF Checked
    <2>2. PICK f \in DOMAIN Proposed(q, seen[c]) : seen[c].lead[f] # Proposed(q, seen[c])[f]
        BY <1>1, <1>4, <2>1 DEF Unchanged
    <2>3. seen[c].lead = ShownRecord(world.lead)
        BY <1>3, <1>4 DEF View
    <2>. QED
        BY <1>4, <2>1, <2>2, <2>3 DEF Shows
<1>5. CASE t = "contacts"
    BY <1>1, <1>3, <1>5, TargetOfRequest DEF Unchanged, View
<1>. QED
    BY <1>4, <1>5

LEMMA LaterReads ==
    ASSUME Inv, ReadsKnown, NEW c \in Call,
           \/ WriteReturns(c) \/ PostFails(c) \/ RereadContacts(c) \/ RereadContactsFails(c)
           \/ RereadThirdparty(c) \/ RereadLead(c) \/ RereadLeaders(c) \/ CallFails(c)
    PROVE  ReadsKnown'
<1>. USE DEF WriteReturns, PostFails, RereadContacts, RereadContactsFails, RereadThirdparty,
             RereadLead, RereadLeaders, CallFails, Finish
<1>1. /\ pc[c] \in {"read", "write", "reread", "leaders"}
      /\ UNCHANGED <<world, edits, issued, request, given, seen, wire>>
    OBVIOUS
<1>2. /\ request[c] \in Request /\ Target(request[c]) \in DOMAIN world
      /\ assigned[c] = Nil /\ answer[c] = Nil
    BY <1>1 DEF Inv, PhaseInv, ReadsKnown, CallInv, FoundInv
<1>3. /\ \A d \in Call \ {c} : /\ pc'[d] = pc[d] /\ trouble'[d] = trouble[d]
                               /\ there'[d] = there[d] /\ answer'[d] = answer[d]
                               /\ assigned'[d] = assigned[d]
      /\ pc'[c] \in {"reread", "leaders", "done"}
      /\ pc'[c] # "done" => pc[c] \in {"write", "reread"}
    BY DEF Inv, CallsInv, ReadsKnown, TypesInv
<1>4. Quiet' <=> Quiet
    BY <1>1 DEF Quiet
<1>5. ReadsInv(c)' /\ KnowsInv(c)'
    BY <1>1, <1>3, <1>4 DEF ReadsKnown, CallInv, ReadsInv, KnowsInv
<1>6. "contacts" \in DOMAIN world => world.contacts \in BOOLEAN
    BY WorldPart DEF ReadsKnown, TypesInv, PartType
<1>7. there' \in [Call -> BOOLEAN]
    <2>1. Shows(c) \in BOOLEAN
        BY DEF Shows
    <2>. QED
        BY <2>1 DEF ReadsKnown, TypesInv
<1>8. assigned' \in [Call -> {TRUE, FALSE, Nil}]
    BY <1>2, <1>6 DEF ReadsKnown, TypesInv
<1>9. FoundInv(c)'
    <2>. USE <1>1, <1>2, <1>4, NilAssumption DEF Inv, CallsInv, Outcome, TypesInv
    <2>1. CASE WriteReturns(c) \/ PostFails(c)
        BY <2>1 DEF FoundInv
    <2>2. CASE RereadContacts(c)
        <3>1. /\ pc'[c] = "done" /\ assigned'[c] = world.contacts
              /\ answer'[c] = IF trouble[c] \/ ~ world.contacts THEN "partial" ELSE "applied"
              /\ trouble'[c] = trouble[c]
            BY <2>2 DEF ReadsKnown
        <3>2. Quiet => ~ world.contacts \/ trouble[c]
            <4>1. CASE wire[c] # "none"
                BY <2>2, <4>1, NotShown, TargetOfRequest DEF Checked
            <4>2. CASE wire[c] = "none"
                BY <2>2, <4>2 DEF PhaseInv
            <4>. QED
                BY <4>1, <4>2
        <3>. QED
            BY <1>6, <2>2, <3>1, <3>2 DEF FoundInv
    <2>3. CASE RereadContactsFails(c) \/ CallFails(c)
        BY <2>3 DEF FoundInv
    <2>4. CASE RereadThirdparty(c)
        BY <2>4, TargetOfRequest DEF FoundInv, Checked
    <2>5. CASE RereadLead(c)
        <3>1. request[c].op # "task_assign" /\ wire[c] # "none"
            BY <2>5, TargetOfRequest DEF PhaseInv
        <3>2. Quiet /\ Checked(request[c]) => ~ Shows(c)
            BY <2>5, <3>1, NotShown
        <3>3. /\ answer'[c] \in {Nil, "failed"}
              /\ pc'[c] = "leaders" => there'[c] = Shows(c)
              /\ pc'[c] # "done" => assigned'[c] = Nil
            BY <2>5 DEF ReadsKnown
        <3>. QED
            BY <3>1, <3>2, <3>3 DEF FoundInv
    <2>6. CASE RereadLeaders(c)
        <3>1. request[c].op # "task_assign"
            BY <2>6, TargetOfRequest DEF PhaseInv
        <3>2. Quiet /\ Checked(request[c]) => ~ there[c]
            BY <2>6 DEF ReadsKnown, CallInv, FoundInv
        <3>. QED
            BY <2>6, <3>1, <3>2 DEF FoundInv
    <2>. QED
        BY <2>1, <2>2, <2>3, <2>4, <2>5, <2>6
<1>10. CallInv(c)'
    BY <1>5, <1>9 DEF CallInv
<1>. QED
    BY <1>1, <1>3, <1>7, <1>8, <1>10, OneCallReads

\* A write, an edit, or a write that has no effect: the calls learn nothing of it.
LEMMA WorldStepReads ==
    ASSUME Inv, ReadsKnown, UNCHANGED callVars, TypesInv',
           \A d \in Call : wire'[d] # "none" => wire[d] # "none",
           Quiet' => Quiet /\ UNCHANGED world,
           edits' = 0 =>
                /\ edits = 0
                /\ \A d \in Call : /\ "lead" \in DOMAIN seen[d] /\ world.lead.status # "draft" =>
                                        world'.lead.status # "draft"
                                   /\ world.contacts => world'.contacts
    PROVE  ReadsKnown'
<1>1. ASSUME NEW d \in Call PROVE CallInv(d)'
    <2>. USE DEF callVars
    <2>1. ReadsInv(d)'
        BY DEF ReadsKnown, CallInv, ReadsInv
    <2>2. KnowsInv(d)'
        BY DEF ReadsKnown, CallInv, KnowsInv
    <2>3. FoundInv(d)'
        BY DEF ReadsKnown, CallInv, FoundInv
    <2>. QED
        BY <2>1, <2>2, <2>3 DEF CallInv
<1>. QED
    BY <1>1 DEF ReadsKnown

\* What a call is to write fits into what is there.
LEMMA WriteFits ==
    ASSUME Inv, ReadsKnown, NEW c \in Call, wire[c] # "none"
    PROVE  LET q == request[c]
               t == Target(q)
           IN  /\ q \in Request /\ t \in DOMAIN world
               /\ Effect(q, seen[c], world[t]) \in PartType(t)
               /\ t = "lead" =>
                    /\ world.lead \in Lead
                    /\ Effect(q, seen[c], world.lead).opportunity = world.lead.opportunity
                    /\ world.lead.status # "draft" =>
                            Effect(q, seen[c], world.lead).status # "draft"
                    /\ (q.op # "lead_close_project"
                            /\ Effect(q, seen[c], world.lead).status = "closed") =>
                            world.lead.status = "closed"
                    /\ q.op = "lead_close_project" =>
                            "lead" \in DOMAIN seen[c] /\ seen[c].lead.status # "draft"
<1>. DEFINE q == request[c]
            t == Target(q)
<1>1. pc[c] # "idle" /\ q \in Request /\ t \in DOMAIN world
    BY DEF Inv, PhaseInv
<1>2. PICK n \in 0..Len(Path(q)) : DOMAIN seen[c] = Upto(q, n)
    BY <1>1 DEF ReadsKnown, CallInv, ReadsInv
<1>3. /\ t \in DOMAIN seen[c]
      /\ (q.op = "lead_change_status" /\ q.input \in Unlisted) => "observed" \in DOMAIN seen[c]
    BY <1>1, <1>2, DecidedOnTarget DEF ReadsKnown, CallInv, ReadsInv
<1>4. (q.op = "lead_change_status" /\ q.input \in Unlisted) =>
            /\ seen[c].observed \in [Unlisted -> SUBSET Stage]
            /\ Cardinality(seen[c].observed[q.input]) = 1
    BY <1>3 DEF ReadsKnown, CallInv, ReadsInv
<1>5. world[t] \in PartType(t)
    BY <1>1, WorldPart DEF ReadsKnown, TypesInv
<1>6. CASE t = "lead"
    <2>1. world.lead \in Lead
        BY <1>5, <1>6 DEF PartType
    <2>2. q.op = "lead_close_project" => seen[c].lead.status # "draft"
        BY DEF ReadsKnown, CallInv, KnowsInv
    <2>. QED
        BY <1>1, <1>3, <1>4, <1>6, <2>1, <2>2, LeadEffect DEF PartType
<1>7. CASE t = "thirdparty"
    BY <1>1, <1>5, <1>7, ThirdpartyEffect DEF PartType
<1>8. CASE t = "contacts"
    BY <1>1, <1>8, TargetOfRequest DEF PartType, Effect
<1>. QED
    BY <1>1, <1>6, <1>7, <1>8, TargetOfRequest

LEMMA PersistReads == ASSUME Inv, ReadsKnown, NEW c \in Call, Persist(c) PROVE ReadsKnown'
<1>. DEFINE q == request[c]
            t == Target(q)
            e == Effect(q, seen[c], world[t])
<1>1. /\ wire[c] = "flying" /\ wire' = [wire EXCEPT ![c] = "persisted"]
      /\ world' = [world EXCEPT ![t] = e]
      /\ UNCHANGED <<edits, issued, callVars>>
    BY DEF Persist, Fate
<1>2. q \in Request /\ t \in DOMAIN world /\ e \in PartType(t)
    BY <1>1, WriteFits
<1>3. world' \in World
    BY <1>1, <1>2, WorldPart DEF ReadsKnown, TypesInv
<1>4. "lead" \in DOMAIN world =>
        /\ world'.lead.opportunity = world.lead.opportunity
        /\ world.lead.status # "draft" => world'.lead.status # "draft"
    BY <1>1, <1>2, WriteFits
<1>5. world.contacts => world'.contacts
    <2>1. CASE t = "contacts"
        BY <1>1, <1>2, <2>1, TargetOfRequest DEF Effect
    <2>2. CASE t # "contacts"
        <3>1. world'.contacts = world.contacts
            BY <1>1, <2>2
        <3>. QED
            BY <3>1
    <2>. QED
        BY <2>1, <2>2
<1>6. TypesInv'
    BY <1>1, <1>3, <1>4 DEF ReadsKnown, TypesInv, callVars
<1>7. ~ Quiet'
    BY <1>1 DEF Quiet, Inv, CallsInv
<1>8. \A d \in Call : wire'[d] # "none" => wire[d] # "none"
    BY <1>1 DEF Inv, CallsInv
<1>9. \A d \in Call : "lead" \in DOMAIN seen[d] => "lead" \in DOMAIN world
    <2>. SUFFICES ASSUME NEW d \in Call, "lead" \in DOMAIN seen[d] PROVE "lead" \in DOMAIN world
        OBVIOUS
    <2>1. pc[d] # "idle"
        BY DEF ReadsKnown, CallInv, ReadsInv
    <2>2. request[d] \in Request /\ Target(request[d]) \in DOMAIN world
        BY <2>1 DEF Inv, PhaseInv
    <2>3. PICK n \in 0..Len(Path(request[d])) : DOMAIN seen[d] = Upto(request[d], n)
        BY <2>1 DEF ReadsKnown, CallInv, ReadsInv
    <2>. QED
        BY <2>2, <2>3, PathInWorld, PathLength DEF Upto, ReadsKnown, TypesInv
<1>. QED
    BY <1>1, <1>4, <1>5, <1>6, <1>7, <1>8, <1>9, WorldStepReads

LEMMA DiscardReads == ASSUME Inv, ReadsKnown, NEW c \in Call, Discard(c) PROVE ReadsKnown'
<1>1. /\ wire[c] = "flying"
      /\ wire' = [wire EXCEPT ![c] = "refused"] \/ wire' = [wire EXCEPT ![c] = "void"]
      /\ UNCHANGED <<world, edits, issued, callVars>>
    BY DEF Discard, Fate
<1>2. TypesInv'
    BY <1>1 DEF ReadsKnown, TypesInv, callVars
<1>3. Quiet' => Quiet
    BY <1>1 DEF Quiet, Inv, CallsInv
<1>4. \A d \in Call : wire'[d] # "none" => wire[d] # "none"
    BY <1>1 DEF Inv, CallsInv
<1>. QED
    BY <1>1, <1>2, <1>3, <1>4, WorldStepReads

LEMMA EditReads ==
    ASSUME Inv, ReadsKnown, NEW p \in DOMAIN world, NEW v \in Edited(p),
           Edit([world EXCEPT ![p] = v])
    PROVE  ReadsKnown'
<1>1. /\ edits < MaxEdits /\ edits' = edits + 1 /\ world' = [world EXCEPT ![p] = v]
      /\ UNCHANGED <<issued, wire, callVars>>
    BY DEF Edit
<1>2. edits' \in 0..MaxEdits /\ edits' # 0
    BY <1>1, BoundAssumption DEF ReadsKnown, TypesInv
<1>3. v \in PartType(p)
    BY DEF Edited, PartType
<1>4. world' \in World
    BY <1>1, <1>3, WorldPart DEF ReadsKnown, TypesInv
<1>5. TypesInv'
    BY <1>1, <1>2, <1>4 DEF ReadsKnown, TypesInv, callVars
<1>. QED
    BY <1>1, <1>2, <1>5, WorldStepReads DEF Quiet

LEMMA InitReads == Init => ReadsKnown
<1>. SUFFICES ASSUME Init PROVE ReadsKnown
    OBVIOUS
<1>1. TypesInv
    BY BoundAssumption DEF Init, TypesInv
<1>2. ASSUME NEW c \in Call PROVE CallInv(c)
    <2>1. DOMAIN seen[c] = {}
        BY DEF Init
    <2>2. ReadsInv(c)
        BY <2>1 DEF Init, ReadsInv
    <2>3. KnowsInv(c)
        BY <2>1 DEF Init, KnowsInv
    <2>4. FoundInv(c)
        BY NilAssumption DEF Init, FoundInv, Outcome
    <2>. QED
        BY <2>2, <2>3, <2>4 DEF CallInv
<1>. QED
    BY <1>1, <1>2 DEF ReadsKnown

LEMMA NextReads == Inv /\ ReadsKnown /\ [Next]_vars => ReadsKnown'
<1>. SUFFICES ASSUME Inv, ReadsKnown, [Next]_vars PROVE ReadsKnown'
    OBVIOUS
<1>1. ASSUME NEW c \in Call, Invoke(c) \/ Step(c) PROVE ReadsKnown'
    BY <1>1, InvokeReads, ReadPartReads, DecisionReads, LaterReads DEF Step
<1>2. ASSUME NEW c \in Call, Persist(c) \/ Discard(c) PROVE ReadsKnown'
    BY <1>2, PersistReads, DiscardReads
<1>3. ASSUME NEW p \in DOMAIN world, NEW v \in Edited(p), Edit([world EXCEPT ![p] = v])
      PROVE  ReadsKnown'
    BY <1>3, EditReads
<1>4. CASE UNCHANGED vars
    <2>1. UNCHANGED callVars /\ UNCHANGED <<world, edits, wire>>
        BY <1>4 DEF vars, callVars
    <2>2. TypesInv'
        BY <2>1 DEF ReadsKnown, TypesInv, callVars
    <2>3. Quiet' => Quiet
        BY <2>1 DEF Quiet
    <2>. QED
        BY <2>1, <2>2, <2>3, WorldStepReads
<1>. QED
    BY <1>1, <1>2, <1>3, <1>4 DEF Next

\* What calls have read, know and found, in every state.
THEOREM KnowledgeInvariance == Spec => [](Inv /\ ReadsKnown)
BY InitInv, NextInv, InitReads, NextReads, PTL DEF Spec

---------------------------------------------------------------------------
(* What is claimed *)

\* The variables keep their types: a call reads the parts of its plan one after another, and
\* decides when the last of them is there.
THEOREM TypeCorrect == Spec => []TypeOK
<1>1. Inv /\ ReadsKnown => TypeOK
    <2>. SUFFICES ASSUME Inv, ReadsKnown PROVE TypeOK
        OBVIOUS
    <2>1. ASSUME NEW c \in Call
          PROVE  /\ request[c] # Nil => request[c] \in Request /\ Target(request[c]) \in DOMAIN world
                 /\ DOMAIN seen[c] \subseteq DOMAIN world
                 /\ pc[c] = "read" => Cardinality(DOMAIN seen[c]) < Len(Plan(request[c], seen[c]))
                 /\ pc[c] \in {"write", "reread", "leaders"} =>
                        Cardinality(DOMAIN seen[c]) = Len(Plan(request[c], seen[c]))
                 /\ given[c] # Nil => given[c] \in issued
        <3>1. ReadsInv(c)
            BY DEF ReadsKnown, CallInv
        <3>2. DOMAIN seen[c] \subseteq DOMAIN world
            <4>1. CASE pc[c] = "idle"
                BY <3>1, <4>1 DEF ReadsInv
            <4>2. CASE pc[c] # "idle"
                <5>1. request[c] \in Request /\ Target(request[c]) \in DOMAIN world
                    BY <4>2 DEF Inv, PhaseInv
                <5>2. PICK n \in 0..Len(Path(request[c])) : DOMAIN seen[c] = Upto(request[c], n)
                    BY <3>1, <4>2 DEF ReadsInv
                <5>. QED
                    BY <5>1, <5>2, PathInWorld, PathLength DEF Upto, ReadsKnown, TypesInv
            <4>. QED
                BY <4>1, <4>2
        <3>. QED
            BY <3>1, <3>2 DEF ReadsInv, Inv, PhaseInv, IssuedInv
    <2>. QED
        BY <2>1 DEF TypeOK, Inv, CallsInv, ReadsKnown, TypesInv
<1>. QED
    BY <1>1, KnowledgeInvariance, PTL

\* sales.py 960, 1016, 1073, tasks.py 158: an operation that checks its effect does not say
\* applied of a write that Dolibarr ignored, unless another call or user wrote something.
THEOREM AppliedThere == Spec => []AppliedIsThere
<1>1. Inv /\ ReadsKnown => AppliedIsThere
    <2>. SUFFICES ASSUME Inv, ReadsKnown, NEW c \in Call, answer[c] = "applied", edits = 0,
                         request[c].op \notin {"thirdparty_update", "lead_update"}
                  PROVE  \E d \in Call : wire[d] = "persisted"
        BY DEF AppliedIsThere
    <2>1. pc[c] # "idle"
        BY NilAssumption DEF Inv, PhaseInv, Outcome
    <2>2. ~ Quiet
        BY <2>1 DEF ReadsKnown, CallInv, FoundInv, Checked
    <2>. QED
        BY <2>2 DEF Quiet
<1>. QED
    BY <1>1, KnowledgeInvariance, PTL

\* tasks.py: the assigned flag agrees with the outcome of an assignment and with Dolibarr.
THEOREM AssignedAgree == Spec => []AssignedAgrees
<1>1. Inv /\ ReadsKnown => AssignedAgrees
    <2>. SUFFICES ASSUME Inv, ReadsKnown, NEW c \in Call, request[c] # Nil,
                         request[c].op = "task_assign"
                  PROVE  /\ answer[c] = "applied" => assigned[c] = TRUE /\ ~ trouble[c]
                         /\ assigned[c] = FALSE => answer[c] = "partial"
                         /\ (assigned[c] = TRUE /\ edits = 0) => world.contacts
        BY DEF AssignedAgrees
    <2>1. pc[c] # "idle"
        BY DEF ReadsKnown, CallInv, ReadsInv
    <2>. QED
        BY <2>1 DEF ReadsKnown, CallInv, FoundInv
<1>. QED
    BY <1>1, KnowledgeInvariance, PTL

\* sales.py 1039: no write of this server closes a draft, unless another user edited the project.
THEOREM LifecycleFollowed == Spec => WritesFollowLifecycle
<1>1. Inv /\ ReadsKnown /\ [Next]_vars => WriteFollowsLifecycle
    <2>. SUFFICES ASSUME Inv, ReadsKnown, [Next]_vars, NEW c \in Call, wire[c] = "flying",
                         wire'[c] = "persisted", Target(request[c]) = "lead", edits = 0
                  PROVE  world'.lead.status = "closed" => world.lead.status # "draft"
        BY DEF WriteFollowsLifecycle
    <2>1. Persist(c)
        BY PersistedBy
    <2>2. /\ "lead" \in DOMAIN world
          /\ world'.lead = Effect(request[c], seen[c], world.lead)
        BY <2>1, WriteFits DEF Persist
    <2>3. CASE request[c].op = "lead_close_project"
        <3>1. "lead" \in DOMAIN seen[c] /\ seen[c].lead.status # "draft"
            BY <2>3, WriteFits
        <3>. QED
            BY <3>1 DEF ReadsKnown, CallInv, KnowsInv
    <2>4. CASE request[c].op # "lead_close_project"
        <3>1. world'.lead.status = "closed" => world.lead.status = "closed"
            BY <2>2, <2>4, WriteFits
        <3>. QED
            BY <3>1
    <2>. QED
        BY <2>3, <2>4
<1>. QED
    BY <1>1, KnowledgeInvariance, PTL DEF Spec, WritesFollowLifecycle
=============================================================================
