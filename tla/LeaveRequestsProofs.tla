------------------------- MODULE LeaveRequestsProofs -------------------------
(***************************************************************************)
(* Safety of LeaveRequests for any number of calls, holidays, days and      *)
(* reasons.  The invariant adds to the claims what a suspended coroutine    *)
(* relies on: which phase goes with which state of the write, that a write  *)
(* was decided on what was read, and that tokens come from previews.        *)
(***************************************************************************)
EXTENDS LeaveRequests, TLAPS

\* A call never mixes up its own phase, write and answer.
PhaseInv(c) ==
    /\ pc[c] # "idle" => request[c] \in Request /\ WellFormed(request[c])
    /\ pc[c] \in {"idle", "read"} => wire[c] = "none"
    /\ pc[c] = "reread" => wire[c] \in {"ignored", "persisted"}
    /\ pc[c] # "done" => answer[c] = "none"
    /\ c \in stale => wire[c] = "persisted"

\* What call c read, when it went on to write or to preview.
ReadInv(c) ==
    /\ seen[c] \in Record \cup {Blank}
    /\ request[c].op = "create" <=> seen[c] = Blank

\* A write was confirmed and is not a no-op.
WriteInv(c) ==
    wire[c] # "none" =>
        /\ pc[c] # "idle"
        /\ ReadInv(c)
        /\ Eligible(request[c], seen[c])
        /\ Changes(request[c], seen[c])
        /\ given[c] = TokenOf(request[c], seen[c])
        /\ given[c] \in issued

\* A token is only known from a preview.
IssuedInv ==
    /\ \A c \in Call : given[c] \in issued \cup {Nil}
    /\ \A tok \in issued : \E d \in Call :
        /\ answer[d] = "preview"
        /\ ReadInv(d)
        /\ tok = TokenOf(request[d], seen[d])

Inv ==
    /\ TypeOK
    /\ \A c \in Call : PhaseInv(c) /\ WriteInv(c)
    /\ IssuedInv
    /\ AnswersSettleWrites
    /\ ReversedOnlyByStaleUpdate

---------------------------------------------------------------------------
(* The rules *)

\* A proposal is one whatever record it was computed on.
LEMMA ProposedType ==
    ASSUME NEW q \in Request, NEW v
    PROVE  Proposed(q, v) \in Proposal
BY DEF Proposed, Proposal, Request, Desired, Status, Op, Transition

\* Merging a proposal into a record gives a record.
LEMMA MergeType ==
    ASSUME NEW v \in Record, NEW p \in Proposal
    PROVE  Merge(v, p) \in Record
BY DEF Merge, Keep, Record, Proposal

\* A create gives a draft with its dates in order.
LEMMA CreateType ==
    ASSUME NEW q \in Request, WellFormed(q), q.op = "create"
    PROVE  /\ Merge(Blank, Proposed(q, Blank)) \in Record
           /\ Merge(Blank, Proposed(q, Blank)).start <= Merge(Blank, Proposed(q, Blank)).end
<1>1. q.start \in Day /\ q.end \in Day /\ q.start <= q.end
    BY DEF WellFormed, Request
<1>2. Proposed(q, Blank) = [status |-> Nil, start |-> q.start, end |-> q.end, reason |-> Nil]
    BY DEF Proposed, Transition
<1>3. Merge(Blank, Proposed(q, Blank)) =
        [status |-> "draft", start |-> q.start, end |-> q.end, reason |-> Nil]
    BY <1>1, <1>2, NilAssumption DEF Merge, Keep, Blank
<1>. QED
    BY <1>1, <1>3 DEF Record, Status

\* Equal tokens of calls that change something stand for equal calls.
LEMMA TokenInjective ==
    ASSUME NEW q \in Request, NEW r \in Request, NEW v, NEW w,
           WellFormed(q), WellFormed(r),
           v \in Record \cup {Blank}, Changes(q, v),
           TokenOf(q, v) = TokenOf(r, w)
    PROVE  /\ v = w /\ q.op = r.op /\ q.target = r.target
           /\ q.start = r.start /\ q.end = r.end /\ q.reason = r.reason
<1>1. v = w /\ q.op = r.op /\ q.target = r.target /\ Proposed(q, v) = Proposed(r, v)
    BY DEF TokenOf
<1>2. q.start = r.start /\ q.end = r.end
    BY <1>1 DEF Proposed
<1>3. CASE q.op # "refuse"
    BY <1>1, <1>2, <1>3 DEF WellFormed
<1>4. CASE q.op = "refuse"
    <2>1. q.start = Nil /\ q.end = Nil
        BY <1>4 DEF WellFormed, Transition
    <2>2. SUFFICES ASSUME v.status = "refused" PROVE FALSE
        BY <1>1, <1>2, <1>4 DEF Proposed
    <2>3. Proposed(q, v) = [status |-> "refused", start |-> Nil, end |-> Nil, reason |-> Nil]
        BY <1>4, <2>1, <2>2 DEF Proposed, Desired, Transition
    <2>4. Merge(v, Proposed(q, v)) =
            [status |-> "refused", start |-> v.start, end |-> v.end, reason |-> v.reason]
        BY <2>3, NilAssumption DEF Merge, Keep, Status
    <2>5. v = [status |-> "refused", start |-> v.start, end |-> v.end, reason |-> v.reason]
        BY <2>2 DEF Record, Blank
    <2>. QED
        BY <2>4, <2>5 DEF Changes
<1>. QED
    BY <1>3, <1>4

\* The token of a call that writes.
LEMMA TokenType ==
    ASSUME NEW q \in Request, NEW v \in Record \cup {Blank}
    PROVE  TokenOf(q, v) \in Token
BY ProposedType DEF TokenOf, Token, Request

---------------------------------------------------------------------------
(* The invariant *)

\* The initial states satisfy the invariant.
LEMMA InitInv == Init => Inv
<1>. SUFFICES ASSUME Init PROVE Inv
    OBVIOUS
<1>1. TypeOK
    BY EditsAssumption DEF Init, TypeOK
<1>2. ReversedOnlyByStaleUpdate
    <2>. SUFFICES ASSUME NEW t \in Holiday, Reversed(t) PROVE FALSE
        BY DEF ReversedOnlyByStaleUpdate
    <2>1. holiday[t] \in Record /\ holiday[t].start <= holiday[t].end
        BY DEF Init, Reversed
    <2>2. holiday[t].start \in Int /\ holiday[t].end \in Int
        BY <2>1, DayAssumption DEF Record
    <2>. QED
        BY <2>1, <2>2 DEF Reversed
<1>. QED
    BY <1>1, <1>2 DEF Init, Inv, PhaseInv, WriteInv, IssuedInv, AnswersSettleWrites

\* A step of an unfinished call c disturbs no other call and no old preview.
LEMMA OtherCalls ==
    ASSUME Inv, NEW c \in Call, pc[c] # "done",
           \A d \in Call \ {c} :
                /\ pc'[d] = pc[d] /\ request'[d] = request[d] /\ given'[d] = given[d]
                /\ seen'[d] = seen[d] /\ answer'[d] = answer[d] /\ wire'[d] = wire[d],
           stale' = stale, issued \subseteq issued'
    PROVE  /\ \A d \in Call \ {c} : PhaseInv(d)' /\ WriteInv(d)' /\ given'[d] \in issued' \cup {Nil}
           /\ \A tok \in issued : \E d \in Call :
                answer'[d] = "preview" /\ ReadInv(d)' /\ tok = TokenOf(request'[d], seen'[d])
<1>1. ASSUME NEW d \in Call \ {c}
      PROVE  PhaseInv(d)' /\ WriteInv(d)' /\ given'[d] \in issued' \cup {Nil}
    <2>1. PhaseInv(d) /\ WriteInv(d) /\ given[d] \in issued \cup {Nil}
        BY DEF Inv, IssuedInv
    <2>2. PhaseInv(d)'
        BY <2>1 DEF PhaseInv
    <2>3. WriteInv(d)'
        BY <2>1 DEF WriteInv, ReadInv
    <2>. QED
        BY <2>1, <2>2, <2>3
<1>2. ASSUME NEW tok \in issued
      PROVE  \E d \in Call :
                answer'[d] = "preview" /\ ReadInv(d)' /\ tok = TokenOf(request'[d], seen'[d])
    <2>1. PICK d \in Call : answer[d] = "preview" /\ ReadInv(d) /\ tok = TokenOf(request[d], seen[d])
        BY DEF Inv, IssuedInv
    <2>2. d # c
        BY <2>1 DEF Inv, PhaseInv
    <2>. QED
        BY <2>1, <2>2 DEF ReadInv
<1>. QED
    BY <1>1, <1>2

\* What an unfinished call has not done yet.
LEMMA Unfinished ==
    ASSUME Inv, NEW c \in Call
    PROVE  /\ pc[c] # "done" => answer[c] = "none"
           /\ pc[c] # "idle" => request[c] \in Request /\ WellFormed(request[c])
           /\ pc[c] \in {"idle", "read"} => wire[c] = "none"
BY DEF Inv, PhaseInv

\* Dates and stale writes are only touched where Dolibarr executes something.
LEMMA DatesUntouched ==
    ASSUME Inv, holiday' = holiday, stale' = stale,
           \A d \in Call : wire[d] # "none" => request'[d] = request[d]
    PROVE  ReversedOnlyByStaleUpdate'
<1>. SUFFICES ASSUME NEW t \in Holiday, Reversed(t)
              PROVE  \E d \in stale' : request'[d].op = "update" /\ request'[d].target = t
    BY DEF ReversedOnlyByStaleUpdate, Reversed
<1>1. PICK d \in stale : request[d].op = "update" /\ request[d].target = t
    BY DEF Inv, ReversedOnlyByStaleUpdate
<1>2. d \in Call /\ wire[d] # "none"
    BY DEF Inv, TypeOK, PhaseInv
<1>. QED
    BY <1>1, <1>2

\* A new call has read and sent nothing.
LEMMA InvokeInv == ASSUME Inv, NEW c \in Call, Invoke(c) PROVE Inv'
<1>. USE DEF Invoke, worldVars
<1>1. TypeOK'
    BY DEF Inv, TypeOK, IssuedInv
<1>2. PhaseInv(c)' /\ WriteInv(c)' /\ given'[c] \in issued' \cup {Nil}
    BY Unfinished DEF Inv, TypeOK, PhaseInv, WriteInv
<1>3. (\A d \in Call : PhaseInv(d)' /\ WriteInv(d)') /\ IssuedInv'
    BY <1>2, OtherCalls DEF Inv, TypeOK, IssuedInv
<1>4. AnswersSettleWrites'
    BY DEF Inv, AnswersSettleWrites
<1>5. ReversedOnlyByStaleUpdate'
    BY DatesUntouched, Unfinished DEF Inv, TypeOK
<1>. QED
    BY <1>1, <1>3, <1>4, <1>5 DEF Inv

\* What the first read returns.
LEMMA ReadType ==
    ASSUME Inv, NEW c \in Call, pc[c] = "read", Current(c) # Absent
    PROVE  /\ Current(c) \in Record \cup {Blank}
           /\ request[c].op = "create" <=> Current(c) = Blank
<1>1. request[c] \in Request /\ WellFormed(request[c])
    BY Unfinished
<1>2. CASE request[c].op = "create"
    BY <1>2 DEF Current
<1>3. CASE request[c].op # "create"
    <2>1. request[c].target \in Holiday
        BY <1>1, <1>3 DEF WellFormed, Request
    <2>2. Current(c) \in Record
        BY <1>3, <2>1 DEF Current, Inv, TypeOK
    <2>3. Blank \notin Record
        BY NilAssumption DEF Blank, Record
    <2>. QED
        BY <1>3, <2>2, <2>3
<1>. QED
    BY <1>2, <1>3

\* A call that ends without having sent its write.
LEMMA EndsUnwritten ==
    ASSUME Inv, NEW c \in Call, Reject(c) \/ Conflict(c) \/ NoOp(c)
    PROVE  Inv'
<1>. USE DEF Reject, Conflict, NoOp, ReadReturns, Finish, worldVars
<1>1. pc[c] = "read" /\ seen'[c] \in Record \cup {Blank}
    BY ReadType DEF Inv, TypeOK
<1>2. TypeOK'
    BY <1>1 DEF Inv, TypeOK
<1>3. PhaseInv(c)' /\ WriteInv(c)' /\ given'[c] \in issued' \cup {Nil}
    BY <1>1, Unfinished DEF Inv, TypeOK, PhaseInv, WriteInv, IssuedInv
<1>4. (\A d \in Call : PhaseInv(d)' /\ WriteInv(d)') /\ IssuedInv'
    BY <1>1, <1>3, OtherCalls DEF Inv, TypeOK, IssuedInv
<1>5. AnswersSettleWrites'
    BY <1>1, Unfinished DEF Inv, TypeOK, AnswersSettleWrites
<1>6. ReversedOnlyByStaleUpdate'
    BY DatesUntouched
<1>. QED
    BY <1>2, <1>4, <1>5, <1>6 DEF Inv

\* A preview is where a token comes from.
LEMMA PreviewInv == ASSUME Inv, NEW c \in Call, Preview(c) PROVE Inv'
<1>. USE DEF Preview, ReadReturns, Finish, worldVars
<1>1. /\ pc[c] = "read" /\ seen'[c] = Current(c) /\ answer'[c] = "preview"
      /\ request'[c] = request[c]
    BY DEF Inv, TypeOK
<1>2. ReadInv(c)'
    BY <1>1, ReadType DEF ReadInv
<1>3. TypeOK'
    <2>1. TokenOf(request[c], Current(c)) \in Token
        BY <1>1, ReadType, Unfinished, TokenType
    <2>. QED
        BY <1>1, <2>1, ReadType DEF Inv, TypeOK
<1>4. PhaseInv(c)' /\ WriteInv(c)' /\ given'[c] \in issued' \cup {Nil}
    BY <1>1, Unfinished DEF Inv, TypeOK, PhaseInv, WriteInv, IssuedInv
<1>5. \A d \in Call : PhaseInv(d)' /\ WriteInv(d)'
    BY <1>1, <1>4, OtherCalls DEF Inv, TypeOK
<1>6. IssuedInv'
    <2>1. \A d \in Call : given'[d] \in issued' \cup {Nil}
        BY <1>1, <1>4, OtherCalls DEF Inv, TypeOK
    <2>2. \A tok \in issued : \E d \in Call :
            answer'[d] = "preview" /\ ReadInv(d)' /\ tok = TokenOf(request'[d], seen'[d])
        BY <1>1, OtherCalls DEF Inv, TypeOK
    <2>3. issued' = issued \cup {TokenOf(request'[c], seen'[c])}
        BY <1>1
    <2>. QED
        BY <1>1, <1>2, <2>1, <2>2, <2>3 DEF IssuedInv
<1>7. AnswersSettleWrites'
    BY <1>1, Unfinished DEF Inv, TypeOK, AnswersSettleWrites
<1>8. ReversedOnlyByStaleUpdate'
    BY DatesUntouched
<1>. QED
    BY <1>3, <1>5, <1>6, <1>7, <1>8 DEF Inv

\* A write is sent with the token of what was read.
LEMMA SendWriteInv == ASSUME Inv, NEW c \in Call, SendWrite(c) PROVE Inv'
<1>. USE DEF SendWrite, ReadReturns, worldVars
<1>1. /\ pc[c] = "read" /\ seen'[c] = Current(c) /\ request'[c] = request[c]
      /\ given'[c] = given[c] /\ pc'[c] = "write" /\ answer'[c] = "none"
      /\ wire'[c] = "flying"
    BY Unfinished DEF Inv, TypeOK
<1>2. ReadInv(c)'
    BY <1>1, ReadType DEF ReadInv
<1>3. TypeOK'
    BY <1>1, ReadType DEF Inv, TypeOK
<1>4. WriteInv(c)'
    BY <1>1, <1>2 DEF WriteInv, Confirmed, Inv, IssuedInv
<1>5. PhaseInv(c)'
    BY <1>1, Unfinished DEF PhaseInv, Inv, TypeOK
<1>6. (\A d \in Call : PhaseInv(d)' /\ WriteInv(d)') /\ IssuedInv'
    BY <1>1, <1>4, <1>5, OtherCalls DEF Inv, TypeOK, IssuedInv
<1>7. AnswersSettleWrites'
    BY <1>1 DEF Inv, TypeOK, AnswersSettleWrites
<1>8. ReversedOnlyByStaleUpdate'
    BY DatesUntouched
<1>. QED
    BY <1>3, <1>6, <1>7, <1>8 DEF Inv

\* The rest of a call that wrote, or that fails.
LEMMA LaterStepsInv ==
    ASSUME Inv, NEW c \in Call, WriteAcknowledged(c) \/ Reread(c) \/ CallFails(c)
    PROVE  Inv'
<1>. USE DEF WriteAcknowledged, Reread, CallFails, Finish, worldVars
<1>1. pc[c] \notin {"done", "idle"} /\ UNCHANGED <<issued, request, given, seen, worldVars>>
    OBVIOUS
<1>2. TypeOK'
    BY <1>1 DEF Inv, TypeOK
<1>3. PhaseInv(c)'
    BY Unfinished DEF PhaseInv, Inv, TypeOK
<1>4. WriteInv(c)' /\ given'[c] \in issued' \cup {Nil}
    BY <1>1 DEF WriteInv, ReadInv, Inv, TypeOK, IssuedInv
<1>5. (\A d \in Call : PhaseInv(d)' /\ WriteInv(d)') /\ IssuedInv'
    BY <1>1, <1>3, <1>4, OtherCalls DEF Inv, TypeOK, IssuedInv
<1>6. AnswersSettleWrites'
    BY DEF Inv, TypeOK, PhaseInv, AnswersSettleWrites
<1>7. ReversedOnlyByStaleUpdate'
    BY <1>1, DatesUntouched
<1>. QED
    BY <1>2, <1>5, <1>6, <1>7 DEF Inv

\* What Dolibarr executes, or others edit, is invisible to the calls until they
\* read: only the state of the write in flight changes.
LEMMA WorldSteps ==
    ASSUME Inv, NEW c \in Call, UNCHANGED <<issued, callVars>>,
           \/ wire[c] = "flying" /\ wire' = [wire EXCEPT ![c] = "persisted"]
           \/ \E w \in {"refused", "ignored"} :
                wire[c] = "flying" /\ wire' = [wire EXCEPT ![c] = w]
           \/ wire' = wire,
           stale' \subseteq Call,
           \A d \in stale' : d \in stale \/ wire'[d] = "persisted"
    PROVE  /\ \A d \in Call : PhaseInv(d)' /\ WriteInv(d)'
           /\ IssuedInv'
           /\ AnswersSettleWrites'
<1>. USE DEF callVars
<1>1. \A d \in Call : wire'[d] # wire[d] => wire[d] = "flying" /\ wire'[d] # "none"
    BY DEF Inv, TypeOK
<1>2. \A d \in Call : wire[d] = "none" <=> wire'[d] = "none"
    BY <1>1
<1>3. ASSUME NEW d \in Call PROVE PhaseInv(d)'
    BY <1>1 DEF Inv, TypeOK, PhaseInv
<1>4. ASSUME NEW d \in Call PROVE WriteInv(d)'
    BY <1>2 DEF Inv, WriteInv, ReadInv
<1>5. IssuedInv'
    BY DEF Inv, IssuedInv, ReadInv
<1>6. AnswersSettleWrites'
    BY <1>1 DEF Inv, AnswersSettleWrites
<1>. QED
    BY <1>3, <1>4, <1>5, <1>6

\* Dolibarr executes an update or a transition; a stale one is recorded.
LEMMA PersistInv == ASSUME Inv, NEW c \in Call, Persist(c) PROVE Inv'
<1>. DEFINE q   == request[c]
            t   == q.target
            old == holiday[t]
            new == Merge(old, Proposed(q, seen[c]))
<1>1. /\ wire[c] = "flying" /\ q.op # "create" /\ old # Absent
      /\ holiday' = [holiday EXCEPT ![t] = new]
      /\ stale' = (IF old = seen[c] THEN stale ELSE stale \cup {c})
      /\ wire' = [wire EXCEPT ![c] = "persisted"]
      /\ UNCHANGED <<issued, edits, made, callVars>>
    BY DEF Persist
<1>2. /\ q \in Request /\ WellFormed(q) /\ Eligible(q, seen[c])
      /\ Proposed(q, seen[c]) \in Proposal
    BY <1>1, Unfinished, ProposedType DEF Inv, WriteInv
<1>3. t \in Holiday /\ old \in Record /\ new \in Record
    BY <1>1, <1>2, MergeType DEF WellFormed, Request, Inv, TypeOK
<1>4. TypeOK'
    BY <1>1, <1>3 DEF Inv, TypeOK, callVars
<1>5. /\ \A d \in Call : PhaseInv(d)' /\ WriteInv(d)'
      /\ IssuedInv'
      /\ AnswersSettleWrites'
    BY <1>1, <1>4, WorldSteps DEF Inv, TypeOK
<1>6. ASSUME new.start > new.end PROVE old.start > old.end \/ (q.op = "update" /\ c \in stale')
    <2>1. /\ new.start = Keep(old.start, q.start) /\ new.end = Keep(old.end, q.end)
          /\ new.start \in Int /\ new.end \in Int
        BY <1>3, DayAssumption DEF Merge, Proposed, Record
    <2>2. CASE q.op = "update"
        BY <1>1, <1>2, <1>6, <2>1, <2>2 DEF Eligible
    <2>3. CASE q.op # "update"
        <3>1. q.start = Nil /\ q.end = Nil
            BY <1>1, <1>2, <2>3, OfferedAssumption DEF WellFormed, Request, Op
        <3>. QED
            BY <1>6, <2>1, <3>1 DEF Keep
    <2>. QED
        BY <2>2, <2>3
<1>7. ReversedOnlyByStaleUpdate'
    <2>. SUFFICES ASSUME NEW u \in Holiday, Reversed(u)'
                  PROVE  \E d \in stale' : request[d].op = "update" /\ request[d].target = u
        BY <1>1 DEF ReversedOnlyByStaleUpdate, callVars
    <2>1. stale \subseteq stale'
        BY <1>1
    <2>2. CASE Reversed(u)
        BY <2>1, <2>2 DEF Inv, ReversedOnlyByStaleUpdate
    <2>3. CASE ~ Reversed(u)
        <3>1. u = t /\ new.start > new.end
            BY <1>1, <1>3, <2>3 DEF Reversed, Inv, TypeOK
        <3>. QED
            BY <1>1, <1>6, <2>3, <3>1 DEF Reversed
    <2>. QED
        BY <2>2, <2>3
<1>. QED
    BY <1>4, <1>5, <1>7 DEF Inv

\* Dolibarr executes a create; its dates are in order.
LEMMA PersistCreateInv == ASSUME Inv, NEW c \in Call, PersistCreate(c) PROVE Inv'
<1>. DEFINE q   == request[c]
            new == Merge(Blank, Proposed(q, Blank))
<1>1. PICK t \in Holiday :
        /\ wire[c] = "flying" /\ q.op = "create"
        /\ holiday' = [holiday EXCEPT ![t] = new]
        /\ made' = [made EXCEPT ![c] = t]
        /\ wire' = [wire EXCEPT ![c] = "persisted"]
        /\ UNCHANGED <<issued, edits, stale, callVars>>
    BY DEF PersistCreate
<1>2. q \in Request /\ WellFormed(q)
    BY <1>1, Unfinished DEF Inv, WriteInv
<1>3. new \in Record /\ new.start <= new.end
    BY <1>1, <1>2, CreateType
<1>4. TypeOK'
    BY <1>1, <1>3 DEF Inv, TypeOK, callVars
<1>5. /\ \A d \in Call : PhaseInv(d)' /\ WriteInv(d)'
      /\ IssuedInv'
      /\ AnswersSettleWrites'
    BY <1>1, WorldSteps DEF Inv, TypeOK
<1>6. ReversedOnlyByStaleUpdate'
    <2>. SUFFICES ASSUME NEW u \in Holiday, Reversed(u)' PROVE Reversed(u)
        BY <1>1 DEF ReversedOnlyByStaleUpdate, Inv, callVars
    <2>1. new.start \in Int /\ new.end \in Int
        BY <1>3, DayAssumption DEF Record
    <2>2. u # t
        BY <1>1, <1>3, <2>1 DEF Reversed, Inv, TypeOK
    <2>. QED
        BY <1>1, <2>2 DEF Reversed, Inv, TypeOK
<1>. QED
    BY <1>4, <1>5, <1>6 DEF Inv

\* Dolibarr refuses or ignores a write.
LEMMA DiscardInv == ASSUME Inv, NEW c \in Call, Discard(c) PROVE Inv'
<1>1. /\ UNCHANGED <<holiday, edits, issued, made, stale, callVars>>
      /\ \E w \in {"refused", "ignored"} :
            wire[c] = "flying" /\ wire' = [wire EXCEPT ![c] = w]
    BY DEF Discard
<1>2. TypeOK'
    BY <1>1 DEF Inv, TypeOK, callVars
<1>3. /\ \A d \in Call : PhaseInv(d)' /\ WriteInv(d)'
      /\ IssuedInv'
      /\ AnswersSettleWrites'
    BY <1>1, WorldSteps DEF Inv, TypeOK
<1>4. ReversedOnlyByStaleUpdate'
    BY <1>1, DatesUntouched DEF callVars
<1>. QED
    BY <1>2, <1>3, <1>4 DEF Inv

\* Somebody else edits a holiday, dates in order.
LEMMA EditInv == ASSUME Inv, NEW t \in Holiday, Edit(t) PROVE Inv'
<1>1. PICK r \in {x \in Record : x.start <= x.end} \cup {Absent} :
        holiday' = [holiday EXCEPT ![t] = r]
    BY DEF Edit
<1>2. edits < MaxEdits /\ edits' = edits + 1 /\ UNCHANGED <<issued, wire, made, stale, callVars>>
    BY DEF Edit
<1>3. TypeOK'
    <2>1. edits' \in 0..MaxEdits
        BY <1>2, EditsAssumption DEF Inv, TypeOK
    <2>. QED
        BY <1>1, <1>2, <2>1 DEF Inv, TypeOK, callVars
<1>4. (\A d \in Call : PhaseInv(d)' /\ WriteInv(d)') /\ IssuedInv' /\ AnswersSettleWrites'
    BY <1>2 DEF Inv, PhaseInv, WriteInv, ReadInv, IssuedInv, AnswersSettleWrites, callVars
<1>5. ReversedOnlyByStaleUpdate'
    <2>. SUFFICES ASSUME NEW u \in Holiday, Reversed(u)' PROVE Reversed(u)
        BY <1>2 DEF ReversedOnlyByStaleUpdate, Inv, callVars
    <2>1. CASE u = t
        <3>1. holiday'[u] = r
            BY <1>1, <2>1 DEF Inv, TypeOK
        <3>2. r # Absent => r.start \in Int /\ r.end \in Int /\ r.start <= r.end
            BY DayAssumption DEF Record
        <3>. QED
            BY <3>1, <3>2 DEF Reversed
    <2>2. CASE u # t
        BY <1>1, <2>2 DEF Reversed, Inv, TypeOK
    <2>. QED
        BY <2>1, <2>2
<1>. QED
    BY <1>3, <1>4, <1>5 DEF Inv

\* Every step preserves the invariant.
LEMMA NextInv == Inv /\ [Next]_vars => Inv'
<1>. SUFFICES ASSUME Inv, [Next]_vars PROVE Inv'
    OBVIOUS
<1>1. CASE UNCHANGED vars
    BY <1>1 DEF vars, Inv, TypeOK, PhaseInv, WriteInv, ReadInv, IssuedInv,
                AnswersSettleWrites, ReversedOnlyByStaleUpdate, Reversed
<1>2. ASSUME NEW c \in Call, Invoke(c) \/ Step(c) PROVE Inv'
    BY <1>2, InvokeInv, EndsUnwritten, PreviewInv, SendWriteInv, LaterStepsInv DEF Step
<1>3. ASSUME NEW c \in Call, Persist(c) \/ PersistCreate(c) \/ Discard(c) PROVE Inv'
    BY <1>3, PersistInv, PersistCreateInv, DiscardInv
<1>4. ASSUME NEW t \in Holiday, Edit(t) PROVE Inv'
    BY <1>4, EditInv
<1>. QED
    BY <1>1, <1>2, <1>3, <1>4 DEF Next

---------------------------------------------------------------------------
(* The results *)

\* The invariant holds in every reachable state.
LEMMA SpecInv == Spec => []Inv
BY InitInv, NextInv, PTL DEF Spec

\* Type correctness: the values of TypeOK are the only ones the service's code
\* in _transition, create and update can produce.
THEOREM TypeCorrect == Spec => []TypeOK
<1>1. Inv => TypeOK
    BY DEF Inv
<1>. QED
    BY <1>1, SpecInv, PTL

\* An answer other than a failure tells whether the write was sent and whether
\* it can still be executed.
THEOREM AnswersSettle == Spec => []AnswersSettleWrites
<1>1. Inv => AnswersSettleWrites
    BY DEF Inv
<1>. QED
    BY <1>1, SpecInv, PTL

\* The date check of update can only be defeated by a write that meets a record
\* changed after the check.
THEOREM ReversedOnlyByRace == Spec => []ReversedOnlyByStaleUpdate
<1>1. Inv => ReversedOnlyByStaleUpdate
    BY DEF Inv
<1>. QED
    BY <1>1, SpecInv, PTL

\* No write is sent for something that was not previewed on the same state.
THEOREM WritesPreviewed == Spec => []WritesWerePreviewed
<1>1. Inv => WritesWerePreviewed
    <2>. SUFFICES ASSUME Inv, NEW c \in Call, wire[c] # "none"
                  PROVE  \E d \in Call : answer[d] = "preview" /\ SameChange(c, d)
        BY DEF WritesWerePreviewed
    <2>1. /\ ReadInv(c) /\ Changes(request[c], seen[c])
          /\ given[c] = TokenOf(request[c], seen[c]) /\ given[c] \in issued
          /\ request[c] \in Request /\ WellFormed(request[c])
        BY Unfinished DEF Inv, WriteInv
    <2>2. PICK d \in Call : answer[d] = "preview" /\ given[c] = TokenOf(request[d], seen[d])
        BY <2>1 DEF Inv, IssuedInv
    <2>3. request[d] \in Request /\ WellFormed(request[d])
        BY <2>2, Unfinished DEF Inv, PhaseInv
    <2>4. seen[c] \in Record \cup {Blank}
        BY <2>1 DEF ReadInv
    <2>5. TokenOf(request[c], seen[c]) = TokenOf(request[d], seen[d])
        BY <2>1, <2>2
    <2>6. /\ seen[c] = seen[d] /\ request[c].op = request[d].op
          /\ request[c].target = request[d].target /\ request[c].start = request[d].start
          /\ request[c].end = request[d].end /\ request[c].reason = request[d].reason
        BY <2>1, <2>3, <2>4, <2>5, TokenInjective
    <2>. QED
        BY <2>2, <2>6 DEF SameChange
<1>. QED
    BY <1>1, SpecInv, PTL

---------------------------------------------------------------------------
(* What a write does *)

\* Merging a proposal twice is merging it once.
LEMMA MergeIdempotent ==
    ASSUME NEW v, NEW p PROVE Merge(Merge(v, p), p) = Merge(v, p)
BY DEF Merge, Keep

\* A write is persisted by Persist only, and changes what its call had read.
LEMMA PersistStep ==
    ASSUME Inv, Next, NEW c \in Call, Persists(c), request[c].op # "create"
    PROVE  /\ Persist(c)
           /\ request[c] \in Request /\ WellFormed(request[c])
           /\ request[c].target \in Holiday
           /\ holiday[request[c].target] \in Record
           /\ seen[c] \in Record
           /\ Eligible(request[c], seen[c])
           /\ Changes(request[c], seen[c])
           /\ given[c] = TokenOf(request[c], seen[c])
           /\ holiday'[request[c].target] =
                Merge(holiday[request[c].target], Proposed(request[c], seen[c]))
<1>1. wire[c] = "flying" /\ wire'[c] = "persisted"
    BY DEF Persists
<1>2. Persist(c)
    <2>1. ASSUME NEW d \in Call, Invoke(d) \/ Step(d) PROVE FALSE
        BY <1>1, <2>1 DEF Inv, TypeOK, Invoke, Step, Reject, Preview, Conflict, NoOp,
            SendWrite, WriteAcknowledged, Reread, CallFails, worldVars
    <2>2. ASSUME NEW t \in Holiday, Edit(t) PROVE FALSE
        BY <1>1, <2>2 DEF Edit
    <2>3. ASSUME NEW d \in Call, Persist(d) \/ PersistCreate(d) \/ Discard(d)
          PROVE  d = c /\ Persist(c)
        BY <1>1, <2>3 DEF Inv, TypeOK, Persist, PersistCreate, Discard
    <2>. QED
        BY <2>1, <2>2, <2>3 DEF Next
<1>3. /\ request[c] \in Request /\ WellFormed(request[c]) /\ ReadInv(c)
      /\ Eligible(request[c], seen[c]) /\ Changes(request[c], seen[c])
      /\ given[c] = TokenOf(request[c], seen[c])
    BY <1>1, Unfinished DEF Inv, WriteInv
<1>4. request[c].target \in Holiday
    BY <1>3 DEF WellFormed, Request
<1>5. holiday[request[c].target] \in Record
    BY <1>2, <1>4 DEF Persist, Inv, TypeOK
<1>6. seen[c] \in Record
    BY <1>3 DEF ReadInv
<1>7. holiday'[request[c].target] =
        Merge(holiday[request[c].target], Proposed(request[c], seen[c]))
    BY <1>2, <1>4 DEF Persist, Inv, TypeOK
<1>. QED
    BY <1>2, <1>3, <1>4, <1>5, <1>6, <1>7

\* A replayed token meets a conflict unless the old record was restored.
THEOREM TokensSpent == Spec => TokensAreSpent
<1>1. Inv /\ [Next]_vars => [PersistSpendsToken]_vars
    <2>. SUFFICES ASSUME Inv, Next, NEW c \in Call, Persists(c), request[c].op # "create",
                         TokenOf(request[c], holiday'[request[c].target]) = given[c]
                  PROVE  FALSE
        BY DEF PersistSpendsToken
    <2>. DEFINE old == holiday[request[c].target]
                new == Merge(old, Proposed(request[c], seen[c]))
    <2>1. /\ holiday'[request[c].target] = new
          /\ given[c] = TokenOf(request[c], seen[c])
        BY PersistStep
    <2>2. TokenOf(request[c], new) = TokenOf(request[c], seen[c])
        BY <2>1
    <2>3. new = seen[c]
        BY <2>2 DEF TokenOf
    <2>4. Merge(seen[c], Proposed(request[c], seen[c])) = seen[c]
        BY <2>3, MergeIdempotent
    <2>. QED
        BY <2>4, PersistStep DEF Changes
<1>. QED
    BY <1>1, SpecInv, PTL DEF Spec, TokensAreSpent

\* A write that meets the record it was decided on follows the documented
\* workflow.
THEOREM WorkflowFollowed == Spec => WritesFollowWorkflow
<1>1. Inv /\ [Next]_vars => [PersistsWithinWorkflow]_vars
    <2>. SUFFICES ASSUME Inv, Next, NEW c \in Call, Persists(c), c \notin stale',
                         request[c].op # "create"
                  PROVE  \/ /\ <<holiday[request[c].target].status,
                                 holiday'[request[c].target].status>> \in Workflow
                            /\ holiday'[request[c].target].start = holiday[request[c].target].start
                            /\ holiday'[request[c].target].end = holiday[request[c].target].end
                         \/ /\ holiday[request[c].target].status = "draft"
                            /\ holiday'[request[c].target].status = "draft"
                            /\ holiday'[request[c].target].reason = holiday[request[c].target].reason
        BY DEF PersistsWithinWorkflow
    <2>. DEFINE q   == request[c]
                old == holiday[q.target]
                new == holiday'[q.target]
    <2>1. old = seen[c]
        BY PersistStep DEF Persist
    <2>2. new = Merge(old, Proposed(q, old)) /\ old \in Record /\ Eligible(q, old)
          /\ Changes(q, old) /\ q \in Request /\ WellFormed(q)
        BY <2>1, PersistStep
    <2>3. CASE q.op = "update"
        <3>1. Proposed(q, old).status = Nil /\ Proposed(q, old).reason = Nil
            BY <2>3 DEF Proposed, Transition
        <3>. QED
            BY <2>2, <2>3, <3>1 DEF Merge, Keep, Eligible
    <2>4. CASE q.op \in Transition
        <3>1. q.start = Nil /\ q.end = Nil
            BY <2>2, <2>4 DEF WellFormed
        <3>2. new.start = old.start /\ new.end = old.end /\ new.status = Desired[q.op]
            BY <2>2, <2>4, <3>1, NilAssumption DEF Merge, Keep, Proposed, Desired, Transition, Status
        <3>3. old.status # Desired[q.op]
            <4>. SUFFICES ASSUME old.status = Desired[q.op] PROVE FALSE
                OBVIOUS
            <4>1. Proposed(q, old) = [status |-> old.status, start |-> Nil, end |-> Nil, reason |-> Nil]
                BY <2>4, <3>1 DEF Proposed, Desired, Transition
            <4>2. Merge(old, Proposed(q, old)) =
                    [status |-> old.status, start |-> old.start, end |-> old.end, reason |-> old.reason]
                BY <4>1 DEF Merge, Keep
            <4>. QED
                BY <2>2, <4>2 DEF Changes, Record
        <3>4. old.status \in Allowed[q.op]
            BY <2>2, <2>4, <3>3 DEF Eligible
        <3>5. <<old.status, new.status>> \in Workflow
            BY <2>4, <3>2, <3>4 DEF Allowed, Desired, Transition, Workflow
        <3>. QED
            BY <3>2, <3>5
    <2>. QED
        BY <2>2, <2>3, <2>4, OfferedAssumption DEF Request, Op
<1>. QED
    BY <1>1, SpecInv, PTL DEF Spec, WritesFollowWorkflow

---------------------------------------------------------------------------
(* The service implements the confirmed-mutation protocol *)

\* The refinement mapping, by name.
Previews == {PreviewOf(tok) : tok \in issued}
Auth == [c \in Call |-> IF wire[c] = "flying"
                       THEN {PreviewOf(TokenOf(request[c], seen[c]))} ELSE {}]
Used == {c \in Call : wire[c] # "none"}

\* A step that leaves records, tokens and writes alone is a stutter.
LEMMA QuietStep ==
    ASSUME Inv, UNCHANGED <<holiday, issued, wire>>,
           \A d \in Call : wire[d] = "flying" =>
                request'[d] = request[d] /\ seen'[d] = seen[d]
    PROVE  UNCHANGED <<holiday, Previews, Auth, Used>>
BY DEF Previews, Auth, Used

\* A preview shows its change on what the target holds.
LEMMA PreviewRefines ==
    ASSUME Inv, NEW c \in Call, Preview(c)
    PROVE  \E t \in Holiday \cup {Nil}, ch \in ProtocolChange : Protocol!Issue(t, ch)
<1>. DEFINE q == request[c]
            tok == TokenOf(q, Current(c))
<1>1. /\ pc[c] = "read" /\ Current(c) # Absent /\ issued' = issued \cup {tok}
      /\ UNCHANGED <<holiday, wire, request>> /\ seen' = [seen EXCEPT ![c] = Current(c)]
    BY DEF Preview, ReadReturns, worldVars
<1>2. q \in Request /\ WellFormed(q) /\ wire[c] = "none"
    BY <1>1, Unfinished
<1>3. tok.target \in Holiday \cup {Nil} /\ ChangeOf(tok) \in ProtocolChange
    BY <1>1, <1>2, ReadType DEF TokenOf, ProtocolChange, Request
<1>4. tok.current = Protocol!Shown(tok.target)
    BY <1>2, NilAssumption DEF Protocol!Shown, TokenOf, Current, WellFormed, Request
<1>5. Previews' = Previews \cup {<<tok.target, ChangeOf(tok), Protocol!Shown(tok.target)>>}
    BY <1>1, <1>4 DEF Previews, PreviewOf
<1>6. UNCHANGED <<holiday, Auth, Used>>
    BY <1>1, <1>2 DEF Auth, Used, Inv, TypeOK
<1>. QED
    BY <1>3, <1>5, <1>6 DEF Protocol!Issue, Previews, Auth, Used

\* Sending a write is being authorised by a preview of what was just read.
LEMMA SendRefines ==
    ASSUME Inv, NEW c \in Call, SendWrite(c)
    PROVE  Protocol!Authorise(c)
<1>. DEFINE q == request[c]
            tok == TokenOf(q, Current(c))
<1>1. /\ pc[c] = "read" /\ Current(c) # Absent /\ given[c] = tok /\ given[c] # Nil
      /\ UNCHANGED <<holiday, issued, request>>
      /\ seen' = [seen EXCEPT ![c] = Current(c)]
      /\ wire' = [wire EXCEPT ![c] = "flying"]
    BY DEF SendWrite, ReadReturns, Confirmed
<1>2. q \in Request /\ WellFormed(q) /\ wire[c] = "none"
    BY <1>1, Unfinished
<1>3. tok \in issued
    BY <1>1 DEF Inv, IssuedInv
<1>4. PreviewOf(tok) \in Previews
    BY <1>3 DEF Previews
<1>5. PreviewOf(tok)[3] = Protocol!Shown(PreviewOf(tok)[1])
    BY <1>2, NilAssumption
        DEF Protocol!Shown, PreviewOf, TokenOf, Current, WellFormed, Request
<1>6. Auth' = [Auth EXCEPT ![c] = {PreviewOf(tok)}]
    BY <1>1 DEF Auth, Inv, TypeOK
<1>7. c \notin Used /\ Used' = Used \cup {c}
    BY <1>1, <1>2 DEF Used, Inv, TypeOK
<1>8. UNCHANGED <<holiday, Previews>>
    BY <1>1 DEF Previews
<1>. QED
    BY <1>4, <1>5, <1>6, <1>7, <1>8 DEF Protocol!Authorise, Previews, Auth, Used

\* What a write in flight stands for in the protocol, and how it ends.
LEMMA FlightEnds ==
    ASSUME Inv, NEW c \in Call, wire[c] = "flying",
           NEW w \in {"refused", "ignored", "persisted"},
           wire' = [wire EXCEPT ![c] = w], UNCHANGED <<issued, callVars>>
    PROVE  /\ Auth[c] = {PreviewOf(TokenOf(request[c], seen[c]))}
           /\ Auth' = [Auth EXCEPT ![c] = {}]
           /\ UNCHANGED <<Previews, Used>>
BY DEF Auth, Used, Previews, Inv, TypeOK, callVars

\* Executing a write is the abstract step that takes effect.
LEMMA PersistRefines ==
    ASSUME Inv, NEW c \in Call, Persist(c)
    PROVE  Protocol!Write(c)
<1>. DEFINE q == request[c]
            p == PreviewOf(TokenOf(q, seen[c]))
<1>1. /\ wire[c] = "flying" /\ q.op # "create" /\ holiday[q.target] # Absent
      /\ holiday' = [holiday EXCEPT ![q.target] = Merge(holiday[q.target], Proposed(q, seen[c]))]
      /\ wire' = [wire EXCEPT ![c] = "persisted"]
      /\ UNCHANGED <<issued, callVars>>
    BY DEF Persist
<1>2. Auth[c] = {p} /\ Auth' = [Auth EXCEPT ![c] = {}] /\ UNCHANGED <<Previews, Used>>
    BY <1>1, FlightEnds
<1>3. q \in Request /\ WellFormed(q)
    BY <1>1, Unfinished DEF Inv, WriteInv
<1>4. p[1] = q.target /\ p[1] # Nil /\ p[2].proposed = Proposed(q, seen[c])
    BY <1>1, <1>3 DEF PreviewOf, TokenOf, ChangeOf, WellFormed
<1>5. holiday' = [holiday EXCEPT ![p[1]] = ResultOf(p[2], holiday[p[1]])]
    BY <1>1, <1>4 DEF ResultOf
<1>. QED
    BY <1>1, <1>2, <1>4, <1>5 DEF Protocol!Write, Previews, Auth, Used

\* Executing a create is the abstract step that takes effect.
LEMMA PersistCreateRefines ==
    ASSUME Inv, NEW c \in Call, PersistCreate(c)
    PROVE  \E t \in Holiday : Protocol!Insert(c, t)
<1>. DEFINE q == request[c]
            p == PreviewOf(TokenOf(q, seen[c]))
<1>1. PICK t \in Holiday :
        /\ wire[c] = "flying" /\ q.op = "create" /\ holiday[t] = Absent
        /\ holiday' = [holiday EXCEPT ![t] = Merge(Blank, Proposed(q, Blank))]
        /\ wire' = [wire EXCEPT ![c] = "persisted"]
        /\ UNCHANGED <<issued, callVars>>
    BY DEF PersistCreate
<1>2. Auth[c] = {p} /\ Auth' = [Auth EXCEPT ![c] = {}] /\ UNCHANGED <<Previews, Used>>
    BY <1>1, FlightEnds
<1>3. q \in Request /\ WellFormed(q) /\ seen[c] = Blank
    BY <1>1, Unfinished DEF Inv, WriteInv, ReadInv
<1>4. p[1] = Nil /\ p[2].proposed = Proposed(q, Blank)
    BY <1>1, <1>3 DEF PreviewOf, TokenOf, ChangeOf, WellFormed
<1>5. holiday' = [holiday EXCEPT ![t] = ResultOf(p[2], Blank)]
    BY <1>1, <1>4 DEF ResultOf
<1>6. Protocol!Insert(c, t)
    BY <1>1, <1>2, <1>4, <1>5 DEF Protocol!Insert, Previews, Auth, Used
<1>. QED
    BY <1>6

\* A write that is not executed is abandoned, or was never pending.
LEMMA DiscardRefines ==
    ASSUME Inv, NEW c \in Call, Discard(c)
    PROVE  Protocol!Drop(c)
<1>1. PICK w \in {"refused", "ignored"} :
        /\ wire[c] = "flying" /\ wire' = [wire EXCEPT ![c] = w]
        /\ UNCHANGED <<holiday, issued, callVars>>
    BY DEF Discard
<1>2. Auth[c] # {} /\ Auth' = [Auth EXCEPT ![c] = {}] /\ UNCHANGED <<Previews, Used>>
    BY <1>1, FlightEnds
<1>. QED
    BY <1>1, <1>2 DEF Protocol!Drop, Previews, Auth, Used

\* Somebody else's edit is an edit of the abstract record.
LEMMA EditRefines ==
    ASSUME Inv, NEW t \in Holiday, Edit(t)
    PROVE  Protocol!Interfere(t)
<1>1. UNCHANGED <<Previews, Auth, Used>>
    BY DEF Edit, Previews, Auth, Used, callVars
<1>2. \E v \in Record \cup {Absent} : holiday' = [holiday EXCEPT ![t] = v]
    BY DEF Edit
<1>. QED
    BY <1>1, <1>2 DEF Protocol!Interfere, Previews, Auth, Used

\* Every step of the service and of Dolibarr is a step of the protocol or none.
LEMMA StepRefines == Inv /\ [Next]_vars => [Protocol!Next]_(Protocol!vars)
<1>. SUFFICES ASSUME Inv, [Next]_vars PROVE Protocol!Next \/ UNCHANGED Protocol!vars
    OBVIOUS
<1>0. UNCHANGED <<holiday, Previews, Auth, Used>> => UNCHANGED Protocol!vars
    BY DEF Protocol!vars, Previews, Auth, Used
<1>1. CASE UNCHANGED vars
    BY <1>0, <1>1, QuietStep DEF vars
<1>2. ASSUME NEW c \in Call, Invoke(c) PROVE UNCHANGED Protocol!vars
    <2>1. wire[c] = "none"
        BY <1>2, Unfinished DEF Invoke
    <2>. QED
        BY <1>0, <1>2, <2>1, QuietStep DEF Invoke, worldVars, Inv, TypeOK
<1>3. ASSUME NEW c \in Call, Reject(c) \/ Conflict(c) \/ NoOp(c) PROVE UNCHANGED Protocol!vars
    <2>1. wire[c] = "none"
        BY <1>3, Unfinished DEF Reject, Conflict, NoOp, ReadReturns
    <2>. QED
        BY <1>0, <1>3, <2>1, QuietStep
            DEF Reject, Conflict, NoOp, ReadReturns, worldVars, Inv, TypeOK
<1>4. ASSUME NEW c \in Call, WriteAcknowledged(c) \/ Reread(c) \/ CallFails(c)
      PROVE  UNCHANGED Protocol!vars
    BY <1>0, <1>4, QuietStep DEF WriteAcknowledged, Reread, CallFails, worldVars
<1>5. ASSUME NEW c \in Call, Preview(c) \/ SendWrite(c) PROVE Protocol!Next
    BY <1>5, PreviewRefines, SendRefines DEF Protocol!Next
<1>6. ASSUME NEW c \in Call, Persist(c) \/ PersistCreate(c) \/ Discard(c) PROVE Protocol!Next
    BY <1>6, PersistRefines, PersistCreateRefines, DiscardRefines DEF Protocol!Next
<1>7. ASSUME NEW t \in Holiday, Edit(t) PROVE Protocol!Next
    BY <1>7, EditRefines DEF Protocol!Next
<1>. QED
    BY <1>1, <1>2, <1>3, <1>4, <1>5, <1>6, <1>7 DEF Next, Step

\* The leave-request operations implement the confirmed-mutation protocol.
THEOREM LeaveRequestsRefine == Spec => ImplementsConfirmedWrite
<1>1. Init => Protocol!Init
    BY DEF Init, Protocol!Init
<1>. QED
    BY <1>1, SpecInv, StepRefines, PTL DEF Spec, ImplementsConfirmedWrite, Protocol!Spec
=============================================================================
