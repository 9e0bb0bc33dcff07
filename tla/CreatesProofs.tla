---------------------------- MODULE CreatesProofs ----------------------------
(***************************************************************************)
(* Safety of Creates for any number of calls and edits, any labels, mails,  *)
(* contexts and parents, any page size and bound.  The invariant says what  *)
(* a call relies on once its listing has ended: the create it sends was     *)
(* confirmed with a token of what it found, and tokens come from previews.  *)
(***************************************************************************)
EXTENDS Creates, PagingProofs

\* A call never mixes up its own phase, write and answer.
PhaseInv(c) ==
    /\ pc[c] # "idle" => request[c] \in Request
    /\ pc[c] = "context" => request[c].row.context # Nil
    /\ pc[c] = "parent" => request[c].parent # Nil
    /\ pc[c] \in {"idle", "context", "parent", "list"} => wire[c] = "none"
    /\ pc[c] = "reread" => wire[c] = "persisted"
    /\ pc[c] # "done" => answer[c] = "none"

\* What was found are rows that Dolibarr has given an id.
FoundInv(c) == found[c] \subseteq 1..born

\* A create was confirmed.
WriteInv(c) ==
    wire[c] # "none" =>
        /\ given[c] = [request |-> request[c], facts |-> facts[c], duplicates |-> found[c]]
        /\ given[c] \in issued

\* A token is only known from a preview.
IssuedInv ==
    /\ \A c \in Call : given[c] \in issued \cup {Nil}
    /\ \A tok \in issued : \E d \in Call :
        /\ answer[d] = "preview"
        /\ tok = [request |-> request[d], facts |-> facts[d], duplicates |-> found[d]]

Inv ==
    /\ TypeOK
    /\ \A c \in Call : PhaseInv(c) /\ FoundInv(c) /\ WriteInv(c)
    /\ IssuedInv
    /\ AnswersSettleWrites

Settled(c) ==
    /\ answer[c] \in {"rejected", "preview", "conflict"} => wire[c] = "none"
    /\ answer[c] \in {"applied", "partial"} => wire[c] = "persisted"

---------------------------------------------------------------------------
(* The rules *)

\* A listing returns rows of the table.
LEMMA ListedRows ==
    ASSUME NEW c \in Call
    PROVE  Current(c) \subseteq DOMAIN rows
BY DEF Current, Listed, PageOf

LEMMA FoundRows ==
    ASSUME TypeOK, NEW c \in Call, FoundInv(c)
    PROVE  Duplicates(c) \subseteq 1..born /\ Duplicates(c) \subseteq Id
BY ListedRows, BoundAssumption DEF TypeOK, FoundInv, Duplicates, Id

---------------------------------------------------------------------------
(* The steps of a call *)

\* A step of one call leaves what is known of the others as it is.
LEMMA CallStep ==
    ASSUME Inv, NEW c \in Call, UNCHANGED <<rows, born>>, issued \subseteq issued', pc[c] # "done",
           TypeOK', PhaseInv(c)', FoundInv(c)', WriteInv(c)', Settled(c)',
           given'[c] \in issued' \cup {Nil},
           \A d \in Call \ {c} :
                /\ pc'[d] = pc[d] /\ request'[d] = request[d] /\ given'[d] = given[d]
                /\ facts'[d] = facts[d] /\ found'[d] = found[d] /\ wire'[d] = wire[d]
                /\ answer'[d] = answer[d],
           \A tok \in issued' \ issued :
                /\ answer'[c] = "preview"
                /\ tok = [request |-> request'[c], facts |-> facts'[c], duplicates |-> found'[c]]
    PROVE  Inv'
<1>1. ASSUME NEW d \in Call \ {c} PROVE PhaseInv(d)' /\ FoundInv(d)' /\ WriteInv(d)'
    BY DEF Inv, PhaseInv, FoundInv, WriteInv
<1>2. \A d \in Call : given'[d] \in issued' \cup {Nil}
    BY DEF Inv, IssuedInv
<1>3. ASSUME NEW tok \in issued'
      PROVE  \E d \in Call :
                /\ answer'[d] = "preview"
                /\ tok = [request |-> request'[d], facts |-> facts'[d], duplicates |-> found'[d]]
    <2>1. CASE tok \in issued
        <3>1. PICK d \in Call :
                /\ answer[d] = "preview"
                /\ tok = [request |-> request[d], facts |-> facts[d], duplicates |-> found[d]]
            BY <2>1 DEF Inv, IssuedInv
        <3>2. d # c
            BY <3>1 DEF Inv, PhaseInv
        <3>3. /\ request'[d] = request[d] /\ facts'[d] = facts[d]
              /\ found'[d] = found[d] /\ answer'[d] = answer[d]
            BY <3>2
        <3>. QED
            BY <3>1, <3>3
    <2>. QED
        BY <2>1
<1>4. IssuedInv'
    BY <1>2, <1>3 DEF IssuedInv
<1>5. ASSUME NEW d \in Call PROVE Settled(d)'
    BY DEF Inv, AnswersSettleWrites, Settled
<1>6. AnswersSettleWrites'
    BY <1>5 DEF AnswersSettleWrites, Settled
<1>. QED
    BY <1>1, <1>4, <1>6 DEF Inv

LEMMA InvokeInv == ASSUME Inv, NEW c \in Call, Invoke(c) PROVE Inv'
<1>. USE DEF worldVars
<1>1. PICK q \in Request, tok \in issued \cup {Nil} :
        /\ pc[c] = "idle"
        /\ request' = [request EXCEPT ![c] = q]
        /\ given' = [given EXCEPT ![c] = tok]
        /\ pc' = [pc EXCEPT ![c] = IF q.row.context = Nil THEN "list" ELSE "context"]
        /\ UNCHANGED <<issued, facts, page, found, answer, worldVars>>
    BY DEF Invoke
<1>2. wire[c] = "none" /\ answer[c] = "none"
    BY <1>1 DEF Inv, PhaseInv
<1>3. TypeOK'
    BY <1>1 DEF Inv, TypeOK
<1>4. PhaseInv(c)' /\ FoundInv(c)' /\ WriteInv(c)' /\ Settled(c)'
    BY <1>1, <1>2 DEF Inv, TypeOK, PhaseInv, FoundInv, WriteInv, Settled
<1>. QED
    BY <1>1, <1>3, <1>4, CallStep DEF Inv, TypeOK

\* What a call reads before its listing.
LEMMA ReadInv ==
    ASSUME Inv, NEW c \in Call, ReadContext(c) \/ ReadParent(c) \/ Reject(c) PROVE Inv'
<1>. USE DEF ReadContext, ReadParent, Reject, Finish, worldVars
<1>1. /\ pc[c] \in {"context", "parent"} /\ wire[c] = "none"
      /\ UNCHANGED <<issued, request, given, page, found, worldVars>>
    BY DEF Inv, PhaseInv
<1>2. /\ pc[c] = "context" => request[c].row.context \in Context
      /\ pc[c] = "parent" => request[c].parent \in Parent
    BY DEF Inv, PhaseInv, Request, Row
<1>3. TypeOK'
    <2>1. facts' \in [Call -> Facts]
        BY <1>2 DEF Inv, TypeOK, Facts
    <2>. QED
        BY <2>1 DEF Inv, TypeOK
<1>4. PhaseInv(c)' /\ FoundInv(c)' /\ WriteInv(c)' /\ Settled(c)'
    BY <1>1 DEF Inv, TypeOK, PhaseInv, FoundInv, WriteInv, Settled
<1>. QED
    BY <1>1, <1>3, <1>4, CallStep DEF Inv, TypeOK, IssuedInv

LEMMA NextPageInv == ASSUME Inv, NEW c \in Call, NextPage(c) PROVE Inv'
<1>. USE DEF NextPage, worldVars
<1>1. pc[c] = "list" /\ wire[c] = "none" /\ answer[c] = "none"
    BY DEF Inv, PhaseInv
<1>2. Duplicates(c) \subseteq 1..born /\ Duplicates(c) \subseteq Id
    BY FoundRows DEF Inv
<1>3. TypeOK'
    BY <1>2, BoundAssumption DEF Inv, TypeOK
<1>4. PhaseInv(c)' /\ FoundInv(c)' /\ WriteInv(c)' /\ Settled(c)'
    BY <1>1, <1>2 DEF Inv, TypeOK, PhaseInv, FoundInv, WriteInv, Settled
<1>. QED
    BY <1>1, <1>3, <1>4, CallStep DEF Inv, TypeOK, IssuedInv

LEMMA LimitReachedInv == ASSUME Inv, NEW c \in Call, LimitReached(c) PROVE Inv'
<1>. USE DEF LimitReached, Finish, worldVars
<1>1. pc[c] = "list" /\ wire[c] = "none"
    BY DEF Inv, PhaseInv
<1>2. TypeOK'
    BY DEF Inv, TypeOK
<1>3. PhaseInv(c)' /\ FoundInv(c)' /\ WriteInv(c)' /\ Settled(c)'
    BY <1>1 DEF Inv, TypeOK, PhaseInv, FoundInv, WriteInv, Settled
<1>. QED
    BY <1>1, <1>2, <1>3, CallStep DEF Inv, TypeOK, IssuedInv

\* The listing is complete, and the call is answered with a preview or a conflict.
LEMMA PreviewInv == ASSUME Inv, NEW c \in Call, Preview(c) \/ Conflict(c) PROVE Inv'
<1>. USE DEF Preview, Conflict, ListingEnds, Finish, worldVars
<1>1. pc[c] = "list" /\ wire[c] = "none"
    BY DEF Inv, PhaseInv
<1>2. Duplicates(c) \subseteq 1..born /\ Duplicates(c) \subseteq Id
    BY FoundRows DEF Inv
<1>3. found'[c] = Duplicates(c)
    BY DEF Inv, TypeOK
<1>4. TokenOf(c) \in Token
    BY <1>1, <1>2 DEF TokenOf, Token, Inv, TypeOK, PhaseInv
<1>5. TypeOK'
    BY <1>2, <1>4 DEF Inv, TypeOK
<1>6. PhaseInv(c)' /\ FoundInv(c)' /\ WriteInv(c)' /\ Settled(c)'
    BY <1>1, <1>2 DEF Inv, TypeOK, PhaseInv, FoundInv, WriteInv, Settled
<1>7. \A tok \in issued' \ issued : answer'[c] = "preview" /\ tok = TokenOf(c)
    BY DEF Inv, TypeOK
<1>. QED
    BY <1>1, <1>3, <1>5, <1>6, <1>7, CallStep DEF Inv, TypeOK, IssuedInv, TokenOf

LEMMA SendCreateInv == ASSUME Inv, NEW c \in Call, SendCreate(c) PROVE Inv'
<1>. USE DEF SendCreate, ListingEnds
<1>1. pc[c] = "list" /\ wire[c] = "none" /\ answer[c] = "none"
    BY DEF Inv, PhaseInv
<1>2. Duplicates(c) \subseteq 1..born /\ Duplicates(c) \subseteq Id
    BY FoundRows DEF Inv
<1>3. TypeOK'
    BY <1>2 DEF Inv, TypeOK
<1>4. PhaseInv(c)' /\ FoundInv(c)' /\ Settled(c)'
    BY <1>1, <1>2 DEF Inv, TypeOK, PhaseInv, FoundInv, Settled
<1>5. WriteInv(c)'
    BY DEF Inv, TypeOK, WriteInv, IssuedInv, TokenOf
<1>. QED
    BY <1>1, <1>3, <1>4, <1>5, CallStep DEF Inv, TypeOK, IssuedInv

\* The rest of a call that created, or that fails.
LEMMA LaterStepsInv ==
    ASSUME Inv, NEW c \in Call, CreateReturns(c) \/ Reread(c) \/ RereadFails(c) \/ CallFails(c)
    PROVE  Inv'
<1>. USE DEF CreateReturns, Reread, RereadFails, CallFails, Finish, worldVars
<1>1. /\ pc[c] \in {"context", "parent", "list", "post", "reread"}
      /\ UNCHANGED <<issued, request, given, facts, page, found, worldVars>>
    OBVIOUS
<1>2. TypeOK'
    BY DEF Inv, TypeOK
<1>3. PhaseInv(c)' /\ Settled(c)'
    BY <1>1 DEF Inv, TypeOK, PhaseInv, Settled
<1>4. FoundInv(c)' /\ WriteInv(c)'
    BY <1>1 DEF Inv, FoundInv, WriteInv
<1>. QED
    BY <1>1, <1>2, <1>3, <1>4, CallStep DEF Inv, TypeOK, IssuedInv

---------------------------------------------------------------------------
(* The steps of Dolibarr and its other users *)

\* No step of Dolibarr reaches into a call, but for its write and its new id.
LEMMA WorldStep ==
    ASSUME Inv, UNCHANGED <<issued, callVars>>, TypeOK', born' >= born,
           \A d \in Call : wire'[d] = wire[d] \/ (wire[d] = "flying" /\ wire'[d] # "none")
    PROVE  Inv'
<1>1. ASSUME NEW d \in Call PROVE PhaseInv(d)' /\ WriteInv(d)' /\ Settled(d)'
    BY DEF Inv, callVars, PhaseInv, WriteInv, Settled, AnswersSettleWrites
<1>2. ASSUME NEW d \in Call PROVE FoundInv(d)'
    <2>1. born \in Nat /\ born' \in Nat
        BY BoundAssumption DEF Inv, TypeOK
    <2>2. 1..born \subseteq 1..born'
        BY <2>1
    <2>. QED
        BY <2>2 DEF Inv, FoundInv, callVars
<1>3. IssuedInv'
    BY DEF Inv, IssuedInv, callVars
<1>. QED
    BY <1>1, <1>2, <1>3 DEF Inv, Settled, AnswersSettleWrites

\* A new row gets the next id.
LEMMA AddRowTypes ==
    ASSUME TypeOK, NEW r \in Row, AddRow(r)
    PROVE  /\ born' = born + 1 /\ born' \in 0..MaxRow /\ born + 1 \in Id /\ born' >= born
           /\ DOMAIN rows' \subseteq 1..born' /\ \A i \in DOMAIN rows' : rows'[i] \in Row
           /\ DOMAIN rows' = DOMAIN rows \cup {born + 1} /\ rows'[born + 1] = r
           /\ fresh' \in [Call -> SUBSET Id]
<1>1. /\ born' = born + 1 /\ born \in Nat /\ MaxRow \in Nat /\ born < MaxRow
      /\ rows' = [i \in DOMAIN rows \cup {born + 1} |-> IF i = born + 1 THEN r ELSE rows[i]]
    BY BoundAssumption DEF AddRow, TypeOK
<1>2. born' \in 0..MaxRow /\ born + 1 \in Id /\ born' >= born
    BY <1>1 DEF Id
<1>3. DOMAIN rows' \subseteq 1..born'
    <2>1. 1..born \subseteq 1..born' /\ born + 1 \in 1..born'
        BY <1>1
    <2>. QED
        BY <1>1, <2>1 DEF TypeOK
<1>4. \A i \in DOMAIN rows' : rows'[i] \in Row
    BY <1>1 DEF TypeOK
<1>5. fresh' \in [Call -> SUBSET Id]
    BY <1>2 DEF AddRow, Refresh, TypeOK
<1>. QED
    BY <1>1, <1>2, <1>3, <1>4, <1>5

LEMMA PersistInv == ASSUME Inv, NEW c \in Call, Persist(c) PROVE Inv'
<1>1. wire[c] = "flying" /\ request[c] \in Request /\ request[c].row \in Row
    BY DEF Persist, Inv, TypeOK, PhaseInv, Request
<1>2. AddRow(request[c].row) /\ UNCHANGED <<state, edits, issued, shifted, callVars>>
    BY DEF Persist
<1>3. /\ born' = born + 1 /\ born' \in 0..MaxRow /\ born + 1 \in Id /\ born' >= born
      /\ DOMAIN rows' \subseteq 1..born' /\ \A i \in DOMAIN rows' : rows'[i] \in Row
      /\ fresh' \in [Call -> SUBSET Id]
    BY <1>1, <1>2, AddRowTypes DEF Inv
<1>4. TypeOK'
    BY <1>3, <1>2 DEF Inv, TypeOK, callVars, Persist
<1>. QED
    BY <1>2, <1>3, <1>4, WorldStep DEF Persist, Inv, TypeOK

LEMMA RefuseInv == ASSUME Inv, NEW c \in Call, Refuse(c) PROVE Inv'
<1>1. TypeOK'
    BY DEF Inv, TypeOK, callVars, Refuse
<1>2. born' >= born
    BY BoundAssumption DEF Inv, TypeOK, Refuse
<1>. QED
    BY <1>1, <1>2, WorldStep DEF Refuse, Inv, TypeOK

LEMMA InsertInv == ASSUME Inv, NEW r \in Row, Insert(r) PROVE Inv'
<1>1. AddRow(r) /\ edits' = edits + 1 /\ edits < MaxEdits
      /\ UNCHANGED <<state, shifted, issued, wire, made, callVars>>
    BY DEF Insert, Edits
<1>2. /\ born' \in 0..MaxRow /\ born' >= born
      /\ DOMAIN rows' \subseteq 1..born' /\ \A i \in DOMAIN rows' : rows'[i] \in Row
      /\ fresh' \in [Call -> SUBSET Id]
    BY <1>1, AddRowTypes DEF Inv
<1>3. edits' \in 0..MaxEdits
    BY <1>1, BoundAssumption DEF Inv, TypeOK
<1>4. TypeOK'
    BY <1>1, <1>2, <1>3 DEF Inv, TypeOK, callVars
<1>. QED
    BY <1>1, <1>2, <1>4, WorldStep

\* Renaming, deleting and changing what rows belong to add no row.
LEMMA EditInv ==
    ASSUME Inv, \/ \E r \in Row, i \in DOMAIN rows : Rename(i, r)
                \/ \E i \in DOMAIN rows : Delete(i)
                \/ \E x \in Context \cup Parent, s \in ContextState : Affect(x, s)
    PROVE  Inv'
<1>1. /\ edits' = edits + 1 /\ edits < MaxEdits /\ born' = born
      /\ UNCHANGED <<issued, wire, made, callVars>>
    BY DEF Rename, Delete, Affect, Edits
<1>2. edits' \in 0..MaxEdits /\ born' >= born
    BY <1>1, BoundAssumption DEF Inv, TypeOK
<1>3. DOMAIN rows' \subseteq DOMAIN rows /\ \A i \in DOMAIN rows' : rows'[i] \in Row
    BY DEF Rename, Delete, Affect, Inv, TypeOK
<1>4. state' \in [Context \cup Parent -> ContextState] /\ shifted' \subseteq Call
    BY DEF Rename, Delete, Affect, Inv, TypeOK
<1>5. fresh' \in [Call -> SUBSET Id]
    <2>1. ASSUME NEW i \in DOMAIN rows, NEW r \in Row, Rename(i, r) PROVE fresh' \in [Call -> SUBSET Id]
        <3>1. i \in 1..born /\ born \in 0..MaxRow /\ MaxRow \in Nat
            BY BoundAssumption DEF Inv, TypeOK
        <3>2. i \in Id
            BY <3>1 DEF Id
        <3>. QED
            BY <2>1, <3>2 DEF Rename, Refresh, Inv, TypeOK
    <2>2. ASSUME NEW i \in DOMAIN rows, Delete(i) PROVE fresh' \in [Call -> SUBSET Id]
        BY <2>2 DEF Delete, Inv, TypeOK
    <2>3. ASSUME NEW x, NEW s, Affect(x, s) PROVE fresh' \in [Call -> SUBSET Id]
        BY <2>3 DEF Affect, Inv, TypeOK
    <2>. QED
        BY <2>1, <2>2, <2>3
<1>6. TypeOK'
    BY <1>1, <1>2, <1>3, <1>4, <1>5 DEF Inv, TypeOK, callVars
<1>. QED
    BY <1>1, <1>2, <1>6, WorldStep

---------------------------------------------------------------------------
(* Every step *)

LEMMA InitInv == Init => Inv
<1>. SUFFICES ASSUME Init PROVE Inv
    OBVIOUS
<1>1. TypeOK
    BY BoundAssumption DEF Init, TypeOK, ContextState, Facts
<1>2. \A c \in Call : PhaseInv(c) /\ FoundInv(c) /\ WriteInv(c)
    BY DEF Init, PhaseInv, FoundInv, WriteInv
<1>3. IssuedInv /\ AnswersSettleWrites
    BY DEF Init, IssuedInv, AnswersSettleWrites
<1>. QED
    BY <1>1, <1>2, <1>3 DEF Inv

LEMMA NextInv == Inv /\ [Next]_vars => Inv'
<1>. SUFFICES ASSUME Inv, [Next]_vars PROVE Inv'
    OBVIOUS
<1>1. ASSUME NEW c \in Call, Invoke(c) \/ Step(c) PROVE Inv'
    BY <1>1, InvokeInv, ReadInv, NextPageInv, LimitReachedInv, PreviewInv, SendCreateInv,
       LaterStepsInv DEF Step
<1>2. ASSUME NEW c \in Call, Persist(c) \/ Refuse(c) PROVE Inv'
    BY <1>2, PersistInv, RefuseInv
<1>3. ASSUME NEW r \in Row, Insert(r) PROVE Inv'
    BY <1>3, InsertInv
<1>4. CASE UNCHANGED vars
    <2>1. TypeOK' /\ UNCHANGED <<issued, callVars, wire, born>>
        BY <1>4 DEF vars, Inv, TypeOK, callVars
    <2>2. born' >= born
        BY <2>1, BoundAssumption DEF Inv, TypeOK
    <2>. QED
        BY <2>1, <2>2, WorldStep
<1>. QED
    BY <1>1, <1>2, <1>3, <1>4, EditInv DEF Next

THEOREM Invariance == Spec => []Inv
BY InitInv, NextInv, PTL DEF Spec

---------------------------------------------------------------------------
(* What is claimed *)

\* The listing stays within its bound of pages, and ids, phases and answers are what
\* the code gives them.
THEOREM TypeCorrect == Spec => []TypeOK
BY Invariance, PTL DEF Inv

\* sales.py, tasks.py: nothing was sent for a preview, a rejection or a conflict, and a
\* record whose id is reported was created.
THEOREM AnswersSettle == Spec => []AnswersSettleWrites
BY Invariance, PTL DEF Inv

\* _confirmation_token, _confirmed: what is created was previewed, next to the same
\* contexts and the same duplicates.
THEOREM WritesPreviewed == Spec => []WritesWerePreviewed
<1>1. Inv => WritesWerePreviewed
    <2>. SUFFICES ASSUME Inv, NEW c \in Call, wire[c] # "none"
                  PROVE  \E d \in Call : /\ answer[d] = "preview" /\ request[d] = request[c]
                                         /\ facts[d] = facts[c] /\ found[d] = found[c]
        BY DEF WritesWerePreviewed
    <2>1. /\ given[c] = [request |-> request[c], facts |-> facts[c], duplicates |-> found[c]]
          /\ given[c] \in issued
        BY DEF Inv, WriteInv
    <2>2. PICK d \in Call :
            /\ answer[d] = "preview"
            /\ given[c] = [request |-> request[d], facts |-> facts[d], duplicates |-> found[d]]
        BY <2>1 DEF Inv, IssuedInv
    <2>3. request[d] = request[c] /\ facts[d] = facts[c] /\ found[d] = found[c]
        BY <2>1, <2>2
    <2>. QED
        BY <2>2, <2>3
<1>. QED
    BY <1>1, Invariance, PTL

\* An executed create is one duplicate more than its token knows of.
LEMMA PersistSpends == Inv /\ [Next]_vars => PersistSpendsToken
<1>. SUFFICES ASSUME Inv, [Next]_vars, NEW c \in Call,
                     wire[c] = "flying", wire'[c] = "persisted"
              PROVE  {i \in DOMAIN rows' : Same(request[c], rows'[i])} # given[c].duplicates
    BY DEF PersistSpendsToken
<1>1. Persist(c)
    <2>1. ASSUME NEW d \in Call, Invoke(d) \/ Step(d) PROVE FALSE
        BY <2>1 DEF Invoke, Step, ReadContext, ReadParent, Reject, NextPage, LimitReached, Preview,
            Conflict, SendCreate, CreateReturns, Reread, RereadFails, CallFails, worldVars, Inv,
            TypeOK
    <2>2. ASSUME NEW d \in Call, Persist(d) \/ Refuse(d) PROVE Persist(c)
        BY <2>2 DEF Persist, Refuse, Inv, TypeOK
    <2>3. ASSUME UNCHANGED wire PROVE FALSE
        BY <2>3
    <2>. QED
        BY <2>1, <2>2, <2>3 DEF Next, vars, Insert, Rename, Delete, Affect, Edits
<1>2. request[c] \in Request /\ request[c].row \in Row
    BY DEF Inv, PhaseInv, Request
<1>3. AddRow(request[c].row)
    BY <1>1 DEF Persist
<1>4. born + 1 \in DOMAIN rows' /\ rows'[born + 1] = request[c].row
    BY <1>2, <1>3, AddRowTypes DEF Inv
<1>5. Same(request[c], request[c].row)
    BY DEF Same
<1>6. given[c].duplicates = found[c] /\ found[c] \subseteq 1..born /\ born \in Nat
    BY BoundAssumption DEF Inv, WriteInv, FoundInv, TypeOK
<1>7. born + 1 \notin given[c].duplicates
    BY <1>6
<1>. QED
    BY <1>4, <1>5, <1>7

\* _confirmed: repeating a confirmed create, as after a timeout, does not create twice
\* as long as the first record is there.
THEOREM TokensSpent == Spec => TokensAreSpent
BY PersistSpends, Invariance, PTL DEF Spec, TokensAreSpent

---------------------------------------------------------------------------
(* Duplicates *)

\* Rows of the listing that a call has not asked for yet.
Ahead(c, i) == page[c] * PageSize < Rank(Listed(request[c]), i)

\* While a call lists, a duplicate was found, is new or is still ahead; when its create
\* is on its way, none is ahead.
ListInv(c) ==
    /\ pc[c] \in {"idle", "context", "parent"} => page[c] = 0
    /\ (pc[c] = "list" /\ request[c].row.kind # "task" /\ c \notin shifted) =>
        \A i \in DOMAIN rows : Same(request[c], rows[i]) =>
            i \in found[c] \cup fresh[c] \/ Ahead(c, i)
    /\ wire[c] = "flying" =>
        \A i \in DOMAIN rows : Same(request[c], rows[i]) =>
            i \in found[c] \cup fresh[c] \/ (c \in shifted /\ request[c].row.kind # "task")

\* A duplicate is one of the rows that the call lists.
LEMMA DuplicatesListed ==
    ASSUME TypeOK, NEW q \in Request, NEW i \in DOMAIN rows, Same(q, rows[i])
    PROVE  i \in Listed(q)
<1>1. q.row.kind \in {"thirdparty", "lead", "project", "task"}
    BY KindAssumption DEF Request, Row
<1>. QED
    BY <1>1 DEF Listed, Same

LEMMA ListedType ==
    ASSUME TypeOK, NEW q \in Request
    PROVE  Listed(q) \in SUBSET (1..born) /\ born \in Nat
<1>1. DOMAIN rows \subseteq 1..born /\ born \in Nat
    BY BoundAssumption DEF TypeOK
<1>2. Listed(q) \subseteq DOMAIN rows
    BY DEF Listed
<1>. QED
    BY <1>1, <1>2

\* Before the first page, everything is ahead.
LEMMA AllAhead ==
    ASSUME TypeOK, NEW c \in Call, request[c] \in Request, page[c] = 0,
           NEW i \in DOMAIN rows, Same(request[c], rows[i])
    PROVE  Ahead(c, i)
<1>1. i \in Listed(request[c]) /\ Listed(request[c]) \in SUBSET (1..born) /\ born \in Nat
    BY DuplicatesListed, ListedType
<1>. QED
    BY <1>1, RankPositive DEF Ahead

\* The duplicates ahead are on the next page, or behind it; behind the last page is nothing.
LEMMA PageFinds ==
    ASSUME TypeOK, NEW c \in Call, request[c] \in Request, request[c].row.kind # "task",
           NEW i \in DOMAIN rows, Same(request[c], rows[i]), Ahead(c, i)
    PROVE  /\ i \in Duplicates(c) \/ (page[c] + 1) * PageSize < Rank(Listed(request[c]), i)
           /\ Last(c) => i \in Duplicates(c)
<1>. DEFINE T == Listed(request[c])
<1>1. i \in T /\ T \in SUBSET (1..born) /\ born \in Nat
    BY DuplicatesListed, ListedType
<1>2. Rank(T, i) \in Nat
    BY <1>1, RankType
<1>3. page[c] \in Nat /\ (page[c] + 1) * PageSize \in Nat
    BY PageSizeAssumption, BoundAssumption DEF TypeOK
<1>4. Current(c) = PageOf(T, page[c])
    BY DEF Current
<1>5. Rank(T, i) <= (page[c] + 1) * PageSize => i \in Duplicates(c)
    BY <1>1, <1>4 DEF PageOf, Ahead, Duplicates
<1>6. Last(c) => Rank(T, i) <= (page[c] + 1) * PageSize
    BY <1>1, <1>3, <1>4, PageCardinality DEF Last
<1>. HIDE DEF T
<1>. QED
    BY <1>2, <1>3, <1>5, <1>6 DEF T

\* A task's duplicates all come in one response.
LEMMA TaskFinds ==
    ASSUME TypeOK, NEW c \in Call, request[c] \in Request, request[c].row.kind = "task",
           NEW i \in DOMAIN rows, Same(request[c], rows[i])
    PROVE  i \in Duplicates(c)
BY DuplicatesListed DEF Duplicates, Current

LEMMA CallLists ==
    ASSUME Inv, NEW c \in Call, ListInv(c), NEW d \in Call, Invoke(d) \/ Step(d)
    PROVE  ListInv(c)'
<1>1. UNCHANGED <<rows, born, fresh, shifted>>
    BY DEF Invoke, Step, ReadContext, ReadParent, Reject, NextPage, LimitReached, Preview,
       Conflict, SendCreate, CreateReturns, Reread, RereadFails, CallFails, worldVars
<1>2. CASE d # c
    <2>1. /\ pc'[c] = pc[c] /\ request'[c] = request[c] /\ page'[c] = page[c]
          /\ found'[c] = found[c] /\ wire'[c] = wire[c]
        BY <1>2 DEF Invoke, Step, ReadContext, ReadParent, Reject, NextPage, LimitReached, Preview,
           Conflict, SendCreate, CreateReturns, Reread, RereadFails, CallFails, worldVars,
           ListingEnds, Finish, Inv, TypeOK
    <2>. QED
        BY <1>1, <2>1 DEF ListInv, Ahead, Same, Listed
<1>3. CASE d = c /\ (Invoke(c) \/ ReadContext(c) \/ ReadParent(c))
    <2>1. /\ page'[c] = 0 /\ page[c] = 0 /\ wire'[c] # "flying"
          /\ pc'[c] # "idle"
        BY <1>3 DEF Invoke, ReadContext, ReadParent, worldVars, Inv, TypeOK, PhaseInv, ListInv
    <2>2. Inv'
        BY <1>3, InvokeInv, ReadInv
    <2>3. ASSUME NEW i \in DOMAIN rows', Same(request[c], rows[i])', pc'[c] = "list"
          PROVE  Ahead(c, i)'
        <3>1. TypeOK' /\ request'[c] \in Request
            BY <2>2, <2>3 DEF Inv, PhaseInv
        <3>2. i \in Listed(request[c])'
            <4>1. request'[c].row.kind \in {"thirdparty", "lead", "project", "task"}
                BY <3>1, KindAssumption DEF Request, Row
            <4>. QED
                BY <2>3, <4>1 DEF Listed, Same
        <3>3. Listed(request[c])' \in SUBSET (1..born') /\ born' \in Nat
            <4>1. DOMAIN rows' \subseteq 1..born' /\ born' \in Nat
                BY <3>1, BoundAssumption DEF TypeOK
            <4>2. Listed(request[c])' \subseteq DOMAIN rows'
                BY DEF Listed
            <4>. QED
                BY <4>1, <4>2
        <3>. DEFINE T == Listed(request[c])'
        <3>. HIDE DEF T
        <3>4. 0 * PageSize < Rank(T, i)
            BY <3>2, <3>3, RankPositive DEF T
        <3>. QED
            BY <2>1, <3>4 DEF Ahead, T, Rank
    <2>. QED
        BY <2>1, <2>3 DEF ListInv
<1>4. CASE d = c /\ NextPage(c)
    <2>1. /\ pc[c] = "list" /\ request[c].row.kind # "task" /\ UNCHANGED <<pc, request, wire>>
          /\ page'[c] = page[c] + 1 /\ found'[c] = Duplicates(c) /\ wire[c] = "none"
          /\ request[c] \in Request
        BY <1>4 DEF NextPage, worldVars, Inv, TypeOK, PhaseInv
    <2>2. ASSUME NEW i \in DOMAIN rows, Same(request[c], rows[i]), c \notin shifted
          PROVE  i \in found'[c] \cup fresh[c] \/ (page[c] + 1) * PageSize < Rank(Listed(request[c]), i)
        <3>1. i \in found[c] \cup fresh[c] \/ Ahead(c, i)
            BY <2>1, <2>2 DEF ListInv
        <3>2. found[c] \subseteq Duplicates(c)
            BY DEF Duplicates
        <3>. QED
            BY <2>1, <2>2, <3>1, <3>2, PageFinds DEF Inv
    <2>3. \A i : Rank(Listed(request[c]), i)' = Rank(Listed(request[c]), i)
        BY <1>1, <2>1 DEF Rank, Listed
    <2>. QED
        BY <1>1, <2>1, <2>2, <2>3 DEF ListInv, Ahead, Same
<1>5. CASE d = c /\ SendCreate(c)
    <2>1. /\ pc[c] = "list" /\ Last(c) /\ pc'[c] = "post" /\ request' = request
          /\ found'[c] = Duplicates(c) /\ request[c] \in Request
        BY <1>5 DEF SendCreate, ListingEnds, Inv, TypeOK, PhaseInv
    <2>2. ASSUME NEW i \in DOMAIN rows, Same(request[c], rows[i])
          PROVE  i \in found'[c] \cup fresh[c] \/ (c \in shifted /\ request[c].row.kind # "task")
        <3>1. CASE request[c].row.kind = "task"
            BY <2>1, <2>2, <3>1, TaskFinds DEF Inv
        <3>2. CASE request[c].row.kind # "task" /\ c \notin shifted
            <4>1. i \in found[c] \cup fresh[c] \/ Ahead(c, i)
                BY <2>1, <2>2, <3>2 DEF ListInv
            <4>2. found[c] \subseteq Duplicates(c)
                BY DEF Duplicates
            <4>. QED
                BY <2>1, <2>2, <3>2, <4>1, <4>2, PageFinds DEF Inv
        <3>. QED
            BY <3>1, <3>2
    <2>. QED
        BY <1>1, <2>1, <2>2 DEF ListInv, Same
<1>6. CASE d = c /\ (\/ Reject(c) \/ LimitReached(c) \/ Preview(c) \/ Conflict(c)
                    \/ CreateReturns(c) \/ Reread(c) \/ RereadFails(c) \/ CallFails(c))
    <2>1. /\ pc'[c] \in {"reread", "done"} /\ UNCHANGED <<request, wire>>
          /\ wire[c] = "flying" => found'[c] = found[c]
        BY <1>6 DEF Reject, LimitReached, Preview, Conflict, CreateReturns, Reread, RereadFails,
           CallFails, ListingEnds, Finish, worldVars, Inv, TypeOK, PhaseInv
    <2>. QED
        BY <1>1, <2>1 DEF ListInv, Same
<1>. QED
    BY <1>2, <1>3, <1>4, <1>5, <1>6 DEF Step

\* What Dolibarr and others do to the table adds to fresh what may be a new duplicate.
LEMMA WorldLists ==
    ASSUME Inv, NEW c \in Call, ListInv(c), UNCHANGED callVars,
           wire'[c] = "flying" => wire[c] = "flying",
           shifted \subseteq shifted', fresh[c] \subseteq fresh'[c],
           c \in Listing => \A i \in DOMAIN rows' :
                (i \in DOMAIN rows /\ rows'[i] = rows[i]) \/ i \in fresh'[c],
           (pc[c] = "list" /\ c \notin shifted') =>
                \A i \in Listed(request[c]) \cap Listed(request[c])' : Ahead(c, i) => Ahead(c, i)'
    PROVE  ListInv(c)'
<1>1. /\ pc' = pc /\ request' = request /\ page' = page /\ found' = found
    BY DEF callVars
<1>2. ASSUME pc[c] = "list", request[c].row.kind # "task", c \notin shifted',
             NEW i \in DOMAIN rows', Same(request[c], rows'[i])
      PROVE  i \in found[c] \cup fresh'[c] \/ Ahead(c, i)'
    <2>1. CASE i \in DOMAIN rows /\ rows'[i] = rows[i]
        <3>1. i \in Listed(request[c]) /\ request[c] \in Request
            BY <1>2, <2>1, DuplicatesListed DEF Inv, PhaseInv
        <3>2. i \in Listed(request[c])'
            BY <1>1, <2>1, <3>1 DEF Listed
        <3>. QED
            BY <1>2, <2>1, <3>1, <3>2 DEF ListInv
    <2>. QED
        BY <1>2, <2>1 DEF Listing
<1>3. ASSUME wire'[c] = "flying", NEW i \in DOMAIN rows', Same(request[c], rows'[i])
      PROVE  i \in found[c] \cup fresh'[c] \/ (c \in shifted' /\ request[c].row.kind # "task")
    BY <1>3 DEF ListInv, Listing
<1>. QED
    BY <1>1, <1>2, <1>3 DEF ListInv, Same

LEMMA AddRowLists ==
    ASSUME Inv, NEW c \in Call, ListInv(c), NEW r \in Row, AddRow(r), UNCHANGED <<callVars, shifted>>,
           wire'[c] = "flying" => wire[c] = "flying"
    PROVE  ListInv(c)'
<1>1. /\ DOMAIN rows' = DOMAIN rows \cup {born + 1}
      /\ \A i \in DOMAIN rows : rows'[i] = rows[i]
      /\ fresh' = [d \in Call |-> IF d \in Listing THEN fresh[d] \cup {born + 1} ELSE fresh[d]]
      /\ request' = request /\ page' = page
    <2>1. born + 1 \notin DOMAIN rows
        BY BoundAssumption DEF Inv, TypeOK
    <2>. QED
        BY <2>1 DEF AddRow, Refresh, callVars
<1>. DEFINE T == Listed(request[c])
            T2 == Listed(request[c])'
<1>2. ASSUME pc[c] = "list", NEW i \in T \cap T2, Ahead(c, i) PROVE Ahead(c, i)'
    <2>1. T \in SUBSET (1..born) /\ born \in Nat
        BY <1>2, ListedType DEF Inv, PhaseInv
    <2>2. T2 = T \/ T2 = T \cup {born + 1}
        BY <1>1 DEF Listed
    <2>. HIDE DEF T, T2
    <2>3. Rank(T2, i) = Rank(T, i)
        BY <2>1, <2>2, RankInsert
    <2>. QED
        BY <1>1, <1>2, <2>3 DEF Ahead, T, T2, Rank
<1>. QED
    BY <1>1, <1>2, WorldLists

LEMMA EditLists ==
    ASSUME Inv, NEW c \in Call, ListInv(c),
           \/ \E r \in Row, i \in DOMAIN rows : Rename(i, r)
           \/ \E x \in Context \cup Parent, s \in ContextState : Affect(x, s)
    PROVE  ListInv(c)'
<1>1. UNCHANGED <<callVars, shifted, wire>>
    BY DEF Rename, Affect, Edits
<1>2. request' = request /\ page' = page
    BY <1>1 DEF callVars
<1>3. Listed(request[c])' = Listed(request[c])
    BY <1>2 DEF Rename, Affect, Listed
<1>4. \A i : Ahead(c, i)' <=> Ahead(c, i)
    BY <1>2, <1>3 DEF Ahead, Rank
<1>5. fresh[c] \subseteq fresh'[c]
    BY DEF Rename, Affect, Refresh, Inv, TypeOK
<1>6. c \in Listing => \A i \in DOMAIN rows' :
            (i \in DOMAIN rows /\ rows'[i] = rows[i]) \/ i \in fresh'[c]
    BY DEF Rename, Affect, Refresh, Inv, TypeOK
<1>. QED
    BY <1>1, <1>4, <1>5, <1>6, WorldLists

LEMMA DeleteLists ==
    ASSUME Inv, NEW c \in Call, ListInv(c), NEW d \in DOMAIN rows, Delete(d)
    PROVE  ListInv(c)'
<1>1. /\ UNCHANGED <<callVars, fresh, wire>>
      /\ rows' = [j \in DOMAIN rows \ {d} |-> rows[j]]
      /\ shifted \subseteq shifted'
      /\ pc[c] = "list" /\ c \notin shifted' => ~ (page[c] > 0)
    BY DEF Delete, Edits
<1>2. request' = request /\ page' = page
    BY <1>1 DEF callVars
<1>. DEFINE T == Listed(request[c])
            T2 == Listed(request[c])'
<1>3. ASSUME pc[c] = "list", c \notin shifted', NEW i \in T \cap T2 PROVE Ahead(c, i)'
    <2>1. T \in SUBSET (1..born) /\ born \in Nat
        BY <1>3, ListedType DEF Inv, PhaseInv
    <2>2. T2 \subseteq T
        BY <1>1, <1>2 DEF Listed
    <2>3. page[c] = 0
        BY <1>1, <1>3, BoundAssumption DEF Inv, TypeOK
    <2>. HIDE DEF T, T2
    <2>4. 0 * PageSize < Rank(T2, i)
        BY <1>3, <2>1, <2>2, RankPositive
    <2>. QED
        BY <1>2, <2>3, <2>4 DEF Ahead, T2, Rank
<1>. QED
    BY <1>1, <1>3, WorldLists

LEMMA IdleLists ==
    ASSUME NEW c \in Call, ListInv(c), UNCHANGED <<rows, fresh, shifted, pc, request, page, found>>,
           wire'[c] = "flying" => wire[c] = "flying"
    PROVE  ListInv(c)'
<1>1. Listed(request[c])' = Listed(request[c])
    BY DEF Listed
<1>2. \A i : Ahead(c, i)' <=> Ahead(c, i)
    BY <1>1 DEF Ahead, Rank
<1>. QED
    BY <1>2 DEF ListInv, Same

LEMMA ListInvStep ==
    ASSUME Inv, \A c \in Call : ListInv(c), [Next]_vars
    PROVE  \A c \in Call : ListInv(c)'
<1>. SUFFICES ASSUME NEW c \in Call PROVE ListInv(c)'
    OBVIOUS
<1>1. ASSUME NEW d \in Call, Invoke(d) \/ Step(d) PROVE ListInv(c)'
    BY <1>1, CallLists
<1>2. ASSUME NEW d \in Call, Persist(d) PROVE ListInv(c)'
    <2>1. request[d].row \in Row
        BY <1>2 DEF Persist, Inv, TypeOK, PhaseInv, Request
    <2>2. AddRow(request[d].row) /\ UNCHANGED <<callVars, shifted>>
        BY <1>2 DEF Persist
    <2>3. wire'[c] = "flying" => wire[c] = "flying"
        BY <1>2 DEF Persist, Inv, TypeOK
    <2>. QED
        BY <2>1, <2>2, <2>3, AddRowLists
<1>3. ASSUME NEW d \in Call, Refuse(d) PROVE ListInv(c)'
    <2>1. UNCHANGED <<rows, fresh, shifted, pc, request, page, found>>
        BY <1>3 DEF Refuse, callVars
    <2>2. wire'[c] = "flying" => wire[c] = "flying"
        BY <1>3 DEF Refuse, Inv, TypeOK
    <2>. QED
        BY <2>1, <2>2, IdleLists
<1>4. ASSUME NEW r \in Row, Insert(r) PROVE ListInv(c)'
    BY <1>4, AddRowLists DEF Insert, Edits
<1>5. CASE UNCHANGED vars
    BY <1>5, IdleLists DEF vars
<1>. QED
    BY <1>1, <1>2, <1>3, <1>4, <1>5, EditLists, DeleteLists DEF Next

\* _find_duplicates, _projects, TaskService._list: a create on its way has no duplicate
\* that the call could have found and did not.
THEOREM DuplicatesFound == Spec => []DuplicatesWereFound
<1>. DEFINE AllLists == \A c \in Call : ListInv(c)
<1>1. Init => AllLists
    BY DEF Init, ListInv
<1>2. Inv /\ AllLists /\ [Next]_vars => AllLists'
    BY ListInvStep
<1>3. AllLists => DuplicatesWereFound
    BY DEF ListInv, DuplicatesWereFound
<1>. QED
    BY <1>1, <1>2, <1>3, Invariance, PTL DEF Spec

---------------------------------------------------------------------------
(* Two creates of one preview *)

\* A created row is none of the duplicates of its call; as long as nobody else edits,
\* it stays as it was asked for and no listing is shifted.
RaceInv ==
    /\ edits = 0 => shifted = {}
    /\ \A c \in Call : wire[c] = "persisted" =>
        /\ made[c] \in 1..born /\ made[c] \notin found[c]
        /\ edits = 0 => made[c] \in DOMAIN rows /\ rows[made[c]] = request[c].row

LEMMA RaceInvStep ==
    ASSUME Inv, RaceInv, [Next]_vars
    PROVE  RaceInv'
<1>. USE DEF RaceInv
<1>0. born \in Nat /\ edits \in Nat
    BY BoundAssumption DEF Inv, TypeOK
<1>1. ASSUME NEW d \in Call, Invoke(d) \/ Step(d) PROVE RaceInv'
    <2>1. UNCHANGED <<rows, born, edits, made, shifted>>
        BY <1>1 DEF Invoke, Step, ReadContext, ReadParent, Reject, NextPage, LimitReached, Preview,
           Conflict, SendCreate, CreateReturns, Reread, RereadFails, CallFails, worldVars
    <2>2. ASSUME NEW c \in Call, wire'[c] = "persisted"
          PROVE  wire[c] = "persisted" /\ request'[c] = request[c] /\ found'[c] = found[c]
        <3>1. wire[c] = "persisted"
            BY <1>1, <2>2 DEF Invoke, Step, ReadContext, ReadParent, Reject, NextPage, LimitReached, Preview,
               Conflict, SendCreate, CreateReturns, Reread, RereadFails, CallFails, worldVars, Inv, TypeOK
        <3>2. pc[c] \notin {"idle", "list"}
            BY <3>1 DEF Inv, PhaseInv
        <3>. QED
            BY <1>1, <3>1, <3>2 DEF Invoke, Step, ReadContext, ReadParent, Reject, NextPage, LimitReached,
               Preview, Conflict, SendCreate, ListingEnds, CreateReturns, Reread, RereadFails, CallFails,
               Inv, TypeOK
    <2>. QED
        BY <2>1, <2>2
<1>2. ASSUME NEW d \in Call, Persist(d) PROVE RaceInv'
    <2>1. /\ request[d].row \in Row /\ found[d] \subseteq 1..born /\ AddRow(request[d].row)
          /\ UNCHANGED <<edits, shifted, request, found>>
        BY <1>2 DEF Persist, Inv, PhaseInv, Request, FoundInv, callVars
    <2>2. /\ born' = born + 1 /\ DOMAIN rows' = DOMAIN rows \cup {born + 1}
          /\ rows'[born + 1] = request[d].row
        BY <2>1, AddRowTypes DEF Inv
    <2>3. \A i \in DOMAIN rows : rows'[i] = rows[i]
        BY <1>0, <2>1 DEF AddRow, Inv, TypeOK
    <2>4. made'[d] = born + 1 /\ \A c \in Call \ {d} : made'[c] = made[c] /\ wire'[c] = wire[c]
        BY <1>2 DEF Persist, Inv, TypeOK
    <2>5. born + 1 \notin found[d] /\ born + 1 \in 1..born' /\ 1..born \subseteq 1..born'
        BY <1>0, <2>1, <2>2
    <2>. QED
        BY <2>1, <2>2, <2>3, <2>4, <2>5
<1>3. ASSUME NEW d \in Call, Refuse(d) PROVE RaceInv'
    BY <1>3 DEF Refuse, callVars, Inv, TypeOK
<1>4. ASSUME Edits, born' >= born, born' \in Nat PROVE RaceInv'
    <2>1. edits' # 0
        BY <1>0, <1>4 DEF Edits
    <2>2. 1..born \subseteq 1..born'
        BY <1>0, <1>4
    <2>. QED
        BY <1>4, <2>1, <2>2 DEF Edits, callVars
<1>5. ASSUME NEW r \in Row, Insert(r) PROVE RaceInv'
    <2>1. Edits /\ born' = born + 1
        BY <1>5 DEF Insert, AddRow
    <2>. QED
        BY <1>0, <1>4, <2>1
<1>6. ASSUME \/ \E r, i : Rename(i, r)
             \/ \E i : Delete(i)
             \/ \E x, s : Affect(x, s)
      PROVE  RaceInv'
    <2>1. Edits /\ born' = born
        BY <1>6 DEF Rename, Delete, Affect
    <2>. QED
        BY <1>0, <1>4, <2>1
<1>7. CASE UNCHANGED vars
    BY <1>7 DEF vars
<1>. QED
    BY <1>1, <1>2, <1>3, <1>5, <1>6, <1>7 DEF Next

\* When a create is executed, a record that the same token created before is new to it.
LEMMA RacesFresh ==
    ASSUME Inv, RaceInv, DuplicatesWereFound, CreatedTwiceOnlyByRace, [Next]_vars
    PROVE  CreatedTwiceOnlyByRace'
<1>. SUFFICES ASSUME NEW c \in Call, NEW d \in Call, c # d, wire'[c] = "persisted",
                     wire'[d] = "persisted", given'[c] = given'[d], ~ (edits' > 0)
              PROVE  made'[c] \in fresh'[d] \/ made'[d] \in fresh'[c]
    BY DEF CreatedTwiceOnlyByRace
<1>0. edits \in Nat
    BY BoundAssumption DEF Inv, TypeOK
<1>1. ASSUME wire'[c] = wire[c], wire'[d] = wire[d], made' = made, UNCHANGED edits,
             \A e \in {c, d} : given'[e] = given[e] /\ fresh[e] \subseteq fresh'[e]
      PROVE  made'[c] \in fresh'[d] \/ made'[d] \in fresh'[c]
    BY <1>1 DEF CreatedTwiceOnlyByRace
<1>2. ASSUME NEW e \in Call, Invoke(e) \/ Step(e)
      PROVE  made'[c] \in fresh'[d] \/ made'[d] \in fresh'[c]
    <2>1. UNCHANGED <<edits, made, fresh>>
        BY <1>2 DEF Invoke, Step, ReadContext, ReadParent, Reject, NextPage, LimitReached, Preview,
           Conflict, SendCreate, CreateReturns, Reread, RereadFails, CallFails, worldVars
    <2>2. \A a \in {c, d} : wire'[a] = wire[a]
        BY <1>2 DEF Invoke, Step, ReadContext, ReadParent, Reject, NextPage, LimitReached, Preview,
           Conflict, SendCreate, CreateReturns, Reread, RereadFails, CallFails, worldVars, Inv, TypeOK
    <2>3. pc[c] # "idle" /\ pc[d] # "idle"
        BY <2>2 DEF Inv, PhaseInv
    <2>4. \A a \in {c, d} : given'[a] = given[a]
        BY <1>2, <2>3 DEF Invoke, Step, ReadContext, ReadParent, Reject, NextPage, LimitReached, Preview,
           Conflict, SendCreate, ListingEnds, CreateReturns, Reread, RereadFails, CallFails, Inv, TypeOK
    <2>. QED
        BY <1>1, <2>1, <2>2, <2>4
<1>3. ASSUME NEW a \in Call, NEW b \in Call, a # b, Persist(a), wire'[b] = "persisted",
             given[a] = given[b]
      PROVE  made'[b] \in fresh'[a]
    <2>1. wire[a] = "flying" /\ wire[b] = "persisted" /\ made'[b] = made[b] /\ edits = 0
        BY <1>0, <1>3 DEF Persist, Inv, TypeOK
    <2>2. request[a] = request[b] /\ found[a] = found[b]
        <3>1. /\ given[a] = [request |-> request[a], facts |-> facts[a], duplicates |-> found[a]]
              /\ given[b] = [request |-> request[b], facts |-> facts[b], duplicates |-> found[b]]
            BY <2>1 DEF Inv, WriteInv
        <3>2. given[a].request = given[b].request /\ given[a].duplicates = given[b].duplicates
            BY <1>3
        <3>. QED
            BY <3>1, <3>2
    <2>3. /\ made[b] \in DOMAIN rows /\ rows[made[b]] = request[a].row /\ made[b] \notin found[a]
          /\ shifted = {}
        BY <2>1, <2>2 DEF RaceInv
    <2>4. Same(request[a], rows[made[b]])
        BY <2>3 DEF Same
    <2>5. made[b] \in fresh[a]
        BY <2>1, <2>3, <2>4 DEF DuplicatesWereFound
    <2>6. fresh[a] \subseteq fresh'[a]
        BY <1>3 DEF Persist, AddRow, Refresh
    <2>. QED
        BY <2>1, <2>5, <2>6
<1>4. ASSUME NEW e \in Call, Persist(e)
      PROVE  made'[c] \in fresh'[d] \/ made'[d] \in fresh'[c]
    <2>1. given' = given /\ edits' = edits /\ \A x \in Call : fresh[x] \subseteq fresh'[x]
        BY <1>4 DEF Persist, callVars, AddRow, Refresh
    <2>2. CASE e = c \/ e = d
        BY <1>3, <1>4, <2>1, <2>2
    <2>3. CASE e # c /\ e # d
        <3>1. /\ wire'[c] = wire[c] /\ wire'[d] = wire[d]
              /\ made'[c] = made[c] /\ made'[d] = made[d]
            BY <1>4, <2>3 DEF Persist, Inv, TypeOK
        <3>2. made[c] \in fresh[d] \/ made[d] \in fresh[c]
            BY <2>1, <3>1 DEF CreatedTwiceOnlyByRace
        <3>. QED
            BY <2>1, <3>1, <3>2
    <2>. QED
        BY <2>2, <2>3
<1>5. ASSUME NEW e \in Call, Refuse(e)
      PROVE  made'[c] \in fresh'[d] \/ made'[d] \in fresh'[c]
    <2>1. UNCHANGED <<edits, made, fresh, given>> /\ wire'[c] = wire[c] /\ wire'[d] = wire[d]
        BY <1>5 DEF Refuse, callVars, Inv, TypeOK
    <2>. QED
        BY <1>1, <2>1
<1>6. ASSUME Edits PROVE FALSE
    BY <1>0, <1>6 DEF Edits
<1>7. CASE UNCHANGED vars
    BY <1>1, <1>7 DEF vars
<1>. QED
    BY <1>2, <1>4, <1>5, <1>6, <1>7 DEF Next, Insert, Rename, Delete, Affect

\* sales.py, tasks.py: nothing serialises two calls with one token, but two records come
\* only of calls that were under way together, or of edits by others.
THEOREM CreatedTwice == Spec => []CreatedTwiceOnlyByRace
<1>1. Init => RaceInv /\ CreatedTwiceOnlyByRace
    BY DEF Init, RaceInv, CreatedTwiceOnlyByRace
<1>2. Inv /\ RaceInv /\ [Next]_vars => RaceInv'
    BY RaceInvStep
<1>3. /\ Inv /\ RaceInv /\ DuplicatesWereFound /\ CreatedTwiceOnlyByRace /\ [Next]_vars
      => CreatedTwiceOnlyByRace'
    BY RacesFresh
<1>. QED
    BY <1>1, <1>2, <1>3, Invariance, DuplicatesFound, PTL DEF Spec

---------------------------------------------------------------------------
(* A create is one of the mutations that ConfirmedWrite describes *)

Store == [i \in Id |-> IF i \in DOMAIN rows THEN rows[i] ELSE Nil]
Previews == {PreviewOf(tok.request, tok.duplicates) : tok \in issued}
Auth == [c \in Call |-> IF wire[c] = "flying" THEN {PreviewOf(request[c], found[c])} ELSE {}]
Used == {c \in Call : wire[c] # "none"}

\* A step that leaves rows, tokens and creates alone is a stutter.
LEMMA QuietStep ==
    ASSUME UNCHANGED <<rows, issued, wire>>,
           \A c \in Call : wire[c] = "flying" => request'[c] = request[c] /\ found'[c] = found[c]
    PROVE  UNCHANGED Protocol!vars
<1>1. UNCHANGED <<Store, Previews, Auth, Used>>
    BY DEF Store, Previews, Auth, Used
<1>. QED
    BY <1>1 DEF Protocol!vars, Store, Previews, Auth, Used

\* A step that a call takes before its create is sent, but for a preview.
LEMMA EarlyStep ==
    ASSUME Inv, NEW c \in Call, wire[c] = "none", UNCHANGED <<rows, issued, wire>>,
           \A d \in Call \ {c} : request'[d] = request[d] /\ found'[d] = found[d]
    PROVE  UNCHANGED Protocol!vars
<1>1. \A d \in Call : wire[d] = "flying" => request'[d] = request[d] /\ found'[d] = found[d]
    OBVIOUS
<1>. QED
    BY <1>1, QuietStep

\* A preview shows the arguments with the duplicates.
LEMMA PreviewRefines ==
    ASSUME Inv, NEW c \in Call, Preview(c)
    PROVE  \E t \in Id \cup {Nil}, ch \in Proposal : Protocol!Issue(t, ch)
<1>. DEFINE ch == [request |-> request[c], duplicates |-> Duplicates(c)]
<1>1. /\ pc[c] = "list" /\ issued' = issued \cup {TokenOf(c)}
      /\ found' = [found EXCEPT ![c] = Duplicates(c)]
      /\ UNCHANGED <<rows, wire, request>>
    BY DEF Preview, ListingEnds, worldVars
<1>2. request[c] \in Request /\ wire[c] = "none" /\ Duplicates(c) \subseteq Id
    BY <1>1, FoundRows DEF Inv, PhaseInv
<1>3. ch \in Proposal
    BY <1>2 DEF Proposal
<1>4. Previews' = Previews \cup {<<Nil, ch, Protocol!Shown(Nil)>>}
    <2>1. PreviewOf(TokenOf(c).request, TokenOf(c).duplicates) = <<Nil, ch, Nil>>
        BY DEF PreviewOf, TokenOf
    <2>2. Protocol!Shown(Nil) = Nil
        BY DEF Protocol!Shown
    <2>3. Previews' = Previews \cup {PreviewOf(TokenOf(c).request, TokenOf(c).duplicates)}
        BY <1>1 DEF Previews
    <2>. QED
        BY <2>1, <2>2, <2>3
<1>5. UNCHANGED <<Store, Auth, Used>>
    BY <1>1, <1>2 DEF Store, Auth, Used, Inv, TypeOK
<1>. HIDE DEF ch
<1>6. Protocol!Issue(Nil, ch)
    BY <1>4, <1>5 DEF Protocol!Issue, Store, Previews, Auth, Used
<1>. QED
    BY <1>3, <1>6

\* Sending a create is being authorised by a preview of the same.
LEMMA SendRefines ==
    ASSUME Inv, NEW c \in Call, SendCreate(c)
    PROVE  Protocol!Authorise(c)
<1>. DEFINE p == PreviewOf(request[c], Duplicates(c))
<1>1. /\ pc[c] = "list" /\ given[c] # Nil /\ given[c] = TokenOf(c)
      /\ found' = [found EXCEPT ![c] = Duplicates(c)]
      /\ wire' = [wire EXCEPT ![c] = "flying"]
      /\ UNCHANGED <<rows, issued, request>>
    BY DEF SendCreate, ListingEnds
<1>2. wire[c] = "none" /\ given[c] \in issued
    BY <1>1 DEF Inv, PhaseInv, IssuedInv
<1>3. p \in Previews
    BY <1>1, <1>2 DEF Previews, TokenOf
<1>4. p[3] = Protocol!Shown(p[1])
    BY DEF Protocol!Shown, PreviewOf
<1>5. Auth' = [Auth EXCEPT ![c] = {p}]
    BY <1>1 DEF Auth, Inv, TypeOK
<1>6. c \notin Used /\ Used' = Used \cup {c}
    BY <1>1, <1>2 DEF Used, Inv, TypeOK
<1>7. UNCHANGED <<Store, Previews>>
    BY <1>1 DEF Store, Previews
<1>. HIDE DEF p
<1>. QED
    BY <1>3, <1>4, <1>5, <1>6, <1>7 DEF Protocol!Authorise, Store, Previews, Auth, Used

\* What a create in flight stands for in the protocol, and how it ends.
LEMMA FlightEnds ==
    ASSUME Inv, NEW c \in Call, wire[c] = "flying", NEW w \in {"refused", "persisted"},
           wire' = [wire EXCEPT ![c] = w], UNCHANGED <<issued, request, found>>
    PROVE  /\ Auth[c] = {PreviewOf(request[c], found[c])}
           /\ Auth' = [Auth EXCEPT ![c] = {}]
           /\ UNCHANGED <<Previews, Used>>
BY DEF Auth, Used, Previews, Inv, TypeOK

\* A new row fills the next id, which was free.
LEMMA AddRowStore ==
    ASSUME Inv, NEW r \in Row, AddRow(r)
    PROVE  born + 1 \in Id /\ Store[born + 1] = Nil /\ Store' = [Store EXCEPT ![born + 1] = r]
<1>1. /\ born \in Nat /\ DOMAIN rows \subseteq 1..born /\ born + 1 \in Id
      /\ rows' = [i \in DOMAIN rows \cup {born + 1} |-> IF i = born + 1 THEN r ELSE rows[i]]
    BY AddRowTypes, BoundAssumption DEF AddRow, Inv, TypeOK
<1>2. born + 1 \notin DOMAIN rows
    BY <1>1
<1>. QED
    BY <1>1, <1>2 DEF Store

\* An executed create fills a free id with what was proposed.
LEMMA PersistRefines ==
    ASSUME Inv, NEW c \in Call, Persist(c)
    PROVE  \E t \in Id : Protocol!Insert(c, t)
<1>. DEFINE p == PreviewOf(request[c], found[c])
<1>1. /\ wire[c] = "flying" /\ wire' = [wire EXCEPT ![c] = "persisted"]
      /\ AddRow(request[c].row) /\ UNCHANGED <<issued, request, found>>
    BY DEF Persist, callVars
<1>2. request[c].row \in Row
    BY <1>1 DEF Inv, PhaseInv, Request
<1>3. PICK t \in Id : Store[t] = Nil /\ Store' = [Store EXCEPT ![t] = request[c].row]
    BY <1>1, <1>2, AddRowStore
<1>4. /\ Auth[c] = {p} /\ Auth' = [Auth EXCEPT ![c] = {}] /\ UNCHANGED <<Previews, Used>>
    BY <1>1, FlightEnds
<1>5. p[1] = Nil /\ RowOf(p[2], Nil) = request[c].row
    BY DEF PreviewOf, RowOf
<1>. HIDE DEF p
<1>6. Protocol!Insert(c, t)
    BY <1>3, <1>4, <1>5 DEF Protocol!Insert, Store, Previews, Auth, Used
<1>. QED
    BY <1>6

\* A create that is refused is dropped.
LEMMA RefuseRefines ==
    ASSUME Inv, NEW c \in Call, Refuse(c)
    PROVE  Protocol!Drop(c)
<1>1. /\ wire[c] = "flying" /\ wire' = [wire EXCEPT ![c] = "refused"]
      /\ UNCHANGED <<rows, issued, request, found>>
    BY DEF Refuse, callVars
<1>2. Auth[c] # {} /\ Auth' = [Auth EXCEPT ![c] = {}] /\ UNCHANGED <<Previews, Used>>
    BY <1>1, FlightEnds
<1>3. UNCHANGED Store
    BY <1>1 DEF Store
<1>. QED
    BY <1>2, <1>3 DEF Protocol!Drop, Store, Previews, Auth, Used

\* Others add, rename and delete rows.
LEMMA EditRefines ==
    ASSUME Inv,
           \/ \E r \in {x \in Row : WellFormedRow(x)} : Insert(r) \/ \E i \in DOMAIN rows : Rename(i, r)
           \/ \E i \in DOMAIN rows : Delete(i)
    PROVE  \E t \in Id : Protocol!Interfere(t)
<1>1. UNCHANGED <<issued, wire, request, found>>
    BY DEF Insert, Rename, Delete, Edits, callVars
<1>2. UNCHANGED <<Previews, Auth, Used>>
    BY <1>1 DEF Previews, Auth, Used
<1>3. \A i \in DOMAIN rows : i \in Id
    <2>1. born \in 0..MaxRow /\ MaxRow \in Nat /\ DOMAIN rows \subseteq 1..born
        BY BoundAssumption DEF Inv, TypeOK
    <2>. QED
        BY <2>1 DEF Id
<1>4. \E t \in Id, v \in Row \cup {Nil} : Store' = [Store EXCEPT ![t] = v]
    <2>1. ASSUME NEW r \in Row, Insert(r)
          PROVE  \E t \in Id, v \in Row \cup {Nil} : Store' = [Store EXCEPT ![t] = v]
        BY <2>1, AddRowStore DEF Insert
    <2>2. ASSUME NEW r \in Row, NEW i \in DOMAIN rows, Rename(i, r)
          PROVE  \E t \in Id, v \in Row \cup {Nil} : Store' = [Store EXCEPT ![t] = v]
        <3>1. rows' = [rows EXCEPT ![i] = r] /\ i \in Id
            BY <1>3, <2>2 DEF Rename
        <3>2. Store' = [Store EXCEPT ![i] = r]
            BY <3>1 DEF Store
        <3>. QED
            BY <3>1, <3>2
    <2>3. ASSUME NEW i \in DOMAIN rows, Delete(i)
          PROVE  \E t \in Id, v \in Row \cup {Nil} : Store' = [Store EXCEPT ![t] = v]
        <3>1. rows' = [j \in DOMAIN rows \ {i} |-> rows[j]] /\ i \in Id
            BY <1>3, <2>3 DEF Delete
        <3>2. Store' = [Store EXCEPT ![i] = Nil]
            BY <3>1 DEF Store
        <3>. QED
            BY <3>1, <3>2
    <2>. QED
        BY <2>1, <2>2, <2>3
<1>. QED
    BY <1>2, <1>4 DEF Protocol!Interfere, Store, Previews, Auth, Used

\* Every step is one of the protocol or none.
LEMMA StepRefines == Inv /\ [Next]_vars => [Protocol!Next]_(Protocol!vars)
<1>. SUFFICES ASSUME Inv, [Next]_vars PROVE Protocol!Next \/ UNCHANGED Protocol!vars
    OBVIOUS
<1>0. \A c \in Call : pc[c] \in {"idle", "context", "parent", "list"} => wire[c] = "none"
    BY DEF Inv, PhaseInv
<1>1. CASE UNCHANGED vars
    BY <1>1, QuietStep DEF vars
<1>2. ASSUME NEW c \in Call, Invoke(c) \/ ReadContext(c) \/ ReadParent(c) \/ Reject(c)
      PROVE  UNCHANGED Protocol!vars
    <2>1. pc[c] \in {"idle", "context", "parent", "list"} /\ UNCHANGED <<rows, issued, wire, found>>
        BY <1>2 DEF Invoke, ReadContext, ReadParent, Reject, worldVars
    <2>2. \A d \in Call \ {c} : request'[d] = request[d]
        BY <1>2 DEF Invoke, ReadContext, ReadParent, Reject, Inv, TypeOK
    <2>. QED
        BY <1>0, <2>1, <2>2, EarlyStep
<1>3. ASSUME NEW c \in Call, NextPage(c) \/ LimitReached(c) \/ Conflict(c)
      PROVE  UNCHANGED Protocol!vars
    <2>1. pc[c] = "list" /\ UNCHANGED <<rows, issued, wire, request>>
        BY <1>3 DEF NextPage, LimitReached, Conflict, ListingEnds, worldVars
    <2>2. \A d \in Call \ {c} : found'[d] = found[d]
        BY <1>3 DEF NextPage, LimitReached, Conflict, ListingEnds, Inv, TypeOK
    <2>. QED
        BY <1>0, <2>1, <2>2, EarlyStep
<1>4. ASSUME NEW c \in Call, CreateReturns(c) \/ Reread(c) \/ RereadFails(c) \/ CallFails(c)
      PROVE  UNCHANGED Protocol!vars
    BY <1>4, QuietStep DEF CreateReturns, Reread, RereadFails, CallFails, worldVars
<1>5. ASSUME NEW c \in Call, Preview(c) \/ SendCreate(c) PROVE Protocol!Next
    BY <1>5, PreviewRefines, SendRefines DEF Protocol!Next
<1>6. ASSUME NEW c \in Call, Persist(c) \/ Refuse(c) PROVE Protocol!Next
    BY <1>6, PersistRefines, RefuseRefines DEF Protocol!Next
<1>7. CASE \/ \E r \in {x \in Row : WellFormedRow(x)} : Insert(r) \/ \E i \in DOMAIN rows : Rename(i, r)
           \/ \E i \in DOMAIN rows : Delete(i)
    BY <1>7, EditRefines DEF Protocol!Next
<1>8. ASSUME NEW x, NEW s, Affect(x, s) PROVE UNCHANGED Protocol!vars
    BY <1>8, QuietStep DEF Affect, Edits, callVars
<1>. QED
    BY <1>1, <1>2, <1>3, <1>4, <1>5, <1>6, <1>7, <1>8 DEF Next, Step

\* The creates implement the confirmed-mutation protocol: each call adds one row at most, the one
\* that its caller was shown with the same duplicates, however late the write lands.
THEOREM CreatesImplement == Spec => ImplementsConfirmedWrite
<1>1. Init => Protocol!Init
    <2>. SUFFICES ASSUME Init PROVE Protocol!Init
        OBVIOUS
    <2>1. Store \in [Id -> Row \cup {Nil}]
        BY BoundAssumption DEF Store, Init, Id
    <2>2. Previews = {} /\ Auth = [c \in Call |-> {}] /\ Used = {}
        BY DEF Previews, Auth, Used, Init
    <2>. QED
        BY <2>1, <2>2 DEF Protocol!Init, Store, Previews, Auth, Used
<1>. QED
    BY <1>1, Invariance, StepRefines, PTL DEF Spec, ImplementsConfirmedWrite, Protocol!Spec
=============================================================================
