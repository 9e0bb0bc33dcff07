--------------------------- MODULE ConfirmedWrite ---------------------------
(***************************************************************************)
(* What the confirmed-mutation protocol promises, whatever the record kind *)
(* (docs/architecture.md, "Confirmed mutation flow"): a write lands at most *)
(* once per call, only for a change that a preview displayed together with  *)
(* the value the authorising read saw.  Nothing is promised about what      *)
(* happens between that read and the write: Write applies the change to     *)
(* whatever value the record has by then.  A create is a change about New,  *)
(* which always shows Blank and whose write fills an absent target.         *)
(***************************************************************************)
CONSTANTS
    Call,           \* tool calls with apply=true
    Target,         \* what a change is about
    New,            \* the target of a create
    Value,          \* values a target may have
    Absent,         \* the value of a target that does not exist
    Blank,          \* the value a create starts from
    Change,         \* normalised proposals
    Result(_, _)    \* Result(ch, v): v after change ch was applied to it

VARIABLES
    store,          \* store[t]: Dolibarr's value of target t
    previews,       \* the <<target, change, value>> triples shown to callers
    auth,           \* auth[c]: the preview whose write call c may still do
    used            \* calls that were authorised once

vars == <<store, previews, auth, used>>

Shown(t) == IF t = New THEN Blank ELSE store[t]

Init ==
    /\ store \in [Target -> Value \cup {Absent}]
    /\ previews = {}
    /\ auth = [c \in Call |-> {}]
    /\ used = {}

\* A preview shows the change next to the value the target has now.
Issue(t, ch) ==
    /\ previews' = previews \cup {<<t, ch, Shown(t)>>}
    /\ UNCHANGED <<store, auth, used>>

\* The confirming read finds exactly what a preview showed.
Authorise(c) ==
    /\ c \notin used
    /\ used' = used \cup {c}
    /\ \E p \in previews : p[3] = Shown(p[1]) /\ auth' = [auth EXCEPT ![c] = {p}]
    /\ UNCHANGED <<store, previews>>

\* The one write of the call reaches the record, early or late.
Write(c) ==
    /\ \E p \in auth[c] :
        /\ p[1] # New
        /\ store[p[1]] # Absent
        /\ store' = [store EXCEPT ![p[1]] = Result(p[2], @)]
    /\ auth' = [auth EXCEPT ![c] = {}]
    /\ UNCHANGED <<previews, used>>

\* The one write of a create fills a target that did not exist.
Insert(c, t) ==
    /\ store[t] = Absent
    /\ \E p \in auth[c] :
        /\ p[1] = New
        /\ store' = [store EXCEPT ![t] = Result(p[2], Blank)]
    /\ auth' = [auth EXCEPT ![c] = {}]
    /\ UNCHANGED <<previews, used>>

\* The write is refused, or acknowledged without effect.
Drop(c) ==
    /\ auth[c] # {}
    /\ auth' = [auth EXCEPT ![c] = {}]
    /\ UNCHANGED <<store, previews, used>>

\* Somebody else edits, adds or deletes a record.
Interfere(t) ==
    /\ \E v \in Value \cup {Absent} : store' = [store EXCEPT ![t] = v]
    /\ UNCHANGED <<previews, auth, used>>

Next ==
    \/ \E t \in Target \cup {New}, ch \in Change : Issue(t, ch)
    \/ \E c \in Call : Authorise(c) \/ Write(c) \/ Drop(c)
    \/ \E c \in Call, t \in Target : Insert(c, t)
    \/ \E t \in Target : Interfere(t)

Spec == Init /\ [][Next]_vars
=============================================================================
