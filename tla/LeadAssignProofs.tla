-------------------------- MODULE LeadAssignProofs --------------------------
(***************************************************************************)
(* Safety of LeadAssign for any number of calls and users.  The invariant   *)
(* accounts for each leader while a call relies on the relations it read:   *)
(* it was there then and is not removed yet, or somebody else added it; and *)
(* the assigned user stays, once it is there, until somebody removes it.    *)
(***************************************************************************)
EXTENDS LeadAssign, TLAPS

Sent == wire \cup accepted

\* A call that was confirmed and has not answered yet.
Writing(c) == pc[c] \in {"adding", "removing", "refresh"}

\* A call that has written, or is about to.
Decided(c) == Writing(c) \/ \E w \in Sent : w.call = c

\* The desired user was a leader, or Dolibarr said that it made it one.
Present(c) == desired[c] \in relations[c] \/ Message(c, "add", desired[c]) \in accepted

PhaseInv(c) ==
    /\ pc[c] # "idle" => desired[c] \in User
    /\ pc[c] \in Reading \cup {"idle"} => c \notin failures /\ \A w \in Sent : w.call # c
    /\ pc[c] # "done" => answer[c] = "none"
    /\ pc[c] # "removing" => todo[c] = {} /\ victim[c] = Nil
    /\ answer[c] \in {"not_found", "preview", "conflict", "no_op"} => \A w \in Sent : w.call # c

\* What the writes of a confirmed call may be.
SentInv(c) ==
    Decided(c) =>
        /\ given[c] = [desired |-> desired[c], owners |-> owners[c], relations |-> relations[c]]
        /\ given[c] \in issued
        /\ \A w \in Sent : w.call = c =>
            \/ w = Message(c, "add", desired[c]) /\ desired[c] \notin relations[c]
            \/ /\ w.verb = "delete"
               /\ w.user \in relations[c] \ {desired[c]}
               /\ w.user \in todo[c] => w.user = victim[c]
               /\ Present(c)

\* Where a confirmed call that had no failure so far has got to.
ProgressInv(c) ==
    /\ pc[c] = "adding" => \A w \in Sent : w.call = c => w.verb = "add"
    /\ pc[c] = "removing" => Present(c) /\ todo[c] \subseteq relations[c] \ {desired[c]}
    /\ pc[c] = "removing" /\ c \notin failures =>
        /\ \A u \in relations[c] \ {desired[c]} : u \in todo[c] \/ Message(c, "delete", u) \in accepted
        /\ \A w \in wire : w.call = c => w = Message(c, "delete", victim[c])
    /\ pc[c] = "refresh" /\ c \notin failures =>
        /\ Present(c)
        /\ \A u \in relations[c] \ {desired[c]} : Message(c, "delete", u) \in accepted
        /\ \A w \in wire : w.call # c
    /\ answer[c] = "applied" => \A w \in wire : w.call # c

\* The desired user is a leader, unless somebody else removed it.
KeptInv(c) ==
    c \notin ousted /\ (desired[c] \in relations[c] \/ Message(c, "add", desired[c]) \in executed)
        => desired[c] \in leaders

\* The other leaders are those that the call read and has not removed yet, and new ones.
OthersInv(c) ==
    \A u \in leaders \ {desired[c]} :
        u \in joined[c] \/ (u \in relations[c] /\ Message(c, "delete", u) \notin executed)

LeadersInv(c) == Relies(c) => KeptInv(c) /\ OthersInv(c)

IssuedInv ==
    /\ \A c \in Call : given[c] \in issued \cup {Nil}
    /\ \A tok \in issued : \E d \in Call :
        /\ answer[d] = "preview"
        /\ tok = [desired |-> desired[d], owners |-> owners[d], relations |-> relations[d]]

Inv ==
    /\ TypeOK
    /\ wire \cap accepted = {}
    /\ \A c \in Call : PhaseInv(c) /\ SentInv(c) /\ ProgressInv(c) /\ LeadersInv(c)
    /\ IssuedInv

CallInv(c) == PhaseInv(c) /\ SentInv(c) /\ ProgressInv(c) /\ LeadersInv(c)

---------------------------------------------------------------------------
(* Frames *)

\* The initial states satisfy the invariant.
LEMMA InitInv == Init => Inv
<1>. SUFFICES ASSUME Init PROVE Inv
    OBVIOUS
<1>1. TypeOK
    BY EditsAssumption DEF Init, TypeOK
<1>2. IssuedInv /\ wire \cap accepted = {}
    BY DEF Init, IssuedInv
<1>3. ASSUME NEW c \in Call PROVE CallInv(c)
    BY DEF Init, CallInv, PhaseInv, SentInv, ProgressInv, LeadersInv, Relies, Decided, Writing,
           Sent, Reading
<1>. QED
    BY <1>1, <1>2, <1>3 DEF Inv, CallInv

\* A step of an unfinished call c, sending something or not, changes no other
\* call and no old preview.
LEMMA OtherCalls ==
    ASSUME Inv, NEW c \in Call, pc[c] # "done",
           \A d \in Call \ {c} :
                /\ pc'[d] = pc[d] /\ desired'[d] = desired[d] /\ given'[d] = given[d]
                /\ owners'[d] = owners[d] /\ relations'[d] = relations[d]
                /\ todo'[d] = todo[d] /\ victim'[d] = victim[d] /\ answer'[d] = answer[d]
                /\ d \in failures' <=> d \in failures,
           wire \subseteq wire', \A w \in wire' \ wire : w.call = c,
           leaders' = leaders, accepted' = accepted, executed' = executed,
           ousted' = ousted, joined' = joined,
           issued \subseteq issued'
    PROVE  /\ \A d \in Call \ {c} : CallInv(d)' /\ given'[d] \in issued' \cup {Nil}
           /\ \A tok \in issued : \E d \in Call :
                /\ answer'[d] = "preview"
                /\ tok = [desired |-> desired'[d], owners |-> owners'[d],
                          relations |-> relations'[d]]
<1>1. ASSUME NEW d \in Call \ {c}
      PROVE  CallInv(d)' /\ given'[d] \in issued' \cup {Nil}
    <2>1. CallInv(d) /\ given[d] \in issued \cup {Nil}
        BY DEF Inv, IssuedInv, CallInv
    <2>2. /\ \A w : w \in Sent' /\ w.call = d <=> w \in Sent /\ w.call = d
          /\ \A w : w \in wire' /\ w.call = d <=> w \in wire /\ w.call = d
        BY DEF Sent
    <2>3. PhaseInv(d)'
        BY <2>1, <2>2 DEF CallInv, PhaseInv
    <2>4. Writing(d)' = Writing(d) /\ Decided(d)' = Decided(d)
        BY <2>2 DEF Decided, Writing
    <2>5. Present(d)' = Present(d)
        BY DEF Present, Message
    <2>6. SentInv(d)'
        BY <2>1, <2>2, <2>4, <2>5 DEF CallInv, SentInv, Message
    <2>7. ProgressInv(d)'
        BY <2>1, <2>2, <2>5 DEF CallInv, ProgressInv, Message
    <2>8. LeadersInv(d)'
        BY <2>1, <2>2 DEF CallInv, LeadersInv, Relies, KeptInv, OthersInv, Message
    <2>. QED
        BY <2>1, <2>3, <2>6, <2>7, <2>8 DEF CallInv
<1>2. ASSUME NEW tok \in issued
      PROVE  \E d \in Call :
                /\ answer'[d] = "preview"
                /\ tok = [desired |-> desired'[d], owners |-> owners'[d],
                          relations |-> relations'[d]]
    <2>1. PICK d \in Call :
            /\ answer[d] = "preview"
            /\ tok = [desired |-> desired[d], owners |-> owners[d], relations |-> relations[d]]
        BY DEF Inv, IssuedInv
    <2>2. d # c
        BY <2>1 DEF Inv, PhaseInv
    <2>. QED
        BY <2>1, <2>2
<1>. QED
    BY <1>1, <1>2

\* What is known of a call before its step.
LEMMA Facts ==
    ASSUME Inv, NEW c \in Call
    PROVE  /\ CallInv(c)
           /\ TypeOK
           /\ wire \cap accepted = {}
           /\ given[c] \in issued \cup {Nil}
           /\ pc[c] # "idle" => desired[c] \in User
           /\ pc[c] # "done" => answer[c] = "none"
           /\ pc[c] \in Reading \cup {"idle"} => \A w \in Sent : w.call # c
BY DEF Inv, IssuedInv, CallInv, PhaseInv

\* A call that is still reading, and one that ends without writing, keep its part.
LEMMA ReadingInv ==
    ASSUME Inv, NEW c \in Call, pc[c] \in Reading \cup {"idle"},
           desired'[c] \in User,
           wire' = wire, accepted' = accepted, failures' = failures,
           todo'[c] = todo[c], victim'[c] = victim[c],
           \/ pc'[c] \in Reading /\ answer'[c] = answer[c]
           \/ pc'[c] = "done" /\ answer'[c] # "applied"
    PROVE  CallInv(c)'
<1>1. /\ \A w \in Sent : w.call # c
      /\ c \notin failures /\ todo[c] = {} /\ victim[c] = Nil /\ answer[c] = "none"
    BY DEF Inv, PhaseInv, Reading
<1>2. ~ Decided(c)'
    BY <1>1 DEF Decided, Writing, Sent, Reading
<1>3. PhaseInv(c)'
    BY <1>1 DEF PhaseInv, Sent, Reading
<1>4. ProgressInv(c)'
    BY <1>1 DEF ProgressInv, Reading
<1>5. ~ Relies(c)'
    BY <1>1 DEF Relies, Sent, Reading
<1>. QED
    BY <1>2, <1>3, <1>4, <1>5 DEF CallInv, SentInv, LeadersInv

\* A call that ends while it is writing keeps its part.
LEMMA EndingInv ==
    ASSUME Inv, NEW c \in Call, pc[c] # "idle",
           wire' = wire, accepted' = accepted, executed' = executed, leaders' = leaders,
           ousted' = ousted, joined' = joined,
           failures' = failures, issued' = issued,
           desired' = desired, given' = given, owners' = owners, relations' = relations,
           todo'[c] = {}, victim'[c] = Nil,
           pc'[c] = "done", answer'[c] \in {"applied", "partial", "failed", "lost"},
           answer'[c] = "applied" => pc[c] = "refresh" /\ c \notin failures
    PROVE  CallInv(c)'
<1>1. CallInv(c)
    BY Facts
<1>2. PhaseInv(c)'
    BY <1>1 DEF PhaseInv, CallInv, Reading
<1>3. Decided(c)' => Decided(c)
    BY DEF Decided, Writing, Sent
<1>4. SentInv(c)'
    BY <1>1, <1>3 DEF SentInv, CallInv, Sent, Message, Present
<1>5. ProgressInv(c)'
    BY <1>1 DEF ProgressInv, CallInv
<1>6. LeadersInv(c)'
    BY <1>1 DEF LeadersInv, CallInv, Relies, KeptInv, OthersInv, Message
<1>. QED
    BY <1>2, <1>4, <1>5, <1>6 DEF CallInv

\* The parts make the whole.
LEMMA Whole ==
    ASSUME Inv, NEW c \in Call, TypeOK', CallInv(c)',
           \A d \in Call \ {c} : CallInv(d)' /\ given'[d] \in issued' \cup {Nil},
           given'[c] \in issued' \cup {Nil},
           wire' \cap accepted' = {},
           \A tok \in issued' : \E d \in Call :
                /\ answer'[d] = "preview"
                /\ tok = [desired |-> desired'[d], owners |-> owners'[d],
                          relations |-> relations'[d]]
    PROVE  Inv'
BY DEF Inv, CallInv, IssuedInv

---------------------------------------------------------------------------
(* The steps of a call *)

\* A new call has sent nothing.
LEMMA InvokeInv == ASSUME Inv, NEW c \in Call, Invoke(c) PROVE Inv'
<1>. USE DEF Invoke, worldVars
<1>1. TypeOK'
    BY DEF Inv, TypeOK, IssuedInv, Reading
<1>2. CallInv(c)'
    BY ReadingInv, Facts DEF TypeOK, Reading
<1>3. given'[c] \in issued' \cup {Nil}
    BY Facts DEF TypeOK
<1>. QED
    BY <1>1, <1>2, <1>3, OtherCalls, Facts, Whole DEF TypeOK

\* A call that has only looked up its user has sent nothing.
LEMMA LookupInv == ASSUME Inv, NEW c \in Call, Lookup(c) PROVE Inv'
<1>. USE DEF Lookup, Finish, worldVars
<1>1. TypeOK'
    BY DEF Inv, TypeOK, Reading
<1>2. CallInv(c)'
    BY ReadingInv, Facts DEF TypeOK, Reading
<1>. QED
    BY <1>1, <1>2, OtherCalls, Facts, Whole DEF TypeOK

\* A call between its two reads of the contacts has sent nothing.
LEMMA ReadOwnersInv == ASSUME Inv, NEW c \in Call, ReadOwners(c) PROVE Inv'
<1>. USE DEF ReadOwners, worldVars
<1>1. TypeOK'
    BY DEF Inv, TypeOK, Reading
<1>2. CallInv(c)'
    BY ReadingInv, Facts DEF TypeOK, Reading
<1>. QED
    BY <1>1, <1>2, OtherCalls, Facts, Whole DEF TypeOK

\* A preview is where a token comes from.
LEMMA PreviewInv == ASSUME Inv, NEW c \in Call, Preview(c) PROVE Inv'
<1>. USE DEF Preview, ReadRelations, Finish, worldVars
<1>1. desired[c] \in User /\ TypeOK
    BY Facts
<1>2. TokenOf(c) \in Token
    BY <1>1 DEF TypeOK, TokenOf, Token
<1>3. TypeOK'
    BY <1>1, <1>2 DEF TypeOK
<1>4. CallInv(c)'
    BY <1>1, ReadingInv DEF TypeOK, Reading
<1>5. /\ answer'[c] = "preview"
      /\ TokenOf(c) = [desired |-> desired'[c], owners |-> owners'[c],
                       relations |-> relations'[c]]
    BY <1>1 DEF TypeOK, TokenOf
<1>. QED
    BY <1>1, <1>3, <1>4, <1>5, OtherCalls, Facts, Whole DEF TypeOK

\* A conflict ends a call that has sent nothing.
LEMMA ConflictInv == ASSUME Inv, NEW c \in Call, Conflict(c) PROVE Inv'
<1>. USE DEF Conflict, ReadRelations, Finish, worldVars
<1>1. TypeOK'
    BY DEF Inv, TypeOK
<1>2. CallInv(c)'
    BY ReadingInv, Facts DEF TypeOK, Reading
<1>. QED
    BY <1>1, <1>2, OtherCalls, Facts, Whole DEF TypeOK

\* A no-op ends a call that has sent nothing.
LEMMA NoOpInv == ASSUME Inv, NEW c \in Call, NoOp(c) PROVE Inv'
<1>. USE DEF NoOp, ReadRelations, Finish, worldVars
<1>1. TypeOK'
    BY DEF Inv, TypeOK
<1>2. CallInv(c)'
    BY ReadingInv, Facts DEF TypeOK, Reading
<1>. QED
    BY <1>1, <1>2, OtherCalls, Facts, Whole DEF TypeOK

\* A confirmed call that has sent nothing yet knows the leaders and its token.
LEMMA ConfirmedFacts ==
    ASSUME Inv, NEW c \in Call, ReadRelations(c), Confirmed(c)
    PROVE  /\ desired[c] \in User
           /\ \A w \in Sent : w.call # c
           /\ given[c] \in issued
           /\ given[c] = [desired |-> desired[c], owners |-> owners[c],
                          relations |-> relations'[c]]
           /\ relations'[c] = leaders
           /\ todo[c] = {} /\ victim[c] = Nil /\ c \notin failures /\ answer[c] = "none"
<1>1. TypeOK /\ CallInv(c) /\ given[c] \in issued \cup {Nil}
    BY Facts
<1>. QED
    BY <1>1 DEF ReadRelations, Confirmed, TokenOf, TypeOK, CallInv, PhaseInv, Reading

\* The first POST meets the leaders of the second read.
LEMMA SendAddInv == ASSUME Inv, NEW c \in Call, SendAdd(c) PROVE Inv'
<1>. USE DEF SendAdd, Send, ReadRelations
<1>1. TypeOK
    BY Facts
<1>2. /\ desired[c] \in User
      /\ \A w \in Sent : w.call # c
      /\ given[c] \in issued
      /\ given[c] = [desired |-> desired[c], owners |-> owners[c], relations |-> relations'[c]]
      /\ relations'[c] = leaders
      /\ todo[c] = {} /\ victim[c] = Nil /\ c \notin failures /\ answer[c] = "none"
    BY ConfirmedFacts
<1>3. TypeOK'
    BY <1>1, <1>2 DEF TypeOK, Write, Message
<1>4. /\ pc'[c] = "adding"
      /\ \A w \in Sent' : w.call = c => w = Message(c, "add", desired[c])
      /\ \A w \in accepted : w.call # c
    BY <1>1, <1>2 DEF TypeOK, Sent, Message
<1>5. CallInv(c)'
    <2>1. PhaseInv(c)'
        BY <1>2, <1>4 DEF PhaseInv, Reading
    <2>2. SentInv(c)'
        BY <1>2, <1>4 DEF SentInv, Message
    <2>3. ProgressInv(c)'
        BY <1>2, <1>4 DEF ProgressInv, Message
    <2>4. LeadersInv(c)'
        BY <1>1, <1>2, <1>4 DEF LeadersInv, KeptInv, OthersInv, TypeOK, Sent, Message
    <2>. QED
        BY <2>1, <2>2, <2>3, <2>4 DEF CallInv
<1>6. wire' \cap accepted' = {}
    BY <1>4, Facts DEF Message
<1>. QED
    BY <1>1, <1>3, <1>5, <1>6, OtherCalls, Facts, Whole DEF TypeOK, Message

\* Without an add, all leaders but the desired user are still to be removed.
LEMMA StartRemovingInv == ASSUME Inv, NEW c \in Call, StartRemoving(c) PROVE Inv'
<1>. USE DEF StartRemoving, ReadRelations, worldVars
<1>1. TypeOK
    BY Facts
<1>2. /\ desired[c] \in User
      /\ \A w \in Sent : w.call # c
      /\ given[c] \in issued
      /\ given[c] = [desired |-> desired[c], owners |-> owners[c], relations |-> relations'[c]]
      /\ relations'[c] = leaders
      /\ todo[c] = {} /\ victim[c] = Nil /\ c \notin failures /\ answer[c] = "none"
    BY ConfirmedFacts
<1>3. TypeOK'
    BY <1>1, <1>2 DEF TypeOK
<1>4. /\ pc'[c] = "removing" /\ todo'[c] = relations'[c] \ {desired[c]}
      /\ \A w \in Sent' : w.call # c
      /\ Present(c)'
    BY <1>1, <1>2 DEF TypeOK, Sent, Present
<1>5. CallInv(c)'
    <2>1. PhaseInv(c)'
        BY <1>2, <1>4 DEF PhaseInv, Reading
    <2>2. SentInv(c)'
        BY <1>2, <1>4 DEF SentInv
    <2>3. ProgressInv(c)'
        BY <1>2, <1>4 DEF ProgressInv, Sent
    <2>4. LeadersInv(c)'
        BY <1>1, <1>2, <1>4 DEF LeadersInv, KeptInv, OthersInv, TypeOK, Sent, Message
    <2>. QED
        BY <2>1, <2>2, <2>3, <2>4 DEF CallInv
<1>. QED
    BY <1>1, <1>3, <1>5, OtherCalls, Facts, Whole DEF TypeOK

\* A call that was confirmed and is not over.
LEMMA WritingFacts ==
    ASSUME Inv, NEW c \in Call, pc[c] \in {"adding", "removing", "refresh"}
    PROVE  /\ TypeOK /\ PhaseInv(c) /\ ProgressInv(c) /\ Decided(c) /\ SentInv(c) /\ LeadersInv(c)
           /\ desired[c] \in User /\ answer[c] = "none"
           /\ given[c] \in issued \cup {Nil}
           /\ wire \cap accepted = {}
BY Facts DEF CallInv, Decided, Writing

\* Once the POST was acknowledged, the desired user counts as present.
LEMMA AddReturnsInv == ASSUME Inv, NEW c \in Call, AddReturns(c) PROVE Inv'
<1>. USE DEF AddReturns, worldVars
<1>1. /\ TypeOK /\ PhaseInv(c) /\ ProgressInv(c) /\ Decided(c) /\ SentInv(c) /\ LeadersInv(c)
      /\ desired[c] \in User /\ answer[c] = "none"
      /\ wire \cap accepted = {}
    BY WritingFacts
<1>2. TypeOK'
    BY <1>1 DEF TypeOK, PhaseInv
<1>3. /\ pc'[c] = "removing" /\ todo'[c] = relations[c] \ {desired[c]}
      /\ Sent' = Sent /\ Present(c) /\ Present(c)'
    BY <1>1 DEF TypeOK, Sent, Present, Acknowledged, Message
<1>4. \A w \in Sent : w.call = c => w = Message(c, "add", desired[c])
    BY <1>1 DEF SentInv, ProgressInv
<1>5. \A w \in wire : w.call # c
    BY <1>1, <1>4 DEF Sent, Acknowledged, Message
<1>6. CallInv(c)'
    <2>1. PhaseInv(c)'
        BY <1>1, <1>3 DEF PhaseInv, Reading
    <2>2. SentInv(c)'
        BY <1>1, <1>3, <1>4 DEF SentInv, Message
    <2>3. ProgressInv(c)'
        BY <1>1, <1>3, <1>5 DEF ProgressInv
    <2>4. LeadersInv(c)'
        BY <1>1 DEF LeadersInv, Relies, KeptInv, OthersInv, Message
    <2>. QED
        BY <2>1, <2>2, <2>3, <2>4 DEF CallInv
<1>. QED
    BY <1>1, <1>2, <1>6, OtherCalls, Facts, Whole DEF TypeOK

\* After a failed POST nothing is removed.
LEMMA AddFailsInv == ASSUME Inv, NEW c \in Call, AddFails(c) PROVE Inv'
<1>. USE DEF AddFails, worldVars
<1>1. /\ TypeOK /\ PhaseInv(c) /\ ProgressInv(c) /\ Decided(c) /\ SentInv(c) /\ LeadersInv(c)
      /\ desired[c] \in User /\ answer[c] = "none"
    BY WritingFacts
<1>2. TypeOK'
    BY <1>1 DEF TypeOK
<1>3. pc'[c] = "refresh" /\ Sent' = Sent /\ Present(c)' = Present(c) /\ c \in failures'
    BY <1>1 DEF TypeOK, Sent, Present
<1>4. CallInv(c)'
    <2>1. PhaseInv(c)'
        BY <1>1, <1>3 DEF PhaseInv, Reading
    <2>2. SentInv(c)'
        BY <1>1, <1>3 DEF SentInv, Message
    <2>3. ProgressInv(c)'
        BY <1>1, <1>3 DEF ProgressInv
    <2>4. LeadersInv(c)'
        BY <1>1 DEF LeadersInv, Relies, KeptInv, OthersInv, Message
    <2>. QED
        BY <2>1, <2>2, <2>3, <2>4 DEF CallInv
<1>. QED
    BY <1>1, <1>2, <1>4, OtherCalls, Facts, Whole DEF TypeOK

\* A DELETE is sent for a relation that is still to be removed.
LEMMA SendDeleteInv == ASSUME Inv, NEW c \in Call, SendDelete(c) PROVE Inv'
<1>1. /\ TypeOK /\ PhaseInv(c) /\ ProgressInv(c) /\ Decided(c) /\ SentInv(c) /\ LeadersInv(c)
      /\ desired[c] \in User /\ answer[c] = "none"
      /\ wire \cap accepted = {}
    BY WritingFacts DEF SendDelete
<1>2. PICK u \in todo[c] :
        /\ victim' = [victim EXCEPT ![c] = u]
        /\ wire' = wire \cup {Message(c, "delete", u)}
    BY DEF SendDelete, Send, Message
<1>. USE DEF SendDelete, Send
<1>3. /\ u \in relations[c] \ {desired[c]} /\ u \in User
      /\ Present(c)
    BY <1>1 DEF TypeOK, ProgressInv
<1>4. /\ TypeOK'
      /\ victim'[c] = u /\ pc'[c] = "removing"
      /\ Sent' = Sent \cup {Message(c, "delete", u)}
      /\ Present(c)' = Present(c)
    BY <1>1, <1>2, <1>3 DEF TypeOK, Write, Message, Sent, Present
<1>5. /\ \A w \in Sent : w.call = c /\ w.verb = "delete" => w.user \notin todo[c]
      /\ wire' \cap accepted' = {}
    <2>1. Nil \notin todo[c]
        BY <1>1, NilAssumption DEF TypeOK
    <2>2. \A w \in Sent : w.call = c /\ w.verb = "delete" => w.user \notin todo[c]
        BY <1>1, <2>1 DEF SentInv, Message
    <2>3. Message(c, "delete", u) \notin accepted
        BY <2>2 DEF Message, Sent
    <2>. QED
        BY <1>1, <1>2, <2>2, <2>3
<1>6. c \notin failures => \A w \in wire : w.call # c
    BY <1>1, <1>5, NilAssumption DEF ProgressInv, TypeOK, Write, Message
<1>7. CallInv(c)'
    <2>1. PhaseInv(c)'
        BY <1>1, <1>4 DEF PhaseInv, Reading
    <2>2. SentInv(c)'
        BY <1>1, <1>3, <1>4, <1>5 DEF SentInv, Message
    <2>3. ProgressInv(c)'
        BY <1>1, <1>2, <1>3, <1>4, <1>6 DEF ProgressInv, Message
    <2>4. LeadersInv(c)'
        BY <1>1 DEF LeadersInv, Relies, KeptInv, OthersInv, Message
    <2>. QED
        BY <2>1, <2>2, <2>3, <2>4 DEF CallInv
<1>8. \A w \in wire' \ wire : w.call = c
    BY <1>2 DEF Message
<1>. QED
    BY <1>1, <1>2, <1>4, <1>5, <1>7, <1>8, OtherCalls, Facts, Whole DEF TypeOK

\* What is common to both ends of a DELETE.
LEMMA NextRelationInv ==
    ASSUME Inv, NEW c \in Call, NextRelation(c),
           \/ DeleteReturns(c)
           \/ failures' = failures \cup {c}
    PROVE  Inv'
<1>. USE DEF NextRelation, worldVars
<1>1. /\ TypeOK /\ PhaseInv(c) /\ ProgressInv(c) /\ Decided(c) /\ SentInv(c) /\ LeadersInv(c)
      /\ desired[c] \in User /\ answer[c] = "none"
      /\ wire \cap accepted = {}
    BY WritingFacts
<1>2. TypeOK'
    BY <1>1 DEF TypeOK, DeleteReturns
<1>3. /\ pc'[c] = "removing" /\ todo'[c] = todo[c] \ {victim[c]} /\ victim'[c] = Nil
      /\ Sent' = Sent /\ Present(c)' = Present(c) /\ Present(c)
    BY <1>1 DEF TypeOK, Sent, Present, ProgressInv
<1>4. PhaseInv(c)'
    BY <1>1, <1>3 DEF PhaseInv, Reading
<1>5. SentInv(c)'
    BY <1>1, <1>3 DEF SentInv, Message
<1>6. ProgressInv(c)'
    <2>1. CASE failures' = failures \cup {c}
        BY <1>1, <1>3, <2>1 DEF ProgressInv
    <2>2. CASE DeleteReturns(c)
        <3>1. Message(c, "delete", victim[c]) \in accepted
            BY <2>2 DEF DeleteReturns, Acknowledged, Message
        <3>2. c \notin failures => \A w \in wire : w.call # c
            BY <1>1, <3>1 DEF ProgressInv
        <3>. QED
            BY <1>1, <1>3, <2>2, <3>1, <3>2 DEF ProgressInv, DeleteReturns, Message
    <2>. QED
        BY <2>1, <2>2
<1>7. LeadersInv(c)'
    BY <1>1 DEF LeadersInv, Relies, KeptInv, OthersInv, Message
<1>8. CallInv(c)'
    BY <1>4, <1>5, <1>6, <1>7 DEF CallInv
<1>9. \A d \in Call \ {c} : d \in failures' <=> d \in failures
    BY DEF DeleteReturns
<1>. QED
    BY <1>1, <1>2, <1>8, <1>9, OtherCalls, Facts, Whole DEF TypeOK

\* A DELETE that returned was acknowledged.
LEMMA DeleteReturnsInv == ASSUME Inv, NEW c \in Call, DeleteReturns(c) PROVE Inv'
BY NextRelationInv DEF DeleteReturns

\* A DELETE that failed is recorded as a failure.
LEMMA DeleteFailsInv == ASSUME Inv, NEW c \in Call, DeleteFails(c) PROVE Inv'
BY NextRelationInv DEF DeleteFails

\* The loop ends with every other relation handled.
LEMMA RemovalsEndInv == ASSUME Inv, NEW c \in Call, RemovalsEnd(c) PROVE Inv'
<1>. USE DEF RemovalsEnd, worldVars
<1>1. /\ TypeOK /\ PhaseInv(c) /\ ProgressInv(c) /\ Decided(c) /\ SentInv(c) /\ LeadersInv(c)
      /\ desired[c] \in User /\ answer[c] = "none"
    BY WritingFacts
<1>2. TypeOK'
    BY <1>1 DEF TypeOK
<1>3. /\ pc'[c] = "refresh" /\ victim[c] = Nil
      /\ Sent' = Sent /\ Present(c)' = Present(c)
    BY <1>1 DEF TypeOK, Sent, Present
<1>4. c \notin failures => \A w \in wire : w.call # c
    BY <1>1, <1>3, NilAssumption DEF ProgressInv, TypeOK, Write, Message
<1>5. CallInv(c)'
    <2>1. PhaseInv(c)'
        BY <1>1, <1>3 DEF PhaseInv, Reading
    <2>2. SentInv(c)'
        BY <1>1, <1>3 DEF SentInv, Message
    <2>3. ProgressInv(c)'
        BY <1>1, <1>3, <1>4 DEF ProgressInv, Message
    <2>4. LeadersInv(c)'
        BY <1>1 DEF LeadersInv, Relies, KeptInv, OthersInv, Message
    <2>. QED
        BY <2>1, <2>2, <2>3, <2>4 DEF CallInv
<1>. QED
    BY <1>1, <1>2, <1>5, OtherCalls, Facts, Whole DEF TypeOK

\* Only a call without failures answers applied.
LEMMA RefreshInv == ASSUME Inv, NEW c \in Call, Refresh(c) PROVE Inv'
<1>. USE DEF Refresh, Finish, worldVars
<1>1. TypeOK /\ PhaseInv(c)
    BY WritingFacts
<1>2. TypeOK'
    BY <1>1 DEF TypeOK
<1>3. CallInv(c)'
    BY <1>1, EndingInv DEF PhaseInv, TypeOK
<1>. QED
    BY <1>1, <1>2, <1>3, OtherCalls, Facts, Whole DEF TypeOK

\* A read that fails ends the call where it is.
LEMMA ReadFailsInv == ASSUME Inv, NEW c \in Call, ReadFails(c) PROVE Inv'
<1>. USE DEF ReadFails, Finish, worldVars
<1>1. TypeOK /\ PhaseInv(c) /\ desired[c] \in User /\ pc[c] # "done"
    BY Facts DEF CallInv, Reading
<1>2. TypeOK'
    BY <1>1 DEF TypeOK
<1>3. CallInv(c)'
    <2>1. CASE pc[c] = "refresh"
        BY <1>1, <2>1, EndingInv DEF PhaseInv, TypeOK
    <2>2. CASE pc[c] \in Reading
        BY <1>1, <2>2, ReadingInv DEF TypeOK
    <2>. QED
        BY <2>1, <2>2
<1>. QED
    BY <1>1, <1>2, <1>3, OtherCalls, Facts, Whole DEF TypeOK

\* A call that is lost leaves its writes behind.
LEMMA LostInv == ASSUME Inv, NEW c \in Call, Lost(c) PROVE Inv'
<1>. USE DEF Lost, Finish, worldVars
<1>1. TypeOK
    BY Facts
<1>2. TypeOK'
    BY <1>1 DEF TypeOK
<1>3. CallInv(c)'
    BY <1>1, EndingInv DEF TypeOK
<1>. QED
    BY <1>1, <1>2, <1>3, OtherCalls, Facts, Whole DEF TypeOK

---------------------------------------------------------------------------
(* The steps of Dolibarr *)

\* Where Dolibarr moves, the calls stay where they are.
LEMMA CallsStay ==
    ASSUME Inv, UNCHANGED <<issued, callVars>>, TypeOK',
           accepted \subseteq accepted', Sent' \subseteq Sent, wire' \subseteq wire,
           wire' \cap accepted' = {},
           \A c \in Call : LeadersInv(c)'
    PROVE  Inv'
<1>. USE DEF callVars
<1>1. ASSUME NEW c \in Call PROVE CallInv(c)'
    <2>1. CallInv(c)
        BY Facts
    <2>2. PhaseInv(c)'
        BY <2>1 DEF CallInv, PhaseInv
    <2>3. (Present(c) => Present(c)') /\ (Decided(c)' => Decided(c))
        BY DEF Present, Message, Decided, Writing
    <2>4. SentInv(c)'
        BY <2>1, <2>3 DEF CallInv, SentInv, Message
    <2>5. ProgressInv(c)'
        BY <2>1, <2>3 DEF CallInv, ProgressInv, Message, Sent
    <2>. QED
        BY <2>2, <2>4, <2>5 DEF CallInv
<1>2. IssuedInv'
    BY DEF Inv, IssuedInv
<1>. QED
    BY <1>1, <1>2 DEF Inv, CallInv

\* What others do to the leaders is put down for each call that relies on them.
LEMMA Surprised ==
    ASSUME Inv, NEW others, Surprise(others), NEW c \in others, c \in Call,
           UNCHANGED <<issued, callVars>>, wire' \subseteq wire,
           \A verb, u : Message(c, verb, u) \in executed' <=> Message(c, verb, u) \in executed
    PROVE  LeadersInv(c)'
<1>1. LeadersInv(c) /\ (Relies(c)' => Relies(c))
    BY Facts DEF CallInv, Relies, callVars
<1>. SUFFICES ASSUME Relies(c) PROVE KeptInv(c)' /\ OthersInv(c)'
    BY <1>1 DEF LeadersInv
<1>2. KeptInv(c) /\ OthersInv(c)
    BY <1>1 DEF LeadersInv
<1>3. KeptInv(c)'
    BY <1>2 DEF KeptInv, Surprise, callVars, Message
<1>4. OthersInv(c)'
    <2>1. joined'[c] = joined[c] \cup (leaders' \ leaders)
        BY DEF Surprise
    <2>. QED
        BY <1>2, <2>1 DEF OthersInv, callVars, Message
<1>. QED
    BY <1>3, <1>4

\* Executing a write of a call does to the leaders what the call expects, and
\* surprises the others.
LEMMA ExecuteInv == ASSUME Inv, NEW w \in wire, Execute(w) PROVE Inv'
<1>. DEFINE c == w.call
<1>1. TypeOK /\ w \in Write /\ c \in Call /\ wire \cap accepted = {}
    BY DEF Inv, TypeOK, Write
<1>2. /\ TypeOK' /\ Sent' = Sent /\ wire' \subseteq wire /\ accepted \subseteq accepted'
      /\ wire' \cap accepted' = {}
    BY <1>1 DEF Execute, TypeOK, Sent, Write, Surprise, callVars
<1>3. ASSUME NEW d \in Call \ {c} PROVE LeadersInv(d)'
    <2>1. \A verb, u : Message(d, verb, u) \in executed' <=> Message(d, verb, u) \in executed
        BY DEF Message, Execute
    <2>. QED
        BY <1>2, <2>1, Surprised DEF Execute
<1>4. LeadersInv(c)'
    <2>1. SentInv(c) /\ Decided(c) /\ LeadersInv(c) /\ Relies(c)
        BY <1>1, Facts DEF CallInv, Decided, Relies, Sent
    <2>2. /\ c \in ousted' <=> c \in ousted
          /\ joined'[c] = joined[c]
          /\ UNCHANGED <<desired, relations>>
        BY <1>1 DEF Execute, Surprise, callVars, TypeOK
    <2>3. KeptInv(c) /\ OthersInv(c)
        BY <2>1 DEF LeadersInv
    <2>4. CASE w.verb = "add"
        <3>1. w.user = desired[c]
            BY <2>1, <2>4 DEF SentInv, Sent, Message
        <3>2. leaders' = leaders \cup {desired[c]} /\ executed' = executed \cup {w}
            BY <2>4, <3>1 DEF Execute
        <3>. QED
            BY <2>2, <2>3, <2>4, <3>2 DEF LeadersInv, KeptInv, OthersInv, Message
    <2>5. CASE w.verb = "delete"
        <3>1. w.user # desired[c]
            BY <2>1, <2>5 DEF SentInv, Sent, Message
        <3>2. leaders' = leaders \ {w.user} /\ executed' = executed \cup {w}
            BY <2>5 DEF Execute
        <3>. QED
            BY <2>2, <2>3, <2>5, <3>1, <3>2 DEF LeadersInv, KeptInv, OthersInv, Message
    <2>. QED
        BY <1>1, <2>4, <2>5 DEF Write
<1>. QED
    BY <1>2, <1>3, <1>4, CallsStay DEF Execute

\* An acknowledgement alone changes no leader.
LEMMA IgnoreInv == ASSUME Inv, NEW w \in wire, Ignore(w) PROVE Inv'
<1>1. TypeOK /\ w \in Write /\ wire \cap accepted = {}
    BY DEF Inv, TypeOK
<1>2. /\ TypeOK' /\ Sent' = Sent /\ wire' \subseteq wire /\ accepted \subseteq accepted'
      /\ wire' \cap accepted' = {}
    BY <1>1 DEF Ignore, TypeOK, Sent, callVars
<1>3. ASSUME NEW c \in Call PROVE LeadersInv(c)'
    <2>1. LeadersInv(c) /\ (Relies(c)' => Relies(c))
        BY Facts DEF CallInv, Relies, Ignore, callVars
    <2>. QED
        BY <2>1 DEF LeadersInv, KeptInv, OthersInv, Ignore, callVars, Message
<1>. QED
    BY <1>2, <1>3, CallsStay DEF Ignore

\* A refused write is forgotten.
LEMMA RefuseInv == ASSUME Inv, NEW w \in wire, Refuse(w) PROVE Inv'
<1>1. /\ TypeOK' /\ Sent' \subseteq Sent /\ wire' \subseteq wire
      /\ wire' \cap accepted' = {}
    BY DEF Inv, Refuse, TypeOK, Sent, callVars
<1>2. ASSUME NEW c \in Call PROVE LeadersInv(c)'
    <2>1. LeadersInv(c) /\ (Relies(c)' => Relies(c))
        BY Facts DEF CallInv, Relies, Refuse, callVars
    <2>. QED
        BY <2>1 DEF LeadersInv, KeptInv, OthersInv, Refuse, callVars, Message
<1>. QED
    BY <1>1, <1>2, CallsStay DEF Refuse

\* An edit surprises every call that relies on the leaders.
LEMMA EditInv == ASSUME Inv, Edit PROVE Inv'
<1>1. TypeOK'
    BY EditsAssumption DEF Inv, Edit, TypeOK, Surprise, callVars
<1>2. ASSUME NEW c \in Call PROVE LeadersInv(c)'
    BY Surprised DEF Edit
<1>. QED
    BY <1>1, <1>2, CallsStay, Facts DEF Edit, Sent, Inv

---------------------------------------------------------------------------
(* The theorems *)

\* The invariant is inductive.
LEMMA NextInv == ASSUME Inv, [Next]_vars PROVE Inv'
<1>1. CASE UNCHANGED vars
    <2>1. UNCHANGED <<leaders, edits, issued, wire, accepted, executed, ousted, joined>>
          /\ UNCHANGED callVars
        BY <1>1 DEF vars, callVars
    <2>2. TypeOK'
        BY <1>1 DEF Inv, TypeOK, vars
    <2>3. ASSUME NEW c \in Call PROVE LeadersInv(c)'
        BY <2>1, Facts DEF CallInv, LeadersInv, Relies, KeptInv, OthersInv, callVars, Message
    <2>. QED
        BY <2>1, <2>2, <2>3, CallsStay DEF Inv, Sent
<1>2. CASE \E c \in Call : Invoke(c) \/ Step(c) \/ Lost(c)
    <2>1. PICK c \in Call : Invoke(c) \/ Step(c) \/ Lost(c)
        BY <1>2
    <2>. QED
        BY <2>1, InvokeInv, LookupInv, ReadOwnersInv, PreviewInv, ConflictInv, NoOpInv,
           SendAddInv, StartRemovingInv, AddReturnsInv, AddFailsInv, SendDeleteInv,
           DeleteReturnsInv, DeleteFailsInv, RemovalsEndInv, RefreshInv, ReadFailsInv, LostInv
        DEF Step
<1>3. CASE \E w \in wire : Execute(w) \/ Ignore(w) \/ Refuse(w)
    BY <1>3, ExecuteInv, IgnoreInv, RefuseInv
<1>4. CASE Edit
    BY <1>4, EditInv
<1>. QED
    BY <1>1, <1>2, <1>3, <1>4 DEF Next

\* The invariant holds in every reachable state.
LEMMA Invariance == Spec => []Inv
BY InitInv, NextInv, PTL DEF Spec

\* Every variable keeps its type, and the relation whose DELETE is awaited is
\* still on the list of those to be removed.
THEOREM TypeCorrect == Spec => []TypeOK
<1>1. Inv => TypeOK
    BY DEF Inv
<1>. QED
    BY <1>1, Invariance, PTL

\* Every POST and DELETE of an assignment was shown by a preview of that change.
THEOREM WritesPreviewed == Spec => []WritesWerePreviewed
<1>1. ASSUME Inv PROVE WritesWerePreviewed
    <2>. SUFFICES ASSUME NEW w \in Sent
                  PROVE  \E d \in Call :
                            /\ answer[d] = "preview"
                            /\ desired[d] = desired[w.call]
                            /\ owners[d] = owners[w.call]
                            /\ IF w.verb = "add" THEN w.user = desired[d]
                               ELSE w.user \in relations[d] \ {desired[d]}
        BY DEF WritesWerePreviewed, Sent
    <2>1. w.call \in Call
        BY <1>1 DEF Inv, TypeOK, Sent, Write
    <2>2. SentInv(w.call) /\ Decided(w.call)
        BY <1>1, <2>1 DEF Inv, Decided
    <2>3. PICK d \in Call :
            /\ answer[d] = "preview"
            /\ given[w.call] = [desired |-> desired[d], owners |-> owners[d],
                                 relations |-> relations[d]]
        BY <1>1, <2>2 DEF Inv, IssuedInv, SentInv
    <2>4. /\ desired[d] = desired[w.call] /\ owners[d] = owners[w.call]
          /\ relations[d] = relations[w.call]
        BY <2>2, <2>3 DEF SentInv
    <2>5. IF w.verb = "add" THEN w.user = desired[w.call]
          ELSE w.user \in relations[w.call] \ {desired[w.call]}
        BY <2>2 DEF SentInv, Message
    <2>. QED
        BY <2>3, <2>4, <2>5
<1>. QED
    BY <1>1, Invariance, PTL

\* An assignment that answered applied has nothing left that could still be accepted.
THEOREM AnswersSettle == Spec => []AnswersSettleWrites
<1>1. Inv => AnswersSettleWrites
    BY DEF Inv, AnswersSettleWrites, PhaseInv, ProgressInv, Sent
<1>. QED
    BY <1>1, Invariance, PTL

\* An assignment leaves a lead without leaders only if somebody else removed the
\* assigned user meanwhile, or the POST that adds it was acknowledged and ignored.
THEOREM LastLeader == Spec => LastLeaderKept
<1>1. ASSUME Inv, [Next]_vars, NEW c \in Call, RemovesLastLeader(c)
      PROVE  c \in ousted \/ Ignored(c, "add", desired[c])
    <2>1. PICK w \in wire : w.call = c /\ w \in executed' \ executed
        BY <1>1 DEF RemovesLastLeader
    <2>2. executed' # executed
        BY <2>1
    <2>3. \A d \in Call : ~ (Invoke(d) \/ Step(d) \/ Lost(d))
        BY <2>2 DEF Invoke, Step, Lost, Lookup, ReadOwners, Preview, Conflict, NoOp, SendAdd,
              StartRemoving, AddReturns, AddFails, SendDelete, DeleteReturns, DeleteFails,
              NextRelation, RemovalsEnd, Refresh, ReadFails, Send, worldVars
    <2>4. PICK x \in wire : Execute(x)
        BY <1>1, <2>2, <2>3 DEF Next, vars, Ignore, Refuse, Edit
    <2>5. x = w
        BY <2>1, <2>4 DEF Execute
    <2>6. w.verb = "delete" /\ leaders' = leaders \ {w.user}
        BY <1>1, <2>4, <2>5 DEF Inv, TypeOK, Write, Execute, RemovesLastLeader
    <2>7. SentInv(c) /\ KeptInv(c) /\ Decided(c)
        BY <1>1, <2>1 DEF Inv, LeadersInv, Relies, Decided, Sent
    <2>8. w.user # desired[c] /\ Present(c)
        BY <2>1, <2>6, <2>7 DEF SentInv, Sent, Message
    <2>9. desired[c] \notin leaders
        BY <1>1, <2>6, <2>8 DEF RemovesLastLeader
    <2>. QED
        BY <2>7, <2>8, <2>9 DEF KeptInv, Present, Ignored
<1>2. Inv /\ [Next]_vars =>
        [\A c \in Call : RemovesLastLeader(c) =>
            c \in ousted \/ Ignored(c, "add", desired[c])]_vars
    BY <1>1
<1>. QED
    BY <1>2, Invariance, PTL DEF Spec, LastLeaderKept

\* When an assignment succeeds, each leader is its user, one that somebody else added, or
\* one whose removal Dolibarr acknowledged and ignored; and its user is a leader, unless
\* somebody else removed it or Dolibarr ignored the POST.
THEOREM SoleOwnerOnSuccess == Spec => SuccessMeansSoleOwner
<1>1. ASSUME Inv, [Next]_vars, NEW c \in Call, Succeeds(c)
      PROVE  LeadersExplained(c)
    <2>1. answer'[c] # answer[c] /\ answer'[c] \in {"applied", "no_op"} /\ TypeOK
        BY <1>1 DEF Succeeds, Inv
    <2>2. PICK d \in Call : Invoke(d) \/ Step(d) \/ Lost(d)
        BY <1>1, <2>1 DEF Next, vars, Execute, Ignore, Refuse, Edit, callVars
    <2>3. NoOp(d) \/ Refresh(d)
        BY <2>1, <2>2 DEF TypeOK, Invoke, Step, Lost, Lookup, ReadOwners, Preview, Conflict,
              SendAdd, StartRemoving, AddReturns, AddFails, SendDelete, DeleteReturns,
              DeleteFails, NextRelation, RemovalsEnd, ReadFails, Finish
    <2>4. d = c
        BY <2>1, <2>3 DEF TypeOK, NoOp, Refresh, Finish
    <2>5. CASE NoOp(c)
        BY <2>5 DEF NoOp, SoleOwner, LeadersExplained
    <2>6. CASE Refresh(c)
        <3>1. pc[c] = "refresh" /\ c \notin failures
            BY <2>1, <2>6 DEF TypeOK, Refresh, Finish
        <3>2. /\ Present(c)
              /\ \A u \in relations[c] \ {desired[c]} : Message(c, "delete", u) \in accepted
              /\ KeptInv(c) /\ OthersInv(c)
            BY <1>1, <3>1 DEF Inv, ProgressInv, LeadersInv, Relies
        <3>3. desired[c] \in leaders \/ c \in ousted \/ Ignored(c, "add", desired[c])
            BY <3>2 DEF KeptInv, Present, Ignored
        <3>4. \A u \in leaders \ {desired[c]} : u \in joined[c] \/ Ignored(c, "delete", u)
            BY <3>2 DEF OthersInv, Ignored
        <3>. QED
            BY <3>3, <3>4 DEF LeadersExplained
    <2>. QED
        BY <2>3, <2>4, <2>5, <2>6
<1>2. Inv /\ [Next]_vars => [\A c \in Call : Succeeds(c) => LeadersExplained(c)]_vars
    BY <1>1
<1>. QED
    BY <1>2, Invariance, PTL DEF Spec, SuccessMeansSoleOwner
=============================================================================
