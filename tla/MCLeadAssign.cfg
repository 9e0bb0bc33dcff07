\* A preview and a confirmed assignment, or two previews, and one edit by others.
SPECIFICATION Spec
CONSTANTS
    c1 = c1
    c2 = c2
    c3 = c3
    c4 = c4
    u1 = u1
    u2 = u2
    u3 = u3
    Nil = Nil
    Call = {c1, c2}
    User = {u1, u2, u3}
    MaxEdits = 1
INVARIANTS
    TypeOK
    WritesWerePreviewed
    AnswersSettleWrites
PROPERTIES
    SuccessMeansSoleOwner
    EveryCallIsAnswered
CHECK_DEADLOCK FALSE
