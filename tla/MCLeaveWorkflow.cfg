\* A preview and a confirmed call, or two of either, of any operation on one holiday, and one
\* edit by others.
SPECIFICATION Spec
CONSTANTS
    c1 = c1
    c2 = c2
    c3 = c3
    c4 = c4
    h1 = h1
    h2 = h2
    r1 = r1
    Nil = Nil
    Absent = Absent
    Call = {c1, c2}
    Holiday = {h1}
    Reason = {r1}
    Day <- TwoDays
    Offered <- AllOps
    MaxEdits = 1
INVARIANTS
    TypeOK
    WritesWerePreviewed
    AnswersSettleWrites
    ReversedOnlyByStaleUpdate
PROPERTIES
    WritesFollowWorkflow
    TokensAreSpent
    ImplementsConfirmedWrite
SYMMETRY CallSymmetry
CHECK_DEADLOCK FALSE
