\* A preview and a confirmed call of each operation, and one edit by others.
SPECIFICATION Spec
CONSTANTS
    c1 = c1
    c2 = c2
    c3 = c3
    s1 = s1
    s2 = s2
    k1 = k1
    u1 = u1
    Nil = Nil
    Call = {c1, c2}
    Operation = {"thirdparty_update", "lead_update", "lead_change_status", "lead_open_project", "lead_close_project", "task_assign"}
    Stage = {s1, s2}
    Catalog <- OneActive
    Unlisted = {u1}
    MaxEdits = 1
INVARIANTS
    TypeOK
    WritesWerePreviewed
    AnswersSettleWrites
    AppliedIsThere
    AssignedAgrees
PROPERTIES
    TokensAreSpent
    WritesFollowLifecycle
SYMMETRY Symmetry
CHECK_DEADLOCK FALSE
