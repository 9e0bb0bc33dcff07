\* A stage that the catalog calls inactive, observed with a code that it does not list.
SPECIFICATION Spec
CONSTANTS
    c1 = c1
    c2 = c2
    c3 = c3
    s1 = s1
    s2 = s2
    k1 = k1
    u1 = u1
    Nil = Nil
    Call = {c1, c2}
    Operation = {"thirdparty_update", "lead_update", "lead_change_status", "lead_open_project", "lead_close_project", "task_assign"}
    Stage = {s1, s2}
    Catalog <- OneInactive
    Unlisted = {u1}
    MaxEdits = 1
INVARIANTS
    InactiveStagesAreNotWritten
SYMMETRY Symmetry
CHECK_DEADLOCK FALSE
