\* What the documents say of a failure after the first write; the code disagrees.
SPECIFICATION Spec
CONSTANTS
    c1 = c1
    c2 = c2
    c3 = c3
    c4 = c4
    u1 = u1
    u2 = u2
    u3 = u3
    Nil = Nil
    Call = {c1, c2}
    User = {u1, u2, u3}
    MaxEdits = 1
INVARIANTS
    FailureAfterWriteIsPartial
CHECK_DEADLOCK FALSE
