\* Two previews and two assignments that cross, of two users, nobody else writing.
SPECIFICATION Spec
CONSTANTS
    c1 = c1
    c2 = c2
    c3 = c3
    c4 = c4
    u1 = u1
    u2 = u2
    u3 = u3
    Nil = Nil
    Call = {c1, c2, c3, c4}
    User = {u1, u2}
    MaxEdits = 0
PROPERTIES
    LastLeaderKept
    SuccessMeansSoleOwner
SYMMETRY Symmetry
CHECK_DEADLOCK FALSE
