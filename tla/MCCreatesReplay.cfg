\* A preview and two creates that are confirmed with its token, nobody else writing.
SPECIFICATION Spec
CONSTANTS
    c1 = c1
    c2 = c2
    c3 = c3
    l1 = l1
    m1 = m1
    x1 = x1
    y1 = y1
    Nil = Nil
    Call = {c1, c2, c3}
    Kind = {"lead", "task"}
    Label = {l1}
    Mail = {m1}
    Context = {x1}
    Parent = {y1}
    PageSize = 1
    Pages = 2
    MaxRow = 3
    MaxEdits = 0
INVARIANTS
    CreatedTwiceOnlyByRace
PROPERTIES
    ImplementsConfirmedWrite
SYMMETRY Symmetry
CHECK_DEADLOCK FALSE
