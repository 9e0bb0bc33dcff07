\* A preview and a confirmed create of each kind, on pages of one row, and one edit by others.
SPECIFICATION Spec
CONSTANTS
    c1 = c1
    c2 = c2
    c3 = c3
    l1 = l1
    m1 = m1
    x1 = x1
    y1 = y1
    Nil = Nil
    Call = {c1, c2}
    Kind = {"thirdparty", "lead", "project", "task"}
    Label = {l1}
    Mail = {m1}
    Context = {x1}
    Parent = {y1}
    PageSize = 1
    Pages = 2
    MaxRow = 2
    MaxEdits = 1
INVARIANTS
    TypeOK
    WritesWerePreviewed
    DuplicatesWereFound
    AnswersSettleWrites
PROPERTIES
    TokensAreSpent
SYMMETRY Symmetry
CHECK_DEADLOCK FALSE
