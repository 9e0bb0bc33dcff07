\* What the README says of the bound; the code also refuses a table of exactly that size.
SPECIFICATION Spec
CONSTANTS
    PageSize = 2
    Pages = 3
    MaxRow = 7
INVARIANTS
    FailsOnlyBeyondBound
CHECK_DEADLOCK FALSE
