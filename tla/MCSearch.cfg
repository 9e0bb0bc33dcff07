\* Up to five rows, listed in pages of two, returned one by one; one edit by others.
SPECIFICATION SearchSpec
CONSTANTS
    Row <- SomeRows
    PageSize = 2
    Pages = 2
    Limit = 1
    MaxRow = 5
    MaxEdits = 1
INVARIANTS
    ListedOnce
    MissedOnlyByDeletion
    SearchTypeOK
    WalkIsComplete
    OwnerIsShown
CHECK_DEADLOCK FALSE
