SPECIFICATION Spec
CONSTANTS
    MaxId = 4
    Text <- MCText
    Numeric <- MCNumeric
    InitRows <- MCInitRows
    Requests <- MCRequests
    Edits <- MCEdits
    Lossy = TRUE
INVARIANTS
    RefusesAmbiguity
    JournalTells
PROPERTIES
    OnlyTheNamedRow
    AddsNoDuplicate
CHECK_DEADLOCK FALSE
