SPECIFICATION Spec
CONSTANTS
    Value <- MCValue
    Mhz <- MCMhz
    Kilometres <- MCKilometres
    LinkUp <- MCLinkUp
    InitRows <- PartialInitRows
    Requests <- AnyRequests
    Edits <- AnyEdits
    Name = {n1, n2}
    Granule = 30
    CallLimit = 60
    Lossy = TRUE
    OneAtATime = FALSE
SYMMETRY NameSymmetry
INVARIANTS
    ArmedBeforeWrite
    NothingUnprotected
