SPECIFICATION Spec
CONSTANTS
    Value <- MCValue
    Mhz <- MCMhz
    Kilometres <- MCKilometres
    LinkUp <- MCLinkUp
    InitRows <- RegulatoryOnly
    Requests <- RetriedRequests
    Edits <- NoEdits
    Name = {n1, n2}
    Granule = 30
    CallLimit = 30
    Lossy = FALSE
    OneAtATime = FALSE
INVARIANT ConfirmedChangeStays
