SPECIFICATION FairSpec
CONSTANTS
    Value <- MCValue
    Mhz <- MCMhz
    Kilometres <- MCKilometres
    LinkUp <- MCLinkUp
    InitRows <- MCInitRows
    Requests <- SafeRequests
    Edits <- NoEdits
    Name = {n1}
    Granule = 30
    CallLimit = 30
    Lossy = TRUE
    OneAtATime = TRUE
    Settings <- MCSettings
INVARIANTS
    Recoverable
    ConfirmedChangeStays
    NeverFiresMidCac
PROPERTIES
    CommitsOrRollsBack
    SelfHeals
