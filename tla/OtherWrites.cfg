SPECIFICATION Spec
CONSTANTS
    Literals = {"ip1", "ip2", "ip3"}
    InitDevices <- MCInitDevices
    Requests <- MCRequests
    Edits <- MCEdits
    MaxId = 6
    MaxEdits = 2
    Lossy = TRUE
INVARIANTS
    NeverRefused
    ServersAccountedFor
    BroadcastsIt
    NotFoundIsTrue
PROPERTIES
    OnlyItsOwnPart
    AddsNoPeerTwice
