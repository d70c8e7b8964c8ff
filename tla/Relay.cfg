CONSTANTS
    a = a
    b = b
    c = c
    Self = a
    Owners = {a, b, c}
    HasPart = {a, b, c}
    Eligible = {a, b, c}
    NRows <- MCRemoteRows
    Pos <- MCPos
    Hop <- MCHop
    PullMax <- MCPullMax
    MaxBuffered = 2
    Batch = 2
    FetchSizes = {2}
    MaxAttempts = 2
    Loading = {b, c}
    ClientActs = {"cancel"}
    MaxTimeouts = 0
    MaxCrashes = 0
    MaxLate = 1
SPECIFICATION Spec
INVARIANTS
    DoneIsReleased
    CancelReachesNeighbours
    HitsAreHonest
    DirectForwardRegisters
