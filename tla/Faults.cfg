CONSTANTS
    a = a
    b = b
    c = c
    Self = a
    Owners = {a, b}
    HasPart = {a, b}
    Eligible = {a, b}
    NRows <- MCRemoteFew
    Pos <- MCPairPos
    Hop <- MCPairHop
    PullMax <- MCPullOne
    MaxBuffered = 2
    Batch = 2
    FetchSizes = {2}
    MaxAttempts = 2
    Loading = {b}
    ClientActs = {"cancel", "cancelDuringFetch"}
    MaxTimeouts = 2
    MaxCrashes = 1
    MaxLate = 0
SPECIFICATION FairSpec
INVARIANTS
    TypeOK
    DoneIsFinal
    CancelQuiesces
    NoRowTwice
PROPERTIES
    QueryEnds
    CancelReturns
