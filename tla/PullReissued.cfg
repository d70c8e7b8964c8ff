CONSTANTS
    a = a
    b = b
    c = c
    Self = a
    Owners = {a, b}
    HasPart = {a, b}
    Eligible = {a, b}
    NRows <- MCFewRows
    Pos <- MCPairPos
    Hop <- MCPairHop
    PullMax <- MCPairPullMax
    MaxBuffered = 2
    Batch = 2
    FetchSizes = {2}
    MaxAttempts = 2
    Loading = {}
    ClientActs = {}
    MaxTimeouts = 1
    MaxCrashes = 0
    MaxLate = 0
SPECIFICATION Spec
INVARIANTS
    FullHitIsComplete
CHECK_DEADLOCK FALSE
