CONSTANTS
    a = a
    b = b
    c = c
    Self = a
    Owners = {a, b}
    HasPart = {a, b}
    Eligible = {a, b}
    NRows <- MCFewRows
    Pos <- MCPairPos
    Hop <- MCPairHop
    PullMax <- MCPairPullMax
    MaxBuffered = 2
    Batch = 2
    FetchSizes = {2}
    MaxAttempts = 2
    Loading = {}
    ClientActs = {}
    MaxTimeouts = 0
    MaxCrashes = 0
    MaxLate = 0
SPECIFICATION FairSpec
PROPERTIES
    FetchReturns
CHECK_DEADLOCK FALSE
