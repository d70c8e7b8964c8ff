CONSTANTS
    a = a
    b = b
    c = c
    Self = a
    Owners = {a, b, c}
    HasPart = {a, b, c}
    Eligible = {a, b, c}
    NRows <- MCRows
    Pos <- MCPos
    Hop <- MCHop
    PullMax <- MCPullMax
    MaxBuffered = 2
    Batch = 2
    FetchSizes = {2}
    MaxAttempts = 2
    Loading = {c}
    ClientActs = {}
    MaxTimeouts = 0
    MaxCrashes = 0
    MaxLate = 0
SPECIFICATION Spec
INVARIANTS
    ForwardRegisters
CHECK_DEADLOCK FALSE
