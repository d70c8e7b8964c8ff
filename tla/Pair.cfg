CONSTANTS
    a = a
    b = b
    c = c
    Self = a
    Owners = {a, b}
    HasPart = {a, b}
    Eligible = {a, b}
    NRows <- MCPairRows
    Pos <- MCPairPos
    Hop <- MCPairHop
    PullMax <- MCPairPullMax
    MaxBuffered = 2
    Batch = 2
    FetchSizes = {1, 3}
    MaxAttempts = 2
    Loading = {}
    ClientActs = {"cancel", "cancelDuringFetch", "abandon", "timeout"}
    MaxTimeouts = 0
    MaxCrashes = 0
    MaxLate = 0
SPECIFICATION Spec
INVARIANTS
    BoundedMemory
    ChunkHasRows
PROPERTIES
    ImplementsStream
