CONSTANTS
    a = a
    b = b
    e = e
    Self = a
    Owners = {b, e}
    HasPart = {b}
    NRows <- MCNRows
    PullSizes = {1, 2}
    MaxBuffered = 2
    Batch = 3
    MaxTimeouts = 2
SPECIFICATION FairSpec
INVARIANTS
    BufferCap
    Conservation
    LastMeansAll
    TakenInOrder
    FinishedIsDropped
    CancelStopsProducer
PROPERTY CallerFinishes
