CONSTANTS
    r1 = r1
    r2 = r2
    self = self
    Self = self
    Owners = {r1, r2}
    Rids = {r1, r2}
    HasPart = {r1, r2}
    NRows <- MCNRows
    MaxBuffered = 1
    Batch = 1
    PullSizes = {1, 2}
    MaxTimeouts = 1
    Hints = {0, 9}
    InitialRows = 1
    MinRows = 1
    MaxRows = 2
    Modes = {"fifo", "weighted_round_robin"}
    Unruly = {r1}
    Hasty = {r2}
SPECIFICATION FairTableSpec
INVARIANTS
    WithinBounds
    AlwaysAdapts
    EntryForKnownOnly
PROPERTIES
    SteadyCallersFinish
    ProducerIsFair
