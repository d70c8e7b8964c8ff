CONSTANTS
    Invalid = Invalid
    NoRow = NoRow
    NotAsked = NotAsked
    DefaultHigh = 40
    Columns <- MCColumns
    Plans <- MCPlans
SPECIFICATION Spec
INVARIANTS
    LoadIsComplete
    NothingPruned
    OverlayIsRead
    ForwardsArrive
    FullHitIsExact
PROPERTY HopsApproach
