CONSTANTS
    Invalid = Invalid
    NoRow = NoRow
    NotAsked = NotAsked
    DefaultHigh = 40
    Columns <- MCColumns
    Plans <- MCMonthPlans
SPECIFICATION Spec
INVARIANT EligibleIsSound
