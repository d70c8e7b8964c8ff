CONSTANTS
    r1 = r1
    r2 = r2
    r3 = r3
    Rids = {r1, r2, r3}
    Weights = {1, 3}
    Modes = {"fifo", "round_robin", "weighted_round_robin"}
SPECIFICATION FairSpec
INVARIANTS
    CursorOnEntry
    EntriesAreSound
PROPERTY NoStarvation
