CONSTANTS
    a = a
    b = b
    c = c
    Self = a
    DataOwners <- MCOwners
    Shards <- MCShards
    MaxBuffered = 2
    Batch = 3
    FetchSizes = {2}
    ClientActs = {"cancel"}
    MaxFaults = 1
SPECIFICATION FairSpec
INVARIANTS
    BoundedMemory
    RowsConserved
    OnlyPrefixes
    LastMeansAll
    EndedIsReleased
PROPERTY QueryEnds
