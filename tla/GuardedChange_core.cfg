SPECIFICATION Spec
CONSTANTS
    p1 = p1
    p2 = p2
    d1 = d1
    Procs <- TwoProcs
    Data <- OneDatum
    MaxCheckpoints = 2
    MaxCrashes = 2
    Keep = 1
    SharedStore = TRUE
    Postgres = TRUE
    Linked = FALSE
    OutsideWriters = FALSE
SYMMETRY Symmetry
INVARIANTS
    TypeOK
    LockedAlone
    NothingLost
    RestoreExact
    CheckpointFirst
