SPECIFICATION FairSpec
CONSTANTS
    p1 = p1
    p2 = p2
    d1 = d1
    Procs <- OneProc
    Data <- NoData
    MaxCheckpoints = 3
    MaxCrashes = 1
    Keep = 1
    SharedStore = FALSE
    Postgres = FALSE
    Linked = TRUE
    OutsideWriters = FALSE
INVARIANTS
    CloudHonest
    UndoesLastChange
PROPERTIES
    RecordsFinal
    LockReleased
    EventuallySent
