SPECIFICATION Spec
CONSTANTS
    p1 = p1
    p2 = p2
    k1 = k1
    k2 = k2
    app = app
    auth = auth
    t1 = t1
    t2 = t2
    Procs <- TwoProcs
    Keys <- TwoKeys
    Schemas <- TwoSchemas
    Managed <- Platform
    Owned <- Mine
    Objects <- Tables
    Uses <- Trigger
    Contents <- Dumped
    Jobs <- SomeJobs
    Local = FALSE
    Encoded = TRUE
    MaxRestores = 2
    MaxFaults = 1
CHECK_DEADLOCK FALSE
SYMMETRY Symmetry
PROPERTIES
    PlatformUntouched
