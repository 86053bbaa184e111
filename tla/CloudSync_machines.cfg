SPECIFICATION Spec
CONSTANTS
    p1 = p1
    p2 = p2
    a = a
    b = b
    k1 = k1
    k2 = k2
    h1 = h1
    none = none
    Dirs <- TwoDirs
    Procs <- TwoProcs
    Dir <- Apart
    Keys <- TwoKeys
    Hashes <- OneHash
    ForceFlags <- Both
    Absent = none
    MaxAttempts = 2
    MaxJobs = 3
    MaxEdits = 2
    MaxFailures = 1
SYMMETRY Resource
INVARIANTS
    BaselineHonest
    WholeConfigs
    JobsKept
    AppliedOnce
PROPERTIES
    SharedSpec
