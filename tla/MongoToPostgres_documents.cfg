SPECIFICATION FairSpec
CONSTANTS
    Collections <- Blog
    Refers <- BlogRefers
    Shapes <- BlogShapes
    MaxId = 2
    Initial <- BlogInitial
    SampleSize = 1
    BatchSize = 2
    MaxRows = 2
    MaxWrites = 1
    Modes <- BlogModes
    MaxRuns = 2
    MaxFailures = 1
INVARIANTS
    KidsHaveParents
    Accounted
    TwiceOnlyAfterRefusal
PROPERTIES
    DryRunApart
    RunEnds
