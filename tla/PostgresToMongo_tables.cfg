SPECIFICATION FairSpec
CONSTANTS
    Tables <- Shop
    Plural <- Plurals
    Designs <- AllDesigns
    Contents <- AllContents
    MaxId = 3
    BatchSize = 2
    MaxWrites = 1
    MaxRuns = 2
    MaxFailures = 1
INVARIANTS
    PlacesFilled
    PagesComplete
    NoLeftovers
PROPERTIES
    RunEnds
