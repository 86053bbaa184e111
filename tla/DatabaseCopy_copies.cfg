SPECIFICATION FairSpec
CONSTANTS
    Names <- Shop
    Refs <- ShopRefs
    Keyed <- ShopKeyed
    Typed <- ShopTyped
    MaxId = 2
    BatchSize = 1
    MaxRetries = 1
    Modes <- AllModes
    MaxWrites = 2
    MaxFailures = 1
INVARIANTS
    CopiedRight
    FreshIds
    KeysComplete
    DataAccepted
PROPERTIES
    Ends
