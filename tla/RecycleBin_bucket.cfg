SPECIFICATION Spec
CONSTANTS
    p1 = p1
    p2 = p2
    Procs <- TwoProcs
    MaxBackups = 2
    MaxWrites = 7
    MinKept = 1
    MaxKept = 1
    Local = FALSE
SYMMETRY Symmetry
INVARIANTS
    MinBackupsStay
PROPERTIES
    SoftDeletion
