SPECIFICATION FairSpec
CONSTANTS
    p1 = p1
    p2 = p2
    Procs <- OneProc
    MaxBackups = 2
    MaxWrites = 7
    MinKept = 1
    MaxKept = 1
    Local = TRUE
PROPERTIES
    CopiesWhole
    TrashEmptied
