SPECIFICATION Spec
CONSTANTS
    n1 = n1
    n2 = n2
    e1 = e1
    e2 = e2
    b1 = b1
    b2 = b2
    email = email
    slack = slack
    Names <- TwoNames
    Entries <- SomeEntries
    FirstFiles <- First
    Editors <- TwoEditors
    Backups <- TwoBackups
    Channels <- TwoChannels
    MinKept = 0
    MaxSchedules = 2
    MaxEvents = 4
CHECK_DEADLOCK FALSE
SYMMETRY Symmetry
INVARIANTS
    JobsFollowFile
    CompletedStored
    OneVerdict
