SPECIFICATION Spec
CONSTANTS
    MaxEvents = 3
    RowsOf <- MCRowsOf
    FileOf <- MCFileOf
    FileStart <- MCFileStart
    BadRows <- MCBadRows
    SaveEvery = 2
    ResumeStream = FALSE
    Enabled <- MCOnOff
    DiskMayFail = TRUE
    MaxFaults = 2
    MaxBoots = 2
INVARIANTS RowAccounting StatusSettles
PROPERTY FeedContiguous ImplementsFeed
\* A process that has exited need not be started again.
CHECK_DEADLOCK FALSE
