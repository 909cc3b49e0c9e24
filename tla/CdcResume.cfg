SPECIFICATION FairSpec
CONSTANTS
    MaxEvents = 3
    RowsOf <- MCRowsOf
    FileOf <- MCFileOf
    FileStart <- MCFileStart
    BadRows = {}
    SaveEvery = 2
    ResumeStream = TRUE
    Enabled <- MCOn
    DiskMayFail = FALSE
    MaxFaults = 2
    MaxBoots = 2
INVARIANTS OnceInOrder ReplayBound 
PROPERTIES KeepsUp ImplementsFeed
\* A process that has exited need not be started again.
CHECK_DEADLOCK FALSE
