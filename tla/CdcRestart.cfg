SPECIFICATION Spec
CONSTANTS
    MaxEvents = 3
    RowsOf <- MCRowsOf
    FileOf <- MCFileOf
    FileStart <- MCFileStart
    BadRows = {}
    SaveEvery = 2
    ResumeStream = TRUE
    Enabled <- MCOn
    DiskMayFail = FALSE
    MaxFaults = 0
    MaxBoots = 2
INVARIANT ResumesSeamlessly
\* A process that has exited need not be started again.
CHECK_DEADLOCK FALSE
