SPECIFICATION FairSpec
CONSTANTS
    r1 = r1
    r2 = r2
    Requests <- MCRequests
    SshModes <- MCSsh
    PoolMax = 2
    MaxFaults = 1
    MaxStray = 2
PROPERTY SelfHealing
\* A session that has shut down does nothing more.
CHECK_DEADLOCK FALSE
