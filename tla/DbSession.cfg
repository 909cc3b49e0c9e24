SPECIFICATION FairSpec
CONSTANTS
    r1 = r1
    r2 = r2
    Requests <- MCRequests
    SshModes <- MCBoth
    PoolMax = 2
    MaxFaults = 2
    MaxStray = 2
INVARIANTS TypeOK HealthyIsUsable NoOrphanConnections
PROPERTIES ShutdownIsFinal RecoversDirect ShutdownEnds
\* A session that has shut down does nothing more.
CHECK_DEADLOCK FALSE
