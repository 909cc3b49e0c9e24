SPECIFICATION Spec
CONSTANTS
    w1 = w1
    w2 = w2
    root = root
    ann = ann
    Workers <- MCWorkers
    Users <- MCUsers
    Defaults <- MCDefaults
    DefaultRole <- MCDefaultRole
    DiskMayFail = TRUE
    MaxOps = 3
    MaxStarts = 3
    MaxTime = 3
INVARIANTS FileIsLastSavers UptimeWithinTime
PROPERTY LastAdminGoesByDeletion
\* The bounds end every behaviour.
CHECK_DEADLOCK FALSE
