SPECIFICATION Spec
CONSTANTS
    w1 = w1
    w2 = w2
    root = root
    ann = ann
    Workers <- MCWorkers
    Users <- MCUsers
    Defaults <- MCDefaults
    DefaultRole <- MCDefaultRole
    DiskMayFail = FALSE
    MaxOps = 2
    MaxStarts = 2
    MaxTime = 2
    MaxLog = 2
    PageSize = 1
    MaxEntries = 3
INVARIANTS TypeOK NewestFirst KeepsNewest PagingMissesNothing EntriesFollowChanges ChangesAreTold
SYMMETRY Symmetry
\* The bounds end every behaviour.
CHECK_DEADLOCK FALSE
