SPECIFICATION Spec
CONSTANTS
    n1 = n1
    Nodes <- MCNodes
    Reports <- MCReports
    Timeout = 3
    Period = 2
    Late = 1
    MaxTime = 12
INVARIANTS TypeOK UnheardIsOffline
PROPERTY OnlyUnheardGoOffline
