SPECIFICATION FairSpec
CONSTANTS
    c1 = c1
    c2 = c2
    Conns <- MCConns
    MaxMsg = 2
    MaxPings = 1
    Capacity = 1
INVARIANTS TypeOK PoolMatchesEndpoints EachMemberOnce
PROPERTIES BroadcastEnds GoneIsForgotten
\* When all clients have come and gone and all messages are sent, nothing is left.
CHECK_DEADLOCK FALSE
