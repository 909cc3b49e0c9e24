SPECIFICATION FairSpec
CONSTANTS
    Rows <- MCRows
    Rate = 2
    Threads = 2
    MaxJobs = 1
    MaxTime = 4
    MaxSet = 1
INVARIANTS NoFlood
PROPERTIES SilencedByMailOnly HandlersSettle
\* All events are handled, and the bounds are used up.
CHECK_DEADLOCK FALSE
