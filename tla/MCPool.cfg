\* Three connections, two workers with room for one waiting connection each.
\* All connections may be over.
SPECIFICATION PoolSpec
CONSTANTS
    NumConns = 3
    NumWorkers = 2
    WaitLimit = 1
INVARIANTS JobsKept CountersExact
PROPERTY AcceptedIsServed
CHECK_DEADLOCK FALSE
