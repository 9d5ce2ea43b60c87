\* Three connections and one worker with room for one more: a send is still
\* blocked when main ends.  The process may end.
SPECIFICATION LeavingSpec
CONSTANTS
    NumConns = 3
    NumWorkers = 1
    WaitLimit = 1
INVARIANT TypeOK
PROPERTY StopEnds
CHECK_DEADLOCK FALSE
