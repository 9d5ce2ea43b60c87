\* Clients that stay connected.
SPECIFICATION Spec
CONSTANTS
    NumConns = 3
    NumWorkers = 1
    WaitLimit = 1
PROPERTY StopsImmediately
CHECK_DEADLOCK FALSE
