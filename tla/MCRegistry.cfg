\* Every request, three handlers; two hashes, one of which a queue without a
\* name may have.  The handlers can block one another for ever
\* (ClaimDeadlock.cfg), so TLC is not to report it here.
SPECIFICATION FairSpec
CONSTANTS
    t1 = t1
    t2 = t2
    t3 = t3
    n1 = n1
    h1 = h1
    h2 = h2
    None = None
    Tasks = {t1, t2, t3}
    Names = {n1}
    Hashes = {h1, h2}
    Commands = {"Queue", "CreateQ", "DeleteQ", "ListM", "NetStats"}
INVARIANTS TypeOK WorksOnRegistered NoHalfRegistered
PROPERTIES NoNewNameless AnsweredWithoutQueueRequests
CHECK_DEADLOCK FALSE
