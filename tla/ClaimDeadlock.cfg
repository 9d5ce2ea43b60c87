\* A request on one queue beside a CreateQ.
SPECIFICATION FairSpec
CONSTANTS
    t1 = t1
    t2 = t2
    t3 = t3
    n1 = n1
    h1 = h1
    h2 = h2
    h3 = h3
    None = None
    Tasks = {t1, t2, t3}
    Names = {n1}
    Hashes = {h1, h2, h3}
    Commands = {"Queue", "CreateQ"}
PROPERTY EveryRequestAnswered
CHECK_DEADLOCK FALSE
