\* Auto-fail on, writes succeed: liveness, without symmetry or view.
SPECIFICATION TimedSpec
CONSTANTS
    c1 = c1
    c2 = c2
    d1 = d1
    d2 = d2
    None = None
    Clients = {c1, c2}
    Payloads = {0}
    PayloadLen <- NoLen
    MaxPayload = 0
    IdMax = 2
    DrainVec = 2
    Timeouts = {0, 1}
    Commands = {"Enqueue", "Dequeue", "DeleteM", "Succeeded"}
    Deliveries = {d1, d2}
    WritesFail = FALSE
    Capacity = 0
    MaxOrder = 2
    MaxHeld = 1
INVARIANT LockIsTimed
PROPERTY LocksExpire
