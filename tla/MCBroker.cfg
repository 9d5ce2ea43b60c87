\* Two clients send every request there is, UpdateQ included.
SPECIFICATION Spec
CONSTANTS
    c1 = c1
    c2 = c2
    d1 = d1
    None = None
    Clients = {c1, c2}
    Payloads = {0}
    PayloadLen <- NoLen
    MaxPayload = 0
    IdMax = 2
    DrainVec = 2
    Timeouts = {0, 1}
    Commands = {"Enqueue", "Dequeue", "DeleteM", "Succeeded", "Failed", "Requeue", "UpdateM", "UpdateQ"}
    Deliveries = {d1}
    WritesFail = TRUE
    Capacity = 0
    MaxOrder = 3
    MaxHeld = 2
SYMMETRY Symmetry
VIEW View
INVARIANTS TypeOK StoredInOrder HolderCanRelease StatsCoverLocks
PROPERTY OthersUntouched
