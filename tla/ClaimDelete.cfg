\* Deletions by id beside deliveries; ids do not wrap.
SPECIFICATION Spec
CONSTANTS
    c1 = c1
    c2 = c2
    d1 = d1
    None = None
    Clients = {c1, c2}
    Payloads = {0}
    PayloadLen <- NoLen
    MaxPayload = 0
    IdMax = 6
    DrainVec = 10
    Timeouts = {0}
    Commands = {"Enqueue", "Dequeue", "DeleteM"}
    Deliveries = {d1}
    WritesFail = FALSE
    Capacity = 0
    MaxOrder = 3
    MaxHeld = 2
SYMMETRY Symmetry
VIEW View
PROPERTY KeepsUnnamed
