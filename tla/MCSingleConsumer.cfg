\* One consumer beside a producer, messages with two different payloads.
SPECIFICATION DisciplinedSpec
CONSTANTS
    c1 = c1
    c2 = c2
    d1 = d1
    None = None
    Clients = {c1, c2}
    Consumer = c1
    Payloads = {"a", "b"}
    PayloadLen <- NoLen
    MaxPayload = 0
    IdMax = 5
    DrainVec = 3
    Timeouts = {0}
    Commands = {}
    Deliveries = {d1}
    WritesFail = FALSE
    Capacity = 0
    MaxOrder = 4
    MaxHeld = 3
INVARIANT Partition
PROPERTY ImplementsFifo
