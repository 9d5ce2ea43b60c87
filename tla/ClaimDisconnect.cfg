\* Auto-fail on, writes succeed, and the consumer's connection may end.
SPECIFICATION DisconnectSpec
CONSTANTS
    c1 = c1
    c2 = c2
    d1 = d1
    d2 = d2
    None = None
    Clients = {c1, c2}
    Payloads = {0}
    PayloadLen <- NoLen
    MaxPayload = 0
    IdMax = 2
    DrainVec = 2
    Timeouts = {0, 1}
    Commands = {"Enqueue", "Dequeue", "Succeeded"}
    Deliveries = {d1}
    WritesFail = FALSE
    Capacity = 0
    MaxOrder = 2
    MaxHeld = 2
PROPERTY LocksExpireAfterDisconnect
