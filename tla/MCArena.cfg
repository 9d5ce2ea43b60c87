SPECIFICATION Spec
CONSTANTS
    t1 = t1
    t2 = t2
    None = None
    Threads = {t1, t2}
    Layouts <- SomeLayouts
    Capacity = 64
    Reservations = {24}
    DefragEvery = 2
    DefragThread = TRUE
SYMMETRY ThreadSymmetry
INVARIANTS TypeOK OneOwner ValueFits UsedIsExact FreeMemory
