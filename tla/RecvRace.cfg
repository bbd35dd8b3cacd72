SPECIFICATION Spec
CONSTANTS
    p1 = p1
    p2 = p2
    t1 = t1
    t2 = t2
    ModelsOf <- TwoAndNone
    Threads = {t1, t2}
    Publishers = {p1}
    N = 2
    CyclesPerSecond = 2
    BufferCycles = 0
    MaxDcu = 5
    QueueSize = 1
    FirstKey = 2
    LastKey = 4
    MaxCopies = 3
SYMMETRY ThreadSymmetry
INVARIANTS
    TypeOK
    EveryMessageAccounted
    WokenForStoredCycle
PROPERTIES
    ImplementsChannel
CHECK_DEADLOCK FALSE
