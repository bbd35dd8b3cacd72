SPECIFICATION FairSpec
CONSTANTS
    p1 = p1
    p2 = p2
    t1 = t1
    t2 = t2
    ModelsOf <- OneEach
    Threads = {t1, t2}
    Publishers = {p2}
    N = 3
    CyclesPerSecond = 3
    BufferCycles = 1
    MaxDcu = 2
    QueueSize = 1
    FirstKey = 3
    LastKey = 7
    MaxCopies = 1
PROPERTIES
    NewestIsDelivered
CHECK_DEADLOCK FALSE
