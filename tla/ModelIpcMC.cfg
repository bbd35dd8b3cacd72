SPECIFICATION Spec
CONSTANTS
    MaxRate = 8
    Blocks = 4
    Strides = {1, 2}
    Links = {"shm", "rfm", "rfm_delay", "none"}
    Latency = 1
    MaxLate = 1
    MaxStops = 1
    Horizon = 11
INVARIANTS
    TypeOK
    TakenIsCurrent
    PresentIsTaken
CHECK_DEADLOCK FALSE
