SPECIFICATION Spec
CONSTANTS
    c1 = c1
    c2 = c2
    Clients = {c1, c2}
    Preset = {}
    MaxConsumers = 2
    Blocks = 2
    Parts = 2
    BlockPeriod = 1
    PutOps = {"put16th"}
    GetOps = {"get"}
    Kinds = {"slow", "fast"}
    Requests <- NoRequests
    GpsAt <- EverySecond
    MaxPuts = 5
SYMMETRY ClientSymmetry
INVARIANTS
    HeldDataIsOneSecond
