SPECIFICATION FairSpec
CONSTANTS
    c1 = c1
    c2 = c2
    Clients = {c1, c2}
    Preset = {c1}
    MaxConsumers = 2
    Blocks = 2
    Parts = 1
    BlockPeriod = 1
    PutOps = {"put"}
    GetOps = {"timed_get"}
    Kinds = {"slow"}
    Requests <- NoRequests
    GpsAt <- EverySecond
    MaxPuts = 3
PROPERTIES
    PutCompletes
    GetReturns
CHECK_DEADLOCK FALSE
