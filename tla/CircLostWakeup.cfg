SPECIFICATION FairSpec
CONSTANTS
    c1 = c1
    c2 = c2
    Clients = {c1}
    Preset = {c1}
    MaxConsumers = 2
    Blocks = 2
    Parts = 1
    BlockPeriod = 1
    PutOps = {"put"}
    GetOps = {"get"}
    Kinds = {}
    Requests <- NoRequests
    GpsAt <- EverySecond
    MaxPuts = 4
PROPERTIES
    GetReturns
CHECK_DEADLOCK FALSE
