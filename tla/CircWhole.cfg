SPECIFICATION Spec
CONSTANTS
    c1 = c1
    c2 = c2
    Clients = {c1, c2}
    Preset = {c1}
    MaxConsumers = 2
    Blocks = 3
    Parts = 1
    BlockPeriod = 1
    PutOps = {"put", "put_nowait"}
    GetOps = {"get", "noop"}
    Kinds = {"slow", "transient"}
    Requests <- PlaybackRequests
    GpsAt <- EverySecond
    MaxPuts = 4
INVARIANTS
    TypeOK
    NoOverwriteWhileHeld
    InOrderNoGap
    RegistrationConsistent
    TransientComplete
    PlaybackSelectsLast
