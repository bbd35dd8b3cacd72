SPECIFICATION FairSpec
CONSTANTS
    c1 = c1
    c2 = c2
    pre = pre
    Clients = {c1, c2}
    PreselectId = pre
    TPs = {1, 2, 3}
    InterfaceOf <- Where
    IndexLen <- Lengths
    MaxUser = 2
    DaqRoom = 3
    Preselect <- Third
    Lists <- SomeLists
    Timeouts = {0, 1}
    MaxCalls = 3
    LastTick = 4
INVARIANTS
    TypeOK
    OneSlot
    HoldsKept
    ActivationKept
PROPERTIES
    ExpiredGoes
CHECK_DEADLOCK FALSE
