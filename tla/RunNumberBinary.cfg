SPECIFICATION Spec
CONSTANTS
    d1 = d1
    d2 = d2
    NoClient = NoClient
    Clients = {d1}
    Hashes <- BinaryHashes
    MaxHash = 2
    SaveMayFail = FALSE
    MaxNumber = 3
    MaxRestarts = 1
CHECK_DEADLOCK FALSE
INVARIANTS
    StoreRoundTrips
