SPECIFICATION Spec
CONSTANTS
    d1 = d1
    d2 = d2
    NoClient = NoClient
    Clients = {d1, d2}
    Hashes <- TextHashes
    MaxHash = 2
    SaveMayFail = FALSE
    MaxNumber = 3
    MaxRestarts = 2
CHECK_DEADLOCK FALSE
SYMMETRY ClientSymmetry
INVARIANTS
    TypeOK
    NumberIdentifiesHash
    ClientNumberIsItsOwn
PROPERTIES
    NeverGoesBack
    RestartRemembers
