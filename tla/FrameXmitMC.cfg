SPECIFICATION FairSpec
CONSTANTS
    NoFrame = NoFrame
    RadioBufs = 3
    MaxBuffers = 2
    PacketBurst = 1
    MaximumRetransmit = 2
    MaxRetry = 2
    MaxOutOfSync = 2
    PacketBufferSize = 3
    SeqMod = 16
    PktTotal <- TwoOrOne
    MaxPackets = 2
    FirstFrame = 14
    LastFrame = 17
    PutMayFail = TRUE
INVARIANTS
    TypeOK
    QueuedDataIntact
    PoolSuffices
    AcceptedIsSent
PROPERTIES
    ImplementsChannel
    RecoveryEnds
CHECK_DEADLOCK FALSE
