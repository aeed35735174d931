SPECIFICATION FairSpec
CONSTANTS
    Me = Me
    Other = Other
    Callsign = Me
    NoPacket = NoPacket
    RxPackets <- TwoPackets
    RxQueueSize = 1
    TxQueueSize = 1
    MaxTun = 0
CHECK_DEADLOCK FALSE
PROPERTIES ThreadsTerminate
