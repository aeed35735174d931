SPECIFICATION NetdSpec
CONSTANTS
    Me = Me
    Other = Other
    Callsign = Me
    NoPacket = NoPacket
    RxPackets <- TwoPackets
    RxQueueSize = 1
    TxQueueSize = 1
    MaxTun = 2
    Mtu = 1500
    Blocks = 2
CHECK_DEADLOCK FALSE
INVARIANTS NetdTypeOK ReceivePathExact PacketsAccounted
PROPERTIES TransmitSideServed DaemonEnds ImplementsTunThread
