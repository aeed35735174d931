SPECIFICATION Spec
CONSTANTS
    ByteBits = 1
    Lengths = {0, 1, 2}
    MaxPeers = 2
    MaxRoutes = 2
INVARIANTS SameGateway OnlyToConfigured OneLengthWorks
