SPECIFICATION Spec
CONSTANTS
    ByteBits = 1
    Lengths = {1, 2}
    MaxPeers = 2
    MaxRoutes = 1
INVARIANTS RouteMatches
