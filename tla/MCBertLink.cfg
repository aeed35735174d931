SPECIFICATION Spec
CONSTANTS
    FrameBits = 197
    FrameSyms = 2
    BlockSize = 23
    Damages <- SomeDamages
    MaxFrames = 5
    MaxTroubles = 2
INVARIANTS StreamWhole SyncAfterCleanFrame CountsFlips
