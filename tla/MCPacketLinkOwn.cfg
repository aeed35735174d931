SPECIFICATION Spec
CONSTANTS
    Callsign = Callsign
    Other = Other
    Noise = Noise
    NoLsf = NoLsf
    Garbage = Garbage
    MaxPeaks = 2
    MaxFrames = 2
    StaleMisses <- Zeroed
INVARIANTS OnlyOwnPackets
