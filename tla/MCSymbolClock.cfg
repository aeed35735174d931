SPECIFICATION Spec
CONSTANTS
    SyncwordSymbols = 8
    SamplesPerSymbol = 20
    FrameSymbols = 32
    Drifts <- OneSample
    Tolerance = 3
    StaleMisses = {3}
    Places <- AroundTheEnd
    MaxWords = 3
INVARIANTS SymbolsInPlace ReadInTime
PROPERTIES SyncFound ImplementsM17Demodulator
