SPECIFICATION TxSpec
CONSTANTS
    Sizes <- AllSizes
    OnAir <- SomeSizes
    NoLsf = NoLsf
    Lsf <- TheLsf
    Garbage = Garbage
    Pad <- NoByte
INVARIANTS TypeOK PrefixReceived RoundTrip Convolution SentToTheEnd
