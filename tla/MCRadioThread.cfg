SPECIFICATION FairSpec
CONSTANTS
    MaxPackets = 3
    Blocks = 2
    QueueSize = 2
    MaxFailures = 2
    RxFrequency = 433475000
    TxFrequency = 438000999
    LnaDb <- TheLnaGain
    MixSetting = 13
INVARIANTS TypeOK NeverOverBusy PartsAgree SentWhole SurvivesOneFailure
PROPERTIES QueueServed LoopEnds ImplementsRadioSide
CHECK_DEADLOCK FALSE
