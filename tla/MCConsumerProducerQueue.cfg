SPECIFICATION FairSpec
CONSTANTS
    Threads = {t1, t2}
    Items = {a, b}
    MaxSize = 2
    NoItem = NoItem
    NoThread = NoThread
INVARIANTS TypeOK CriticalSection NoLostWakeup
PROPERTIES ImplementsBoundedQueue EveryCallReturns
