\* a crash and a restart with or without cryptography, or two saving threads
SPECIFICATION MCSpec
CONSTANTS
    t1 = t1
    t2 = t2
    Loop = Loop
    Threads <- TwoThreads
    HistoryLimit = 2
    MaxCue = 2
    MaxExpired = 1
    MaxRequests = 1
    MaxCrashes = 1
INVARIANTS
    OneCacheFormat
PROPERTIES
    CacheCatchesUp
    DisabledLeavesNoCache
