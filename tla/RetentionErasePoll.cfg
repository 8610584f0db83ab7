\* a clear while a thread saves, repaired by polls or not
SPECIFICATION MCSpec
CONSTANTS
    t1 = t1
    t2 = t2
    Loop = Loop
    Threads <- TwoThreads
    HistoryLimit = 2
    MaxCue = 1
    MaxExpired = 1
    MaxRequests = 1
    MaxCrashes = 0
PROPERTY ErasedLeavesCache
