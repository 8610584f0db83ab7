\* two translated viewers: the worker, Stop and the operator race
SPECIFICATION Spec
CONSTANTS
    en = en
    fa = fa
    c1 = c1
    c2 = c2
    u1 = u1
    u2 = u2
    k1 = k1
    k2 = k2
    NoJob = NoJob
    NoCue = NoCue
    NoCaption = NoCaption
    Source = en
    Target = fa
    Languages <- OneTranslated
    Clients <- TwoClients
    LangOf <- BothTranslated
    Units <- OneCue
    Requests <- OneRequest
    Capacity = 2
    MaxRevision = 2
    MaxEra = 2
    MaxGeneration = 2
INVARIANTS
    NoLostWakeup
    StoppedIsQuiet
    FreshCueAfterErase
CHECK_DEADLOCK FALSE
PROPERTY TranslationsInOrder
