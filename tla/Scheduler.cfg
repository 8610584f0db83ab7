\* backpressure of one language, or turns of two, with the worker's fairness
SPECIFICATION MCSpec
CONSTANTS
    fa = fa
    zh = zh
    u1 = u1
    u2 = u2
    u3 = u3
    NoJob = NoJob
    Languages <- TwoLanguages
    Units <- ThreeUnits
    Capacity = 2
    MaxRevision = 2
    MaxGeneration = 1
INVARIANTS
    OverCapacityOnlyFinals
    QueuedJobsCurrent
    RoundRobinActive
    BoundedOvertaking
PROPERTIES
    FinalsDurable
    DeliverySafety
    DeliveryFair
CHECK_DEADLOCK FALSE
