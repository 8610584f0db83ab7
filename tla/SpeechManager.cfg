SPECIFICATION FairSpec
CONSTANTS
    es = es
    fr = fr
    w1 = w1
    None = None
    Languages <- MCLanguages
    Listeners <- MCListeners
    max_pending_per_language = 2
    MaxCues = 3
PROPERTIES
    QuietWhenAsked
    HeardInOrder
    QueuesEmpty
CHECK_DEADLOCK FALSE
