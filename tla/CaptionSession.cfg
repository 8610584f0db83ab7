SPECIFICATION FairSpec
CONSTANTS
    c1 = c1
    a1 = a1
    a2 = a2
    Contexts <- MCContexts
    NoContext = NoContext
    Analysts <- MCAnalysts
    MaxRuns = 2
    MaxGenerations = 2
    MaxStops = 2
    MAX_COMPLETED_SERVICES = 1
INVARIANTS
    RunKeepsContext
    MetricsFollowTask
    RunsReportedOnce
PROPERTIES
    StopEndsRun
CHECK_DEADLOCK FALSE
