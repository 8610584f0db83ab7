SPECIFICATION FairSpec
CONSTANTS
    Packages = {p1, p2}
    Scopes <- SingleKinds
    MaxChildren = 2
    MaxRequests = 2
    MaxAtOnce = 2
    MaxRestarts = 1
    MaxKills = 1
INVARIANTS
    VoicesBacked
    RuntimeKept
PROPERTIES
    InstallReported
    InstallsSettle
CHECK_DEADLOCK FALSE
