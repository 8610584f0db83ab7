SPECIFICATION Spec
CONSTANTS
    Passwords = {p1, p2}
    NoPassword = NoPassword
    EnvPassword = NoPassword
    Missing = Missing
    Corrupt = Corrupt
    LoginKeys = {loginForm}
    PairingKeys = {pairingForm}
    FreeAttempts = 1
    LongestDelay = 2
    Observation = 3
    MostFailures = 1
    MaxEntries = 1
    PairingTTL = 1
    SessionAge = 2
    IdleTimeout = 1
    MaxSecrets = 3
    MaxCodes = 2
    MaxSessions = 2
    MaxLosses = 1
INVARIANTS
    PasswordKept
    LossSurvived
PROPERTIES
    CodesOpenOnce
    SessionsEnd
CHECK_DEADLOCK FALSE
