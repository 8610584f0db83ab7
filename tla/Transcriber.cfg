SPECIFICATION FairSpec
CONSTANTS
    window_seconds = 2
    buffer_seconds = 2
    silence_finalise_seconds = 1
    stall_seconds = 2
    base_cooldown = 1
    max_cooldown = 2
    drain_seconds = 2
    stability_passes = 2
    MaxFailures = 1
INVARIANTS
    PrivateAudioDiscarded
    NoReplayAfterRecovery
PROPERTIES
    WeakWordNeedsNewSpeech
    StalledStreamRecovers
CHECK_DEADLOCK FALSE
