\* Starts and stops, any one command, or automatic restarts.
CONSTANTS
    Main = main  Backoff = backoff  Updater = updater
    Restarters = {r1}
    Situations <- OwnedSituations
    MaxEngines = 3
    MaxPipe = 1
SPECIFICATION Spec
CHECK_DEADLOCK FALSE
INVARIANTS
    OneEngine
    StoppedMeansGone
    RestartsBounded
