\* Several threads start engines; stops and lost senders end them.
CONSTANTS
    Main = main  Backoff = backoff  Updater = updater
    Restarters = {r1}
    Situations <- EndingSituations
    MaxEngines = 3
    MaxPipe = 1
SPECIFICATION FairSpec
CHECK_DEADLOCK FALSE
PROPERTIES
    StopEnds
    LostEnginesEnd
