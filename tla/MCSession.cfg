SPECIFICATION FairSpec
CONSTANTS
    N = 2
    NumPlugins = 1
    MaxEvents = 2
CHECK_DEADLOCK FALSE
INVARIANTS SingleIncarnation NoneLeft PauseTogether
PROPERTIES Recovers DisabledStops ShutdownEnds
