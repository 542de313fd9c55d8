SPECIFICATION Spec
CONSTANTS
    SeqSpace = 4
    Slots = 4
    MaxTTL = 3
    MaxBurst = 2
    Interval = 1
    ReapAge = 1
    ReapEvery = 1
    MaxDelay = 1
    MaxNow = 4
    MaxProbes = 5
    MaxGkCrashes = 1
    MaxLogicCrashes = 1
    MaxCrashes = 1
CHECK_DEADLOCK FALSE
INVARIANTS OwnAttribution RecvWithinSent NothingStale
