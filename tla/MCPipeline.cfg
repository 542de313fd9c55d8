SPECIFICATION FlowFairSpec
CONSTANTS
    Cap = 7
    MaxInflight = 3
    MaxBurst = 2
    Batch = 2
    MaxCrashes = 1
INVARIANTS NoCircularWait WorkBounded
PROPERTIES ObservationsLeave RoundsGoOn
