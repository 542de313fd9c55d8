SPECIFICATION Spec
CONSTANTS
    Builtin = {}
    Reserved = {r}
    Generic = {}
    QueueLen = 2
    PipeCap = 2
    MaxReads = 4
    MaxSyncs = 1
    MaxDeaths = 1
    MaxKeys = 4
    MaxToggles = 2
CHECK_DEADLOCK FALSE
INVARIANTS KeysInOrder AnswersMatch NoIdleQueue
