SPECIFICATION Spec
CONSTANTS
    MaxTTL = 2
    Addr = {a1, a2, a3}
    NoAddr = noaddr
    MaxAliases = 1
    MinBurst = 1
    InitBurst = 2
    MaxBurst = 3
    Interval = 1
    Window = 1
    AdjustEvery = 1
    MaxNow = 3
    MaxSent = 3
    MaxRecv = 3
SYMMETRY AddrSymmetry
CHECK_DEADLOCK FALSE
INVARIANTS EvenProbing TimeoutMeansSilence HopsSound
