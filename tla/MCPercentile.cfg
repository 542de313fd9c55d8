SPECIFICATION PctlSpec
CONSTANTS
    a = a
    b = b
    HopAddr = {a, b}
    Lines <- MCLines
    Sizes = {1, 3}
    SampleMax = 3
    BucketMax = 3
    MaxCopies = 2
    Minute = 2
    MaxTime = 6
    MaxLines = 4
    MaxSetBack = 1
CHECK_DEADLOCK FALSE
INVARIANTS GlobalExact FocusExact
