SPECIFICATION FairSpec
CONSTANTS
    a = a
    b = b
    c = c
    Ip = {a, b, c}
    Views <- MCViews
    CacheSize = 2
    Place = {p}
    MaxHops = 2
    PipeCap = 2
    AnswerCap = 1
INVARIANTS CacheSound LookedUpOnce AnswersComplete
PROPERTY AnnotationsCatchUp
