SPECIFICATION Spec
CONSTANTS
    Target = {t1, t2}
    MaxNodes = 2
    MaxTTL = 2
    Reserves <- SevenPlugins
    NavDepth = 2
    Page = 5
    CellWidth = 5
    MinBox = 10
    BoxWidth = 10
    Heights = {5, 11, 19}
    Widths = {4, 10}
    Starts <- NoneOrTwo
    MaxKeys = 4
SYMMETRY TargetSymmetry
CHECK_DEADLOCK FALSE
INVARIANTS EscLeadsHome CursorShown
PROPERTY ActsOnHighlighted
