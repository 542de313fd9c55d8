SPECIFICATION Spec
CONSTANTS
    Docs <- MCDocs
    FirstCap = 4
    Char <- MCChar
    OutLens = {1, 2, 8}
    Absent = "z"
CHECK_DEADLOCK FALSE
INVARIANTS FitsBuffer ReadBack CutIsNoticed
