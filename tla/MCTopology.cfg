SPECIFICATION GraphSpec
CONSTANTS
    Target = {t1, t2}
    Router = {r1, r2}
    MaxNodes = 3
    MaxHops = 4
    MaxAliases = 1
    MaxWidth = 3
SYMMETRY AddrSymmetry
INVARIANTS GraphSound RoutesReachDestination
