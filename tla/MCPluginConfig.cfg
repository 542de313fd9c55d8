SPECIFICATION ConfigSpec
CONSTANTS
    h1 = h1
    h2 = h2
    t1 = t1
    pa = pa
    pb = pb
    Hosts <- MCHosts
    Tools <- MCTools
    Dirs <- MCDirs
    MaxPlugins = 2
    MaxLines = 2
    MaxAppends = 1
    MaxSaves = 3
    MaxFaults = 1
SYMMETRY HostsAlike
CHECK_DEADLOCK FALSE
INVARIANT Persisted
PROPERTY SaveEffective
