SPECIFICATION Spec
CONSTANTS
    i = i
    j = j
    m = m
    n = n
    k1 = k1
    k2 = k2
    k3 = k3
    Absent = Absent
    Partial = Partial
    Initer <- MCIniter
    Keygen <- MCKeygen
    Key <- MCKey
    MaxFaults = 1
    MaxLosses = 0
SYMMETRY Symmetry
CHECK_DEADLOCK FALSE
INVARIANTS
    RerunMatches
