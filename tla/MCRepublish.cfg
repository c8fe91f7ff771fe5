SPECIFICATION Spec
CONSTANTS
    Absent = Absent
    Malformed = Malformed
    All = All
    None = None
    Intervals <- MCIntervals
    N = 2
    Fallback = 3
    MaxPut = 1
    MaxTime = 14
    MaxEvents = 2
INVARIANTS
    TypeOK
    NeverStarved
    NoFlood
    CachedWithCurrentKey
CHECK_DEADLOCK FALSE
