SPECIFICATION SCFairSpec
CONSTANTS
    Camera     = {c1}
    Source     = {s1, s2}
    Base       = {b1, b2}
    Nothing    = Nothing
    MaxParked  = 1
    MaxChanges = 1
    MaxUpsets  = 2
INVARIANTS
    StoppedStaysDown
PROPERTIES
    Settles
CHECK_DEADLOCK FALSE
