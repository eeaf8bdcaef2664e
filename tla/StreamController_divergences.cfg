\* TLC stops at the first of these that it finds violated; leave one line alone to see its counterexample.
SPECIFICATION SCFairSpec
CONSTANTS
    Camera     = {c1}
    Source     = {s1, s2}
    Base       = {b1, b2}
    Nothing    = Nothing
    MaxParked  = 1
    MaxChanges = 1
    MaxUpsets  = 0
INVARIANTS
    UrlNeverWaits
PROPERTIES
    UnpairedStops
CHECK_DEADLOCK FALSE
