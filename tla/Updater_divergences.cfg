\* TLC stops at the first of these that it finds violated; leave one line alone to see its counterexample.
SPECIFICATION UDFairSpec
CONSTANTS
    None = None
    Dialog = {d1, d2}
    MaxVersion = 2
    MaxTries = 2
    DiskFills = TRUE
INVARIANTS
    OneRelease
    NobodyElseWrote
PROPERTIES
    NotStuck
CHECK_DEADLOCK FALSE
