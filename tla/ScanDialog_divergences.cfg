\* TLC stops at the first of these that it finds violated; leave one line alone to see its counterexample.
SPECIFICATION FairSpec
CONSTANTS
    Host       = {h1, h2}
    MaxScans   = 1
    MaxPasses  = 2
    MaxAnswers = 2
    Reconciler = {r1}
    Stray      = {}
INVARIANTS
    NeverTwice
    FailureStaysVisible
    OneRowPerCamera
    NeverReplayed
PROPERTIES
    KeepsLocalRecords
    GreenStaysGreen
    ListCatchesUp
CHECK_DEADLOCK FALSE
