SPECIFICATION Spec
CONSTANTS
    Host       = {h1, h2}
    MaxScans   = 2
    MaxPasses  = 2
    MaxAnswers = 1
    Reconciler = {r1}
    Stray      = {h1}
INVARIANTS
    CreatedOnce
    ClosesWhenDone
CHECK_DEADLOCK FALSE
