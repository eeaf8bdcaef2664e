\* TLC stops at the first of these that it finds violated; leave one line alone to see its counterexample.
SPECIFICATION Spec
CONSTANTS
    Batches = 3
    Paths = 4
    Worker = {k1, k2}
    None = None
INVARIANTS
    FewRejections
    NoneLeftOver
    BlamesWrongPassword
CHECK_DEADLOCK FALSE
