SPECIFICATION FairSpec
CONSTANTS
    Batches = 2
    Paths = 3
    Worker = {k1, k2}
    None = None
INVARIANTS GivesUpHonestly
PROPERTIES SearchSpec ProbesEnd
CHECK_DEADLOCK FALSE
