SPECIFICATION FairSpec
CONSTANTS
    Camera      = {c1, c2}
    Editor      = {e1, e2}
    Reconciler  = {r1}
    Name        = {n1}
    None        = None
    MaxPairings = 1
    MaxExtras   = 1
INVARIANTS
    EditsKept
    PairingIsChosen
PROPERTIES
    Agreement
