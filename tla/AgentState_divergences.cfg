\* TLC stops at the first of these that it finds violated; leave one line alone to see its counterexample.
SPECIFICATION Spec
CONSTANTS
    Camera      = {c1}
    Editor      = {e1}
    Reconciler  = {r1}
    Name        = {n1}
    None        = None
    MaxPairings = 1
    MaxExtras   = 0
INVARIANTS
    EditsStay
    PairingStays
