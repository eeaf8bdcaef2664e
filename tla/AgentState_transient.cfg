SPECIFICATION Spec
CONSTANTS
    Camera      = {c1}
    Editor      = {e1}
    Reconciler  = {}
    Name        = {n1}
    None        = None
    MaxPairings = 0
    MaxExtras   = 1
INVARIANT NeverWiped
