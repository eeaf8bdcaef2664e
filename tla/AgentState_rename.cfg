SPECIFICATION FairSpec
CONSTANTS
    Camera      = {c1}
    Editor      = {e1}
    Reconciler  = {r1}
    Name        = {n1, n2}
    None        = None
    MaxPairings = 0
    MaxExtras   = 1
PROPERTY NamesFollow
