CONSTANTS
    Phones = {p1, p2}
    None = None
    Cooldown = 1
    Cap = 2
    MaxTime = 2
    MaxRequests = 2
    MaxUpsets = 2
    MaxZillow = 1
SPECIFICATION Spec
SYMMETRY Symmetry
INVARIANTS
    NoRepeatBroadcast
    
    RightCaller
CHECK_DEADLOCK FALSE
