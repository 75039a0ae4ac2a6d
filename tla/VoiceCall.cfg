CONSTANTS
    Calls = {c1, c2}
    MaxConcurrent = 1
    MaxReconnects = 1
    MaxFaults = 1
SPECIFICATION Spec
SYMMETRY Symmetry
INVARIANTS
    CapacityKept
    CleanEnd
    
CHECK_DEADLOCK FALSE
