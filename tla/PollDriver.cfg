SPECIFICATION DriverSpec
CONSTANTS
    Ticks = {t1, t2, t3}
    Open = {3,4,5,6,7,8,9,10,11}
    Gap = 2
    Jitter = 0
    Warmup = 1
    Ceiling = 2
    HourRuns = 1
    ReadErrors = TRUE
    MaxTime = 12
SYMMETRY Symmetry
INVARIANTS
    CeilingBound
PROPERTIES
    PollsKeepTheGap
    StallNotes
CHECK_DEADLOCK FALSE
