SPECIFICATION WatchdogSpec
CONSTANTS
    Hour = 3
    LastSlot = 3
    Scheduled = {1, 2, 3}
    LateBy = 2
    OnTime = 1
    MaxRun = 2
    StaleRunning = 1
    Lookback = 3
    Events = {"sleep", "reboot", "redis", "manual"}
    MaxUpsets = 1
INVARIANTS
    
    BadRunReported
PROPERTIES
    VerdictsStand
CHECK_DEADLOCK FALSE
