SPECIFICATION LaneSpec
CONSTANTS
    Hourly = {cron, manual}
    Polls = {poll}
    ScreenOnly = {alert, import}
    Sections = 2
    MaxCalls = 3
INVARIANTS
    InTurn
    NoInterference
PROPERTIES
    AbstractMutex
    EveryTaskEnds
CHECK_DEADLOCK FALSE
