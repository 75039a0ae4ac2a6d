SPECIFICATION FairSpec
CONSTANTS
    tenant = tenant
    owner = owner
    None = None
    Calls = {t1, t2}
    Requests <- EveryDay
    HourlyCap = 1
    DailyCap = 2
    NewRecipientCap = 1
    QaCap = 1
    QaDailyCap = 1
    MaxAttempts = 2
    SweepSends = 1
    Take = 2
    Faults = {"error", "landed", "db", "crash", "stop", "start"}
    MaxFaults = 1
INVARIANTS
    CapsHold
    AtMostOnce
PROPERTIES
    StopRespected
    EveryRowSettles
CHECK_DEADLOCK FALSE
