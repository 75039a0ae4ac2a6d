SPECIFICATION Spec
CONSTANTS
    Leads = {l1}
    Owner = owner
    PollSlots = {p1, p2}
    HourSlots = {h1}
    DailyKey = daily
    RunHours = FALSE
    ApplicantRelay = TRUE
    Faults = {"login", "import", "needs_login", "unsent", "lost", "landed", "partial", "landed_partial", "probe", "details", "flip", "db", "crash", "force", "reimport", "resend"}
    MaxFaults = 2
    ProbeMax = 10
SYMMETRY Symmetry

    
PROPERTIES
    StopRespected
