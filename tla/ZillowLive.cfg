SPECIFICATION FairSpec
CONSTANTS
    Leads = {l1}
    Owner = owner
    PollSlots = {p1, p2, p3}
    HourSlots = {}
    DailyKey = daily
    RunHours = FALSE
    ApplicantRelay = FALSE
    Faults = {"import", "unsent", "lost", "landed", "probe", "crash", "db", "reimport", "resend"}
    MaxFaults = 2
    ProbeMax = 10
PROPERTIES
    EveryLeadServed
