SPECIFICATION LandlordSpec
CONSTANTS
    Requests = {r1, r2}
    Payments = {x1, x2}
    Amounts = {1, 2}
    Rent = 2
    Fee = 1
    Months = 1
    MaxUpsets = 3
    Upsets = {"overlap", "refund_race", "duplicate", "regressed", "lost", "aborted", "over"}
    None = None
    Limit <- Limits
    Casts <- Pairs
    Ids = {x1, x2}
    MaxProperties = 3
    MaxEvents = 2
    PlanUpsets = {"reordered", "lost", "admin", "died", "crossed", "crowded", "shrunk"}
    MaxPlanUpsets = 1
    Properties = {x1, x2}
    Numbers = {x1, x2}
    Times = {"ten"}
    Bookings = {x1, x2}
    MaxPlaceUpsets = 1
INVARIANTS
    ChargeIsConsistent
    OldestFirst
    Conserved
    RefundMatches
    AgreesWithStripe
    WithinPlan
    NumbersHeld
    BookedOnce
CHECK_DEADLOCK FALSE
SYMMETRY Symmetry
