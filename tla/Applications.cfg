CONSTANTS
    p1 = p1
    c1 = c1
    c2 = c2
    f1 = f1
    f2 = f2
    d1 = d1
    Null = Null
    Applicants = {p1}
    Chats = {c1, c2}
    Forms = {f1, f2}
    Desks = {d1}
    Columns = {email}
    Customs = {pets}
    Email = email
    Required = {email, pets}
    MaxApps = 2
    MaxInvites = 2
    MaxForwards = 2
    MaxUpsets = 1
    Casts <- McCasts
SPECIFICATION ApplicationsSpec
INVARIANTS  CompletedIsFilled ForwardOnce
PROPERTIES DecidedStays
SYMMETRY Symmetry
CHECK_DEADLOCK FALSE
