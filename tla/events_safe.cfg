SPECIFICATION Spec
SYMMETRY Symmetry
CONSTANTS
    e1 = e1
    e2 = e2
    c1 = c1
    c2 = c2
    u1 = u1
    Events <- MCEvents
    Checks <- MCChecks
    Clicks <- MCClicks
    None = None
    UserStatuses = {"active", "completed", "snoozed"}
    MaxFailures = 1
INVARIANTS
    TypeOK
PROPERTIES
    
    SettledForever
CHECK_DEADLOCK FALSE
