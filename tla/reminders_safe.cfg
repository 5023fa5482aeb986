SPECIFICATION Spec
CONSTANTS
    e1 = e1
    e2 = e2
    r1 = r1
    r2 = r2
    r3 = r3
    None = None
    Events <- MCEvents
    Reminders <- MCReminders3
    MaxDelay = 2
    MaxTime = 3
    MaxFaults = 1
    MaxCrashes = 2
SYMMETRY Symmetry
INVARIANTS
    TypeOK
    OneTimerUnlessOverlapped
    PushedOnce
    RecoveredIfPostponed
    PushedIsMarked
PROPERTIES
    NotEarly
    PostponedIsQuiet
CHECK_DEADLOCK FALSE
