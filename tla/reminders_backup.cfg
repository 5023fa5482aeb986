SPECIFICATION FairBackup
CONSTANTS
    e1 = e1
    r1 = r1
    r2 = r2
    None = None
    Events <- MCOneEvent
    Reminders <- MCReminders2
    MaxDelay = 4
    MaxTime = 4
    MaxFaults = 0
    MaxCrashes = 1
PROPERTY TriggeredAfterRestart
CHECK_DEADLOCK FALSE
