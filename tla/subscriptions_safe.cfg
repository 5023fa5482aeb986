SPECIFICATION Spec
CONSTANTS
    a = a
    b = b
    c = c
    r1 = r1
    r2 = r2
    Endpoints <- MCEndpoints
    Runs <- MCRuns
    MaxRegistrations = 4
    MaxFaults = 1
    MaxCrashes = 1
SYMMETRY Symmetry
INVARIANTS
    TypeOK
    OnceUntilRestart
    NothingLost
    AgreeUnlessMixed
CHECK_DEADLOCK FALSE
