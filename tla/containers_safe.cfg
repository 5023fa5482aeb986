SPECIFICATION Spec
CONSTANTS
    c1 = c1
    c2 = c2
    u1 = u1
    k1 = k1
    k2 = k2
    None = None
    Containers <- MCContainers
    Calls <- MCCalls
    Ticks <- MCTicks2
    Ports <- MCPorts
    MaxFailures = 1
SYMMETRY Symmetry
INVARIANTS
    TypeOK
    OneHolder
    HolderNotLost
    RunningExists
    PortsUniqueUntilRestart
PROPERTY LeadsOneLife
CHECK_DEADLOCK FALSE
