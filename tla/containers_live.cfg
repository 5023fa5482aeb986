SPECIFICATION FairSpec
CONSTANTS
    c1 = c1
    c2 = c2
    u1 = u1
    k1 = k1
    k2 = k2
    None = None
    Containers <- MCContainers
    Calls <- MCCalls
    Ticks <- MCTicks1
    Ports <- MCPorts
    MaxFailures = 0
PROPERTY DeadIsReplaced
CHECK_DEADLOCK FALSE
