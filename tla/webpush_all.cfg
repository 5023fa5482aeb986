SPECIFICATION Spec
CONSTANTS
    e1 = e1
    e2 = e2
    fcm = fcm
    u1 = u1
    u2 = u2
    s1 = s1
    n1 = n1
    b1 = b1
    None = None
    Endpoints <- MCEndpoints
    Services <- MCServices
    Service <- MCService
    Calls <- MCCalls
    Syncs <- MCSyncs
    Senders <- MCSenders
    Broadcasts <- MCBroadcasts
    MaxFailures = 1
INVARIANT NotifyReachesAll
