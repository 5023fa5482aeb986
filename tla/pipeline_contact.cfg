SPECIFICATION Spec
CONSTANTS
    m1 = m1
    m2 = m2
    m3 = m3
    c1 = c1
    c2 = c2
    r1 = r1
    r2 = r2
    r3 = r3
    None = None
    Messages <- MCMessages
    TestMessages <- MCNoMessages
    Skipped <- MCNoMessages
    Signal <- MCMessages
    Chats <- MCChats
    TestChats <- MCNoChats
    TestTexts <- MCNoMessages
    ChatOf <- MCChatOf
    Runs <- MCRuns3
    UserStatuses <- MCUserStatuses
    EnableProactive = TRUE
    MaxDeliveries = 2
    MaxFaults = 0
    MaxCrashes = 0
SYMMETRY Symmetry
INVARIANT ContactDeletable
CHECK_DEADLOCK FALSE
