SPECIFICATION FairSpec
CONSTANTS
    m1 = m1
    m2 = m2
    m3 = m3
    c1 = c1
    c2 = c2
    r1 = r1
    r2 = r2
    r3 = r3
    None = None
    Messages <- MCThreeMessages
    TestMessages <- MCOnly2
    Skipped <- MCOnly3
    Signal <- MCOnly1
    Chats <- MCChats
    TestChats <- MCChat2
    TestTexts <- MCNoMessages
    ChatOf <- MCChatOf
    Runs <- MCRuns2
    UserStatuses <- MCUserStatuses
    EnableProactive = TRUE
    MaxDeliveries = 2
    MaxFaults = 1
    MaxCrashes = 0
PROPERTY StoredIsCompleted
CHECK_DEADLOCK FALSE
