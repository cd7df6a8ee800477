SPECIFICATION FairSpec
CONSTANTS
    m1 = m1
    m2 = m2
    Msgs = {m1, m2}
    NoMsg = NoMsg
    MaxPosts = 3
INVARIANTS
    TypeOK NoLostWakeup NoIdleWakeupLocally
PROPERTIES
    EveryMessageFetched
CHECK_DEADLOCK FALSE
