SPECIFICATION ChatSpec
CONSTANTS
    p1 = p1
    p2 = p2
    Tab <- TwoTabs
    KindsOfTabs <- SameKind
    MaxEvents = 4
CHECK_DEADLOCK FALSE
INVARIANT ConversationInv
PROPERTIES BadgeOfCustomer WaitingEnds
