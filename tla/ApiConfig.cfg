SPECIFICATION Spec
CONSTANTS
    p1 = p1
    p2 = p2
    t1 = t1
    u1 = u1
    u2 = u2
    k1 = k1
    None = None
    Tab <- TwoTabs
    Turn <- OneTurn
    Url <- TwoUrls
    Secret <- OneSecret
    MaxEvents = 3
CHECK_DEADLOCK FALSE
INVARIANT ConnectionInv
PROPERTIES LockHoldsOnceDrained CacheCatchesUp
