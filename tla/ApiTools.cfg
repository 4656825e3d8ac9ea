SPECIFICATION Spec
CONSTANTS
    p1 = p1
    p2 = p2
    t1 = t1
    i1 = i1
    i2 = i2
    n1 = n1
    Tab <- TwoTabs
    Turn <- OneTurn
    Id <- TwoIds
    Name <- OneName
    Method <- Methods
    MaxEvents = 3
CHECK_DEADLOCK FALSE
INVARIANT ToolsInv
PROPERTY ActivatedByClick
