SPECIFICATION Spec
CONSTANTS
    h1 = h1
    h2 = h2
    h3 = h3
    o1 = o1
    o2 = o2
    Handler <- ThreeHandlers
    Order <- OneOrder
    MaxCommits = 4
    MaxInterruptions = 0
CHECK_DEADLOCK FALSE
PROPERTIES LegalTransitions
