SPECIFICATION Spec
CONSTANTS
    h1 = h1
    h2 = h2
    h3 = h3
    o1 = o1
    o2 = o2
    Handler <- ThreeHandlers
    Order <- TwoOrders
    MaxCommits = 5
    MaxInterruptions = 1
CHECK_DEADLOCK FALSE
SYMMETRY Symmetry
INVARIANT OrdersInv
PROPERTY ImplementsLifecycle
