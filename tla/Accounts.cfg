SPECIFICATION AccountsSpec
CONSTANTS
    p1 = p1
    p2 = p2
    e1 = e1
    e2 = e2
    t1 = t1
    t2 = t2
    x1 = x1
    x2 = x2
    Tab <- TwoTabs
    Email <- TwoEmails
    Tenant <- TwoTenants
    Replica <- TwoReplicas
    InitialMembers <- Members
    MaxAttempts = 2
    MaxEvents = 5
SYMMETRY Symmetric
CHECK_DEADLOCK FALSE
INVARIANTS AccountsInv FormsAwaitAnswers
PROPERTY RefusedForCause
