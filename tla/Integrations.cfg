SPECIFICATION IntegrationsSpec
CONSTANTS
    p1 = p1
    p2 = p2
    n1 = n1
    n2 = n2
    c1 = c1
    c2 = c2
    Tab <- TwoTabs
    Phone <- TwoPhones
    Cap <- TwoCaps
    MaxEvents = 3
CHECK_DEADLOCK FALSE
INVARIANT CredentialsInv
PROPERTIES NoSilentChange LoadingEnds
