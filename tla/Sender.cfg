SPECIFICATION FairSpec
CONSTANTS
    e1 = e1
    e2 = e2
    Replica <- MCReplica
    Customer <- MCCustomer
    Message <- MCMessage
    Template <- MCTemplate
    Utility <- MCTemplate
    InitialCreds <- MCCreds
    Adapters <- BothAdapters
    MaxMessages = 2
    MaxInterruptions = 1
    MaxChanges = 1
CHECK_DEADLOCK FALSE
INVARIANT SenderInv
PROPERTIES ImplementsConsumption ServedInTurn
