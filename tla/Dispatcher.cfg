SPECIFICATION FairSpec
CONSTANTS
    r1 = r1
    r2 = r2
    Consumer <- MCConsumer
    Event <- MCEvent
    Malformed <- MCMalformed
    InitialCommit <- NoOffset
    MaxEvents = 3
    MaxInterruptions = 2
CHECK_DEADLOCK FALSE
INVARIANTS DeliveryInv DuplicatesExplained RepliesRecorded
PROPERTIES ServedWhileUp CommitAdvances ImplementsConsumption
