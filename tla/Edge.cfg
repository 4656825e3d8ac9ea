SPECIFICATION FairSpec
CONSTANTS
    q1 = q1
    q2 = q2
    Request <- MCRequest2
    Customer <- MCCustomer
    Known <- OnlyBen
    Payload <- MixedPayloads
    Via <- MCVia
    Items <- MCItems
    MaxDeliveries = 2
    MaxInterruptions = 1
CHECK_DEADLOCK FALSE
INVARIANTS EdgeInv BatchInOrder LossHasCause WindowOpenForReply
PROPERTY AllPublished
