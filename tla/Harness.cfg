SPECIFICATION FairSpec
CONSTANTS
    Cap <- MCCap
    BuiltIn <- MCBuiltIn
    DefaultRisk <- MCDefaultRisk
    Override <- MCOverride
    Tool <- MCTool
    ToolRisk <- MCToolRisk
    RequiresApproval <- MCRequiresApproval
    Verifiable <- MCVerifiable
    CriticEnabled = TRUE
    Response <- MCResponse
    Price = {0,1}
    CapsSet <- MCCaps
CHECK_DEADLOCK FALSE
INVARIANTS TurnInv WithinLimits JournalAgrees
PROPERTIES TurnEnds SequentialInOrder ImplementsTurn
