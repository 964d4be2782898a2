\* One operation with every kind of failure, silence and deadline.
SPECIFICATION FairSpec
CONSTANTS
    Plans <- AllPlans
    FailoverAttempts = 2
    MaxRetries = 2
    RateLimitBudget = 1
    DoomLoopRetries = 1
    MaxTokens = 3
INVARIANTS
    
    VisitBudget
PROPERTIES
    LocalSwitchGuarded
    VisitSpec
    Terminates
CHECK_DEADLOCK FALSE
