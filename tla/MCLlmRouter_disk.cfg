\* Concurrent operations on a disk whose writes may fail.
SPECIFICATION Spec
CONSTANTS
    o1 = o1
    o2 = o2
    Ops = {o1, o2}
    NoOp = NoOp
    MaxTime = 2
    HardCap = 3
    MaxRetryAfter = 2
    RetryAfters = {0, 2}
    WritesMayFail = TRUE
    MaxGeneration = 1
    Providers <- MCProviders
    Configs <- MCConfigs
    AllowedSets <- MCAllowedSets
INVARIANTS
    EscalationConsistent
    CooldownBounded
    RestartLosesNothing
PROPERTY PlanPrefersEligible
CHECK_DEADLOCK FALSE
