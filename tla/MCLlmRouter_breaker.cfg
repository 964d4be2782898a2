\* The same operations over more time, on a disk whose writes succeed.
SPECIFICATION Spec
CONSTANTS
    o1 = o1
    o2 = o2
    Ops = {o1, o2}
    NoOp = NoOp
    MaxTime = 3
    HardCap = 3
    MaxRetryAfter = 2
    RetryAfters = {0, 2}
    WritesMayFail = FALSE
    MaxGeneration = 1
    Providers <- MCProviders
    Configs <- MCConfigs
    AllowedSets <- MCAllowedSets
INVARIANTS PenaltiesAreVisits
PROPERTY BreakerSpec
CHECK_DEADLOCK FALSE
