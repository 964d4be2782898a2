\* Two one-shots whose ids may collide.
SPECIFICATION FairSpec
CONSTANTS
    c1 = c1
    c2 = c2
    Calls = {c1, c2}
    NoCall = NoCall
    d1 = d1
    d2 = d2
    OpIds = {d1, d2}
    IdsOf <- FirstIds
    NoId = NoId
    MaxStreams = 2
    MaxCancels = 1
    MaxVersions = 1
    MaxActs = 2
INVARIANTS
    HostToldOnce
    LoneCallCancellable
    ClientsCurrent
PROPERTY CancelledCallsEnd
CHECK_DEADLOCK FALSE
