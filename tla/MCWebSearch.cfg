\* Web searches beside two operations of one client while its routing is replaced.
SPECIFICATION Spec
CONSTANTS
    p = p
    q = q
    h = h
    NoProvider = NoProvider
    o1 = o1
    o2 = o2
    s1 = s1
    Providers = {p, q, h}
    Operations = {o1, o2}
    Searches = {s1}
    HostAllowed = FALSE
    MaxUpdates = 1
    Cooldown = 2
    Routings <- MCRoutings
INVARIANTS
    
    AllAsked
PROPERTY DuckDuckGoReturns
CHECK_DEADLOCK FALSE
