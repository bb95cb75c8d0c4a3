CONSTANTS
    h1 = h1
    h2 = h2
    acc = acc
    c1 = c1
    c2 = c2
    c3 = c3
    Calls = {c1, c2}
    Automatic = {c2}
    Requests = {h1, h2}
    Resources = {h1, h2, acc}
    Accounts = {acc}
    Resolutions <- SharedOrNot
    RequestOf <- TwoRequests
    NoCall = NoCall
    TTL = 2
    Interval = 1
    CallTimeout = 0
    StoreFails = TRUE
    MaxClock = 2
SPECIFICATION Spec
CHECK_DEADLOCK FALSE
INVARIANTS
    DeadlineFenced
    MutualExclusion
PROPERTIES
    NoTheft
    NoResurrection
    ImplementsLock
