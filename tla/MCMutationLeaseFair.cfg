CONSTANTS
    h1 = h1
    h2 = h2
    acc = acc
    c1 = c1
    c2 = c2
    c3 = c3
    Calls = {c1, c2, c3}
    Automatic = {c2, c3}
    Requests = {h1}
    Resources = {h1}
    Accounts = {}
    Resolutions <- OneHost
    RequestOf <- SameRequest
    NoCall = NoCall
    TTL = 2
    Interval = 1
    CallTimeout = 0
    StoreFails = FALSE
    MaxClock = 1
SPECIFICATION FairSpec
CHECK_DEADLOCK FALSE
PROPERTIES
    ManualNotBlocked
    ReleaseEnds
