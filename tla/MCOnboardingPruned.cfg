CONSTANTS
    i1 = i1
    i2 = i2
    o1 = o1
    o2 = o2
    k1 = k1
    k2 = k2
    a1 = a1
    a2 = a2
    Intents = {i1}
    Ops = {o1}
    Keys = {k1}
    Accounts = {a1}
    None = None
SPECIFICATION Spec
CHECK_DEADLOCK FALSE
PROPERTIES
    PrunedAreGone
