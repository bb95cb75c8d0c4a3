CONSTANTS
    i1 = i1
    i2 = i2
    o1 = o1
    o2 = o2
    k1 = k1
    k2 = k2
    a1 = a1
    a2 = a2
    Intents = {i1, i2}
    Ops = {o1, o2}
    Keys = {k1, k2}
    Accounts = {a1, a2}
    None = None
SPECIFICATION Spec
SYMMETRY Alike
CHECK_DEADLOCK FALSE
INVARIANTS
    NothingForgotten
    CleanupSpares
    KeyBeforeAccount
PROPERTIES
    ImplementsPairs
