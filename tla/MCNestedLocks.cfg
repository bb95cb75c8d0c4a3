CONSTANTS
    Calls = {c1, c2, c3}
    NoCall = NoCall
    q1 = q1
    q2 = q2
    Requests = {q1, q2}
    Resources = {1, 2}
    Resolutions <- Identities
    Entries = {e1, e2}
    MaxDrifts = 1
SYMMETRY Symmetry
SPECIFICATION Spec
INVARIANTS
    NoCircularWait
    Exclusive
    EntriesExact
    LockedOnce
