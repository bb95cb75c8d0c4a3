CONSTANTS
    Runs = {r1, r2, r3, r4}
    NoRun = NoRun
    Intervals = {1}
    Editors = {e1}
    HistoryLimit = 1
    MaxEvents = 3
    Databases = {"sqlite", "server"}
SPECIFICATION FairSpec
CHECK_DEADLOCK FALSE
INVARIANTS
    NoOrphans

PROPERTIES
    ScheduleFresh
    VerdictKept
    InspectionsResume
