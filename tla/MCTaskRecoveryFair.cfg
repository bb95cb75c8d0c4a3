CONSTANTS
    t1 = t1
    t2 = t2
    sync = sync
    Tasks = {t1, t2}
    Operations = {sync}
    OperationOf <- ShareOne
    NoOperation = NoOperation
    NoTask = NoTask
    Resumable = {t1}
    StoreFails = FALSE
    MaxDowns = 2
SPECIFICATION FairSpec
CHECK_DEADLOCK FALSE
PROPERTIES
    AcceptedStarts
    CancelReaches
INVARIANT OwnedWhileActive
