CONSTANTS
    t1 = t1
    t2 = t2
    sync = sync
    Tasks = {t1, t2}
    Operations = {sync}
    OperationOf <- ShareOne
    NoOperation = NoOperation
    NoTask = NoTask
    Resumable = {t1}
    StoreFails = TRUE
    MaxDowns = 3
SPECIFICATION Spec
CHECK_DEADLOCK FALSE
INVARIANTS
    ReservationsExact
PROPERTIES
    ImplementsLifecycle
    EndedNeverStarts
    InterruptionSpares
