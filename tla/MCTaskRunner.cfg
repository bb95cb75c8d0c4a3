CONSTANTS
    Workers = {w1, w2, w3}
    TaskIds = {a}
    NoId = NoId
    NoWorker = NoWorker
    Limits = {1, 2}
    Queues = {0, 1, 2}
    Callers = {c1}
SPECIFICATION CooperativeSpec
INVARIANTS
    BooksExact
    NoLostWakeup
    DoneOnceDrained
    CancelledWereAsked
PROPERTIES
    ImplementsPool
    CancelledLeaveQueue
    StoppedDrains
    AcceptedRuns
