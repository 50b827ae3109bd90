SPECIFICATION Spec
CONSTANTS
    w1 = w1
    w2 = w2
    a = a
    b = b
    Workers = {w1, w2}
    Threads = {a, b}
    Strategies = {"reject", "enqueue", "interrupt", "rollback"}
    Actions = {"interrupt", "rollback"}
    MayDelete = TRUE
    MayRestart = TRUE
    MaxRequests = 3
    MaxRuns = 2
INVARIANTS
    OneRunPerThread
PROPERTIES
    RunsLiveOnce
    EveryRunEnds
CHECK_DEADLOCK FALSE
