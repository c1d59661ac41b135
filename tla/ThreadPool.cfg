CONSTANTS
    Tasks = {t1, t2}
    Workers = {w1, w2, w3}
    Submitters = {s1, s2}
    Idle = Idle
    MaxTasks = 2
SPECIFICATION PoolSpec
INVARIANTS PoolTypeOK WakeupPerTask
PROPERTIES DtorReturns ImplementsTaskPool
CHECK_DEADLOCK FALSE
