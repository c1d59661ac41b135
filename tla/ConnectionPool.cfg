CONSTANTS
    Callers = {c1, c2}
    Workers = {w1, w2}
    NoCaller = NoCaller
    Conns = {k1, k2, k3, k4}
    MinConn = 1
    MaxConn = 2
    Faults = {"open", "ping"}
SPECIFICATION Spec
INVARIANTS BudgetExact HeldIsAlive NothingLeaks
PROPERTIES AcquireAnswered DtorReturns
CHECK_DEADLOCK FALSE
