CONSTANTS
    Reactors = {r1, r2}
    MaxFds = 4
    MaxConn = 5
SPECIFICATION Spec
INVARIANT SpareKept
CHECK_DEADLOCK FALSE
