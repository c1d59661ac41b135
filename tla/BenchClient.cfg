SPECIFICATION Spec
CONSTANTS
    Conns = {c1, c2}
    PerConn = 2
    Depth = 1
    Check = TRUE
    Room = 1
    Back = 2
    Faults = {"refuse", "answer", "lose", "repeat", "hangup", "deadline"}
    MaxFaults = 2
INVARIANTS PassIsTrue
PROPERTIES GoodServerPasses
CHECK_DEADLOCK FALSE
