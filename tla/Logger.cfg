SPECIFICATION Spec
CONSTANTS
    Threads = {t1, t2}
    NoLine = NoLine
    MaxTime = 2
    MaxBack = 1
    MaxIds = 2
    MaxLines = 2
INVARIANTS LinesRight IdsRight
CHECK_DEADLOCK FALSE
