SPECIFICATION RegistrySpec
CONSTANTS
    N = 2
    Numbers = {1, 2, 3, 4, 5, 6, 7}
    MaxConns = 1
    MaxOthers = 1
    Phases = {"construct", "serve", "destroy"}
    Carriers = {0, 1, 2, 3}
    MaxSignals = 1
INVARIANTS  HandlerSafe
PROPERTIES AllStop
CHECK_DEADLOCK FALSE
