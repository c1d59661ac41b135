CONSTANTS
    Items = {r1, r2}
    Producers = {w1, w2, w3}
    MaxItems = 4
SPECIFICATION Spec
INVARIANT NoLostWakeup
PROPERTY ImplementsMailbox
