CONSTANTS
    Base = 1
    Lens = {0, 1, 3}
    MaxEpoch = 2
    MaxCells = 8
    MaxInterval = 3
    Stride = 5
    IntBits = 7
    WordBits = 9
    Faults = {"creat", "write", "truncate"}
SPECIFICATION Spec
INVARIANTS  SyncedReadable WrittenReadable IndexRight
PROPERTIES RecoveredWhole ImplementsDurableLog
CHECK_DEADLOCK FALSE
