CONSTANTS
    MaxBatch = 2
    MaxRecords = 4
    Hws = {1, 2}
    Epochs = {7}
    Faults = {"crash", "write", "truncate"}
SPECIFICATION Spec
INVARIANTS NeverRefused
PROPERTIES CreditNotForgotten ImplementsDurableLog
