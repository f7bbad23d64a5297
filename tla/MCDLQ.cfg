CONSTANTS
    MaxEntries = 2
    MaxAttempts = 2
    MaxBatches = 3
SPECIFICATION Spec
INVARIANTS TypeOK Bounded Fifo Accounted WholeFile NoUnexplainedLoss
PROPERTIES EvictsOldest ImplementsStore
