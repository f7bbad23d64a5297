CONSTANTS
    MaxEntries = 2
    MaxAttempts = 2
    MaxBatches = 3
SPECIFICATION Spec
INVARIANT RestartKeepsQueue
