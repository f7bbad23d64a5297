CONSTANTS
    MaxEntries = 1
    MaxAttempts = 2
    MaxBatches = 2
SPECIFICATION FairSpec
PROPERTIES QueueSettles ShutdownCompletes
