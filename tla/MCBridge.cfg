CONSTANTS
    t1 = t1
    t2 = t2
    s1 = s1
    s2 = s2
    s3 = s3
    TraceIDs <- MCTraceIDs
    Spans <- MCSpans
    TraceOf <- MCTraceOf
    IDOf <- MCIDOf
    Consumers = {c1, c2}
    MaxSpans = 2
    Window = 1
    MaxResources = 2
    MaxClock = 2
    Warn = 0
    Truncate = 1
    Hard = 2
    TTL = 1
SPECIFICATION Spec
INVARIANTS TypeOK ExactlyOnePlace FiredTracesLeave ErrorReported
PROPERTIES ImplementsDelivery
SYMMETRY ConsumersAlike
