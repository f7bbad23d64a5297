CONSTANTS
    TraceIDs = {t1, t2, t3}
    Spans = {s1, s2, s3, s4, s5}
    MaxSpans = 3
    Window = 1
SPECIFICATION FairSpec
INVARIANTS TypeOK OrderMatchesTraces CountExact CapHolds
PROPERTIES DroppedWhole EvictsNoMoreThanNeeded StaleLeaves
