CONSTANTS
    TraceIDs = {t1, t2}
    Consumers = {c1, c2}
    Warn = 1
    Truncate = 2
    Hard = 4
    TTL = 1
SPECIFICATION FairSpec
INVARIANTS TypeOK EachTierOnce BudgetHolds
PROPERTIES BlacklistHolds IdleForgotten
