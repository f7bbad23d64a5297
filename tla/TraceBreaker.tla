---------------------------- MODULE TraceBreaker ----------------------------
(***************************************************************************)
(* The cross-batch trace circuit breaker, trace_breaker.go: a counter of   *)
(* spans for every trace id, which survives from one ConsumeTraces call to *)
(* the next, and the tiers it crosses.  Every method holds b.mu and reads  *)
(* the clock under it, so it is one action.                                *)
(*                                                                         *)
(* The map per is total here: an id that is not in the map has the zero    *)
(* entry, which is what observe creates for it and what shouldDrop answers *)
(* for.  A counter stops at Hard: counts above it behave alike.  lastSeen  *)
(* is the age of the entry, which stops at TTL + 1 for the same reason.    *)
(***************************************************************************)
EXTENDS Integers, FiniteSets

CONSTANTS
    TraceIDs,   \* pcommon.TraceID
    Warn,       \* CircuitBreakerWarnThreshold
    Truncate,   \* CircuitBreakerTruncateThreshold
    Hard,       \* CircuitBreakerHardThreshold
    TTL         \* traceBreaker.ttl in units of the clock

ASSUME ThresholdsAssumption ==
    /\ Warn \in Nat /\ Truncate \in Nat /\ Hard \in Nat
    /\ Warn < Truncate /\ Truncate < Hard
ASSUME TTLAssumption == TTL \in Nat \ {0}

VARIABLE per    \* traceBreaker.per

tierNone     == 0
tierWarn     == 1
tierTruncate == 2
tierBreaker  == 3
Tiers        == tierNone..tierBreaker
RealTiers    == tierWarn..tierBreaker

CounterEntry == [count : 0..Hard, age : 0..(TTL + 1), highestTier : Tiers]
NoEntry      == [count |-> 0, age |-> 0, highestTier |-> tierNone]

\* The ids in the map: an entry is created with its first span.
Tracked == {t \in TraceIDs : per[t].count > 0}

BreakerInit == per = [t \in TraceIDs |-> NoEntry]

BugBreakerAfter(count) ==
    CASE count > Hard -> tierBreaker
      [] count >= Truncate /\ count <= Hard -> tierTruncate
      [] count >= Warn /\ count < Truncate -> tierWarn
      [] OTHER -> tierNone
tierFromCount(count) ==
    CASE count >= Hard -> tierBreaker
      [] count >= Truncate /\ count < Hard -> tierTruncate
      [] count >= Warn /\ count < Truncate -> tierWarn
      [] OTHER -> tierNone

Counted(n) == IF n < Hard THEN n + 1 ELSE Hard

\* observe: the tier it returns is a new one only when it rises.
BugTierAgain(t) == tierFromCount(Counted(per[t].count))
observed(t) ==
    LET tier == tierFromCount(Counted(per[t].count))
    IN  IF tier > per[t].highestTier THEN tier ELSE tierNone
BugLastSeenKept(t) ==
    LET tier == tierFromCount(Counted(per[t].count))
    IN  per' = [per EXCEPT ![t] =
                  [count |-> Counted(per[t].count), age |-> per[t].age,
                   highestTier |-> IF tier > per[t].highestTier THEN tier
                                   ELSE per[t].highestTier]]
observe(t) ==
    LET tier == tierFromCount(Counted(per[t].count))
    IN  per' = [per EXCEPT ![t] =
                  [count |-> Counted(per[t].count), age |-> 0,
                   highestTier |-> IF tier > per[t].highestTier THEN tier
                                   ELSE per[t].highestTier]]

shouldDrop(t)     == per[t].highestTier >= tierBreaker
\* No code calls shouldTruncate outside the tests.
shouldTruncate(t) == per[t].highestTier >= tierTruncate

\* pruneStale: the entries it deletes.
BugOnlyLight(t) == per[t].count \in 1..(Hard - 1) /\ per[t].age > TTL
StaleEntry(t) == per[t].count > 0 /\ per[t].age > TTL
BugTierKept ==
    per' = [t \in TraceIDs |-> IF StaleEntry(t) THEN [per[t] EXCEPT !.count = 0] ELSE per[t]]
pruneStale == per' = [t \in TraceIDs |-> IF StaleEntry(t) THEN NoEntry ELSE per[t]]

\* The clock advances by one unit.
EntryOlder(e) ==
    [count |-> e.count, highestTier |-> e.highestTier,
     age |-> IF e.count = 0 \/ e.age > TTL THEN e.age ELSE e.age + 1]
BreakerAge == per' = [t \in TraceIDs |-> EntryOlder(per[t])]
=============================================================================
