--------------------------- MODULE SpanGuardProof ---------------------------
(***************************************************************************)
(* Proofs about the circuit breaker under concurrent consumers, for every  *)
(* set of traces and of consumers, all thresholds and every TTL.           *)
(***************************************************************************)
EXTENDS SpanGuard, FiniteSetTheorems, TLAPS

(***************************************************************************)
(* The breaker's methods.                                                  *)
(***************************************************************************)

\* tierFromCount is a tier, spelled out by thresholds.
LEMMA TierValues ==
  ASSUME NEW n \in 0..Hard
  PROVE  /\ n >= Hard <=> tierFromCount(n) = 3
         /\ n >= Truncate /\ n < Hard <=> tierFromCount(n) = 2
         /\ n >= Warn /\ n < Truncate <=> tierFromCount(n) = 1
         /\ n < Warn <=> tierFromCount(n) = 0
         /\ tierFromCount(n) \in 0..3
  BY ThresholdsAssumption
     DEF tierFromCount, tierNone, tierWarn, tierTruncate, tierBreaker

\* One more span crosses at most one tier, because the thresholds differ.
LEMMA TierStep ==
  ASSUME NEW n \in 0..Hard
  PROVE  /\ Counted(n) \in 1..Hard
         /\ tierFromCount(Counted(n)) \in {tierFromCount(n), tierFromCount(n) + 1}
         /\ Counted(n) < Hard => Counted(n) = n + 1
  <1>1. Counted(n) \in 1..Hard /\ Counted(n) \in 0..Hard
    BY ThresholdsAssumption DEF Counted
  <1>2. Counted(n) < Hard => Counted(n) = n + 1
    BY ThresholdsAssumption DEF Counted
  <1>3. Counted(n) = n + 1 \/ (n = Hard /\ Counted(n) = Hard)
    BY ThresholdsAssumption DEF Counted
  <1>4. CASE n = Hard /\ Counted(n) = Hard
    BY <1>1, <1>2, <1>4
  <1>5. CASE Counted(n) = n + 1
    <2>1. tierFromCount(n) \in 0..3 /\ tierFromCount(Counted(n)) \in 0..3
      BY <1>1, TierValues
    <2>2. CASE n + 1 >= Hard
      BY <1>1, <1>2, <1>5, <2>1, <2>2, TierValues, ThresholdsAssumption
    <2>3. CASE n + 1 < Hard /\ n + 1 >= Truncate
      BY <1>1, <1>2, <1>5, <2>1, <2>3, TierValues, ThresholdsAssumption
    <2>4. CASE n + 1 < Truncate /\ n + 1 >= Warn
      BY <1>1, <1>2, <1>5, <2>1, <2>4, TierValues, ThresholdsAssumption
    <2>5. CASE n + 1 < Warn
      BY <1>1, <1>2, <1>5, <2>1, <2>5, TierValues, ThresholdsAssumption
    <2> QED
      BY <2>2, <2>3, <2>4, <2>5, ThresholdsAssumption
  <1> QED
    BY <1>3, <1>4, <1>5

(***************************************************************************)
(* The inductive invariants.                                               *)
(***************************************************************************)

\* The tier of an entry is the tier of its count: it never lags behind.
TiersMatch == \A t \in TraceIDs : per[t].highestTier = tierFromCount(per[t].count)

TierInv == TypeOK /\ TiersMatch

\* The age of an entry in the map is the time since its trace's last span.
AgeInv == \A t \in TraceIDs : per[t].count > 0 => per[t].age = quiet[t]

\* Below the last threshold each span that passed or is still to be decided was
\* counted in this life or in hand when it began; from there on no span passes.
BudgetInv ==
  \A t \in TraceIDs :
    /\ per[t].count < Hard =>
         passed[t] + Cardinality(Holding(t)) <= per[t].count + standing[t]
    /\ passed[t] < Hard + standing[t]
    /\ passed[t] <= per[t].count + standing[t]

\* What observe does to the map.
LEMMA ObserveEffect ==
  ASSUME per \in [TraceIDs -> CounterEntry], TiersMatch, NEW t \in TraceIDs, observe(t)
  PROVE  /\ per' \in [TraceIDs -> CounterEntry]
         /\ \A u \in TraceIDs \ {t} : per'[u] = per[u]
         /\ per'[t].count = Counted(per[t].count)
         /\ per'[t].count > 0
         /\ per'[t].age = 0
         /\ per'[t].highestTier = tierFromCount(per'[t].count)
         /\ \/ observed(t) = 0 /\ per'[t].highestTier = per[t].highestTier
            \/ /\ observed(t) = per[t].highestTier + 1
               /\ observed(t) \in 1..3
               /\ per'[t].highestTier = observed(t)
  <1> DEFINE n == per[t].count
             h == per[t].highestTier
             tier == tierFromCount(Counted(n))
  <1>1. n \in 0..Hard /\ h \in 0..3 /\ h = tierFromCount(n)
    BY DEF CounterEntry, TiersMatch, Tiers, tierNone, tierBreaker
  <1>2. Counted(n) \in 1..Hard /\ tier \in {h, h + 1}
    BY <1>1, TierStep
  <1>3. tier \in 0..3
    BY <1>2, TierValues, ThresholdsAssumption
  <1>4. per' = [per EXCEPT ![t] = [count |-> Counted(n), age |-> 0,
                                   highestTier |-> IF tier > h THEN tier ELSE h]]
    BY DEF observe
  <1>5. observed(t) = IF tier > h THEN tier ELSE 0
    BY DEF observed, tierNone
  <1> HIDE DEF n, h, tier
  <1>6. (IF tier > h THEN tier ELSE h) = tier
    BY <1>1, <1>2, <1>3
  <1>7. per' = [per EXCEPT ![t] = [count |-> Counted(n), age |-> 0, highestTier |-> tier]]
    BY <1>4, <1>6
  <1>8. per'[t] = [count |-> Counted(n), age |-> 0, highestTier |-> tier]
    BY <1>7
  <1>9. [count |-> Counted(n), age |-> 0, highestTier |-> tier] \in CounterEntry
    BY <1>2, <1>3, TTLAssumption, ThresholdsAssumption
       DEF CounterEntry, Tiers, tierNone, tierBreaker
  <1>10. per' \in [TraceIDs -> CounterEntry]
    BY <1>7, <1>9
  <1>11. \A u \in TraceIDs \ {t} : per'[u] = per[u]
    BY <1>7
  <1>12. /\ per'[t].count = Counted(n) /\ per'[t].count > 0 /\ per'[t].age = 0
         /\ per'[t].highestTier = tier
    BY <1>8, <1>2, ThresholdsAssumption
  <1>13. \/ observed(t) = 0 /\ tier = h
         \/ observed(t) = h + 1 /\ observed(t) \in 1..3 /\ tier = observed(t)
    BY <1>1, <1>2, <1>3, <1>5
  <1> QED
    BY <1>10, <1>11, <1>12, <1>13 DEF n, h, tier

\* What pruneStale does to an entry.
LEMMA PruneEffect ==
  ASSUME per \in [TraceIDs -> CounterEntry], pruneStale
  PROVE  /\ per' \in [TraceIDs -> CounterEntry]
         /\ \A t \in TraceIDs : StaleEntry(t) =>
              per'[t] = NoEntry /\ per'[t].count = 0 /\ per'[t].age = 0 /\ per'[t].highestTier = 0
         /\ \A t \in TraceIDs : ~StaleEntry(t) => per'[t] = per[t]
  <1>1. NoEntry \in CounterEntry
    BY ThresholdsAssumption, TTLAssumption DEF NoEntry, CounterEntry, Tiers, tierNone, tierBreaker
  <1>2. per' = [t \in TraceIDs |-> IF StaleEntry(t) THEN NoEntry ELSE per[t]]
    BY DEF pruneStale
  <1>3. per' \in [TraceIDs -> CounterEntry]
    BY <1>1, <1>2
  <1>4. \A t \in TraceIDs : /\ StaleEntry(t) => per'[t] = NoEntry
                            /\ ~StaleEntry(t) => per'[t] = per[t]
    BY <1>2
  <1>5. NoEntry.count = 0 /\ NoEntry.age = 0 /\ NoEntry.highestTier = 0
    BY DEF NoEntry, tierNone
  <1> QED
    BY <1>3, <1>4, <1>5

\* What a tick of the clock does to an entry.
LEMMA AgeEffect ==
  ASSUME per \in [TraceIDs -> CounterEntry], BreakerAge
  PROVE  /\ per' \in [TraceIDs -> CounterEntry]
         /\ \A t \in TraceIDs :
              /\ per'[t].count = per[t].count
              /\ per'[t].highestTier = per[t].highestTier
              /\ per[t].count = 0 => per'[t].age = per[t].age
              /\ per[t].count > 0 =>
                   per'[t].age = IF per[t].age > TTL THEN per[t].age ELSE per[t].age + 1
  <1>1. \A t \in TraceIDs :
          per'[t] = [count |-> per[t].count, highestTier |-> per[t].highestTier,
                     age |-> IF per[t].count = 0 \/ per[t].age > TTL THEN per[t].age
                             ELSE per[t].age + 1]
    BY DEF BreakerAge, EntryOlder
  <1>2. \A t \in TraceIDs : /\ per[t].count \in 0..Hard
                            /\ per[t].age \in 0..(TTL + 1)
                            /\ per[t].highestTier \in Tiers
    BY DEF CounterEntry
  <1>3. ASSUME NEW t \in TraceIDs PROVE per'[t] \in CounterEntry
    <2> DEFINE a == IF per[t].count = 0 \/ per[t].age > TTL THEN per[t].age ELSE per[t].age + 1
    <2>1. a \in 0..(TTL + 1)
      BY <1>2, TTLAssumption
    <2>2. per'[t] = [count |-> per[t].count, highestTier |-> per[t].highestTier, age |-> a]
      BY <1>1
    <2> HIDE DEF a
    <2> QED
      BY <1>2, <2>1, <2>2 DEF CounterEntry
  <1>4. per' = [t \in TraceIDs |-> EntryOlder(per[t])]
    BY DEF BreakerAge
  <1>5. per' \in [TraceIDs -> CounterEntry]
    BY <1>3, <1>4
  <1> QED
    BY <1>1, <1>2, <1>5, ThresholdsAssumption

(***************************************************************************)
(* Types.                                                                  *)
(***************************************************************************)

\* The variables that are not the map.
Others ==
  /\ at \in [Consumers -> TraceIDs \cup {Idle}]
  /\ crossed \in [Consumers -> 0..3]
  /\ \A c \in Consumers : at[c] = Idle => crossed[c] = 0
  /\ recorded \in [TraceIDs -> [1..3 -> Int]]
  /\ passed \in [TraceIDs -> Nat]
  /\ standing \in [TraceIDs -> Nat]
  /\ quiet \in [TraceIDs -> 0..(TTL + 1)]

Map ==
  /\ per \in [TraceIDs -> CounterEntry]
  /\ \A t \in TraceIDs \ Tracked : per[t] = NoEntry
  /\ TiersMatch

\* The invariant in these parts.
LEMMA TierParts == TierInv <=> Map /\ Others /\ pruneTick \in BOOLEAN
  BY DEF TierInv, TypeOK, Map, Others, Tiers, RealTiers, tierNone, tierWarn, tierBreaker

\* The same after a step.
LEMMA TierPartsNext == TierInv' <=> Map' /\ Others' /\ pruneTick' \in BOOLEAN
  BY DEF TierInv, TypeOK, Map, Others, Tiers, RealTiers, tierNone, tierWarn, tierBreaker

\* A step that leaves the map alone.
LEMMA MapSame == Map /\ per' = per => Map'
  BY DEF Map, Tracked, TiersMatch

\* Sets of consumers can be counted.
LEMMA Countable ==
  ASSUME NEW S \in SUBSET Consumers
  PROVE  /\ IsFiniteSet(S) /\ Cardinality(S) \in Nat
         /\ \A c \in Consumers \ S : Cardinality(S \cup {c}) = Cardinality(S) + 1
         /\ \A c \in S : Cardinality(S \ {c}) = Cardinality(S) - 1
  <1>1. IsFiniteSet(S)
    BY ConsumersAssumption, FS_Subset
  <1>2. Cardinality(S) \in Nat
    BY <1>1, FS_CardinalityType
  <1>3. \A c \in Consumers \ S : Cardinality(S \cup {c}) = Cardinality(S) + 1
    BY <1>1, FS_AddElement
  <1>4. \A c \in S : Cardinality(S \ {c}) = Cardinality(S) - 1
    BY <1>1, FS_RemoveElement
  <1> QED
    BY <1>1, <1>2, <1>3, <1>4

\* A span keeps the types.
LEMMA TierObserve ==
  ASSUME TierInv, NEW c \in Consumers, NEW t \in TraceIDs, Observe(c, t)
  PROVE  TierInv'
  <1>1. Map /\ Others /\ observe(t) /\ pruneTick \in BOOLEAN
    BY TierParts DEF Observe
  <1>2. /\ per' \in [TraceIDs -> CounterEntry]
        /\ \A u \in TraceIDs \ {t} : per'[u] = per[u]
        /\ per'[t].count > 0
        /\ per'[t].highestTier = tierFromCount(per'[t].count)
        /\ observed(t) \in 0..3
    BY <1>1, ObserveEffect DEF Map
  <1>3. Map'
    BY <1>1, <1>2 DEF Map, Tracked, TiersMatch
  <1>4. /\ at' = [at EXCEPT ![c] = t]
        /\ crossed' = [crossed EXCEPT ![c] = observed(t)]
        /\ quiet' = [quiet EXCEPT ![t] = 0]
        /\ UNCHANGED <<pruneTick, recorded, passed, standing>>
    BY DEF Observe
  <1>5. Others'
    BY <1>1, <1>2, <1>4, IdleAssumption, TTLAssumption DEF Others
  <1> QED
    BY <1>1, <1>3, <1>4, <1>5, TierPartsNext

\* A tier that is to be recorded is one of a span in hand.
LEMMA RecordEffect ==
  ASSUME TierInv, NEW c \in Consumers, Record(c)
  PROVE  \E t \in TraceIDs, k \in 1..3 :
            /\ t = at[c] /\ k = crossed[c]
            /\ recorded' = [recorded EXCEPT ![t] = [recorded[t] EXCEPT ![k] = recorded[t][k] + 1]]
            /\ crossed' = [crossed EXCEPT ![c] = 0]
            /\ UNCHANGED <<per, at, pruneTick, passed, standing, quiet>>
  <1>1. Others
    BY TierParts
  <1>2. crossed[c] # 0
    BY DEF Record, tierNone
  <1>3. at[c] \in TraceIDs /\ crossed[c] \in 1..3
    BY <1>1, <1>2 DEF Others
  <1> QED
    BY <1>3 DEF Record, tierNone

\* Recording a tier keeps the types.
LEMMA TierRecord ==
  ASSUME TierInv, NEW c \in Consumers, Record(c)
  PROVE  TierInv'
  <1>1. Map /\ Others /\ pruneTick \in BOOLEAN
    BY TierParts
  <1>2. PICK t \in TraceIDs, k \in 1..3 :
            /\ t = at[c] /\ k = crossed[c]
            /\ recorded' = [recorded EXCEPT ![t] = [recorded[t] EXCEPT ![k] = recorded[t][k] + 1]]
            /\ crossed' = [crossed EXCEPT ![c] = 0]
            /\ UNCHANGED <<per, at, pruneTick, passed, standing, quiet>>
    BY RecordEffect
  <1>3. recorded[t] \in [1..3 -> Int]
    BY <1>1 DEF Others
  <1>4. [recorded[t] EXCEPT ![k] = recorded[t][k] + 1] \in [1..3 -> Int]
    BY <1>3
  <1>5. recorded' \in [TraceIDs -> [1..3 -> Int]]
    BY <1>1, <1>2, <1>4 DEF Others
  <1>6. Others'
    BY <1>1, <1>2, <1>5 DEF Others
  <1>7. Map'
    BY <1>1, <1>2, MapSame
  <1> QED
    BY <1>1, <1>2, <1>6, <1>7, TierPartsNext

\* A decision keeps the types.
LEMMA TierDecide ==
  ASSUME TierInv, NEW c \in Consumers, Decide(c)
  PROVE  TierInv'
  <1>1. Map /\ Others /\ pruneTick \in BOOLEAN
    BY TierParts
  <1>2. /\ at[c] # Idle /\ crossed[c] = 0 /\ at' = [at EXCEPT ![c] = Idle]
        /\ passed' = passed \/ passed' = [passed EXCEPT ![at[c]] = passed[at[c]] + 1]
        /\ UNCHANGED <<per, crossed, pruneTick, recorded, standing, quiet>>
    BY DEF Decide, tierNone
  <1>3. at[c] \in TraceIDs
    BY <1>1, <1>2 DEF Others
  <1>4. passed' \in [TraceIDs -> Nat]
    BY <1>1, <1>2, <1>3 DEF Others
  <1>5. Others'
    BY <1>1, <1>2, <1>4 DEF Others
  <1>6. Map'
    BY <1>1, <1>2, MapSame
  <1> QED
    BY <1>1, <1>2, <1>5, <1>6, TierPartsNext

\* So does a tick of the prune ticker.
LEMMA TierPruneTick ==
  ASSUME TierInv, PruneTick
  PROVE  TierInv'
  <1>1. Map /\ Others
    BY TierParts
  <1>2. pruneTick' \in BOOLEAN
    BY Zenon DEF PruneTick
  <1>3. UNCHANGED <<per, at, crossed, recorded, passed, standing, quiet>>
    BY DEF PruneTick
  <1>4. Others'
    BY <1>1, <1>3 DEF Others
  <1>5. Map'
    BY <1>1, <1>3, MapSame
  <1> QED
    BY <1>2, <1>4, <1>5, TierPartsNext

\* An entry that is deleted leaves nothing in the map.
LEMMA TierPrune ==
  ASSUME TierInv, Prune
  PROVE  TierInv'
  <1>1. Map /\ Others /\ pruneStale
    BY TierParts DEF Prune
  <1>2. /\ per' \in [TraceIDs -> CounterEntry]
        /\ \A t \in TraceIDs : StaleEntry(t) =>
              per'[t] = NoEntry /\ per'[t].count = 0 /\ per'[t].highestTier = 0
        /\ \A t \in TraceIDs : ~StaleEntry(t) => per'[t] = per[t]
    BY <1>1, PruneEffect DEF Map
  <1>3. tierFromCount(0) = 0
    BY TierValues, ThresholdsAssumption, WarnAssumption
  <1>4. Map'
    <2>1. \A t \in TraceIDs \ Tracked' : per'[t] = NoEntry
      BY <1>1, <1>2 DEF Map, Tracked
    <2>2. TiersMatch'
      BY <1>1, <1>2, <1>3 DEF Map, TiersMatch
    <2> QED
      BY <1>2, <2>1, <2>2 DEF Map
  <1>5. recorded' \in [TraceIDs -> [1..3 -> Int]]
    <2>1. recorded' = [t \in TraceIDs |-> [k \in 1..3 |->
             IF StaleEntry(t) /\ k <= per[t].highestTier THEN recorded[t][k] - 1
             ELSE recorded[t][k]]]
      BY DEF Prune, RealTiers, tierWarn, tierBreaker
    <2>2. \A t \in TraceIDs, k \in 1..3 : recorded[t][k] \in Int
      BY <1>1 DEF Others
    <2> QED
      BY <2>1, <2>2
  <1>6. passed' \in [TraceIDs -> Nat]
    BY <1>1 DEF Others, Prune
  <1>7. standing' \in [TraceIDs -> Nat]
    <2>1. \A t \in TraceIDs : Cardinality(Holding(t)) \in Nat
      BY Countable DEF Holding
    <2> QED
      BY <1>1, <2>1 DEF Others, Prune
  <1>8. UNCHANGED <<at, crossed, quiet>>
    BY DEF Prune
  <1>9. Others'
    BY <1>1, <1>5, <1>6, <1>7, <1>8 DEF Others
  <1>10. pruneTick' \in BOOLEAN
    BY Zenon DEF Prune
  <1> QED
    BY <1>4, <1>9, <1>10, TierPartsNext

\* The clock changes ages only.
LEMMA TierAdvance ==
  ASSUME TierInv, Advance
  PROVE  TierInv'
  <1>1. Map /\ Others /\ BreakerAge /\ pruneTick \in BOOLEAN
    BY TierParts DEF Advance
  <1>2. /\ per' \in [TraceIDs -> CounterEntry]
        /\ \A t \in TraceIDs :
              /\ per'[t].count = per[t].count
              /\ per'[t].highestTier = per[t].highestTier
              /\ per[t].count = 0 => per'[t].age = per[t].age
    BY <1>1, AgeEffect DEF Map
  <1>3. ASSUME NEW t \in TraceIDs \ Tracked' PROVE per'[t] = NoEntry
    <2>1. per[t].count = 0
      BY <1>1, <1>2, ThresholdsAssumption DEF Map, Tracked, CounterEntry
    <2>2. per[t] = NoEntry
      BY <1>1, <2>1 DEF Map, Tracked
    <2>3. per'[t] = [count |-> per[t].count, highestTier |-> per[t].highestTier, age |-> per[t].age]
      BY <2>1, <1>1 DEF BreakerAge, EntryOlder
    <2> QED
      BY <2>2, <2>3 DEF NoEntry
  <1>4. Map'
    BY <1>1, <1>2, <1>3 DEF Map, TiersMatch
  <1>5. quiet' \in [TraceIDs -> 0..(TTL + 1)]
    BY <1>1, TTLAssumption DEF Others, Advance
  <1>6. UNCHANGED <<at, crossed, pruneTick, recorded, passed, standing>>
    BY DEF Advance
  <1>7. Others'
    BY <1>1, <1>5, <1>6 DEF Others
  <1> QED
    BY <1>1, <1>4, <1>6, <1>7, TierPartsNext

\* The invariant is kept by every step.
LEMMA TierNext ==
  ASSUME TierInv, [Next]_vars
  PROVE  TierInv'
  <1>1. CASE UNCHANGED vars
    BY <1>1 DEF vars, TierInv, TypeOK, TiersMatch, Tracked
  <1>2. ASSUME NEW c \in Consumers, NEW t \in TraceIDs, Observe(c, t) PROVE TierInv'
    BY <1>2, TierObserve
  <1>3. ASSUME NEW c \in Consumers, Record(c) \/ Decide(c) PROVE TierInv'
    BY <1>3, TierRecord, TierDecide
  <1> QED
    BY <1>1, <1>2, <1>3, TierPruneTick, TierPrune, TierAdvance DEF Next

\* An empty map satisfies the invariant.
LEMMA TierInit == Init => TierInv
  <1> SUFFICES ASSUME Init PROVE TierInv
    OBVIOUS
  <1>1. NoEntry \in CounterEntry /\ NoEntry.count = 0 /\ NoEntry.highestTier = 0
    BY ThresholdsAssumption, TTLAssumption DEF NoEntry, CounterEntry, Tiers, tierNone, tierBreaker
  <1>2. tierFromCount(0) = 0
    BY TierValues, ThresholdsAssumption, WarnAssumption
  <1>3. Map
    BY <1>1, <1>2 DEF Init, BreakerInit, Map, TiersMatch
  <1>4. Others
    BY TTLAssumption DEF Init, Others, RealTiers, tierNone, tierWarn, tierBreaker
  <1>5. pruneTick \in BOOLEAN
    BY Zenon DEF Init
  <1> QED
    BY <1>3, <1>4, <1>5, TierParts

\* Types and tiers agree in every reachable state.
LEMMA TierAlways == Spec => []TierInv
  BY TierInit, TierNext, PTL DEF Spec

\* The types hold, and an id that is not in the map has nothing left of an
\* earlier life: what observe creates after pruneStale is a new entry.
THEOREM GuardTypeCorrect == Spec => []TypeOK
  BY TierAlways, PTL DEF TierInv

(***************************************************************************)
(* The recorded tiers.                                                     *)
(***************************************************************************)

\* One instance of EachTierOnce: n recordings, the consumers S still to record,
\* the tier h of the entry.
Squared(n, S, k, h) == n + Cardinality(S) = IF k <= h THEN 1 ELSE 0

\* EachTierOnce in these terms.
LEMMA OnceParts ==
  EachTierOnce <=> \A t \in TraceIDs, k \in 1..3 :
                      Squared(recorded[t][k], Recording(t, k), k, per[t].highestTier)
  BY DEF EachTierOnce, Squared, RealTiers, tierWarn, tierBreaker

\* The same after a step.
LEMMA OncePartsNext ==
  EachTierOnce' <=> \A t \in TraceIDs, k \in 1..3 :
                      Squared(recorded'[t][k], Recording(t, k)', k, per'[t].highestTier)
  BY DEF EachTierOnce, Squared, RealTiers, tierWarn, tierBreaker

\* A span that crosses a tier leaves its consumer with that tier to record.
LEMMA OnceObserve ==
  ASSUME TierInv, EachTierOnce, NEW c \in Consumers, NEW t \in TraceIDs, Observe(c, t)
  PROVE  EachTierOnce'
  <1>1. Map /\ Others /\ observe(t)
    BY TierParts DEF Observe
  <1>2. /\ \A u \in TraceIDs \ {t} : per'[u] = per[u]
        /\ \/ observed(t) = 0 /\ per'[t].highestTier = per[t].highestTier
           \/ /\ observed(t) = per[t].highestTier + 1
              /\ observed(t) \in 1..3
              /\ per'[t].highestTier = observed(t)
    BY <1>1, ObserveEffect DEF Map
  <1>3. /\ at[c] = Idle /\ at' = [at EXCEPT ![c] = t]
        /\ crossed' = [crossed EXCEPT ![c] = observed(t)]
        /\ recorded' = recorded
    BY DEF Observe
  <1>4. SUFFICES ASSUME NEW u \in TraceIDs, NEW k \in 1..3
                 PROVE  Squared(recorded'[u][k], Recording(u, k)', k, per'[u].highestTier)
    BY OncePartsNext
  <1>5. Squared(recorded[u][k], Recording(u, k), k, per[u].highestTier)
    BY OnceParts
  <1>6. per[u].highestTier \in 0..3 /\ recorded[u][k] \in Int
    BY <1>1 DEF Map, Others, CounterEntry, Tiers, tierNone, tierBreaker
  <1>7. c \notin Recording(u, k) /\ Recording(u, k) \in SUBSET Consumers
    BY <1>3, IdleAssumption DEF Recording, Holding
  <1>8. CASE u = t /\ observed(t) = k
    <2>1. Recording(u, k)' = Recording(u, k) \cup {c}
      BY <1>1, <1>3, <1>7, <1>8 DEF Recording, Holding, Others
    <2>2. Cardinality(Recording(u, k)') = Cardinality(Recording(u, k)) + 1
          /\ Cardinality(Recording(u, k)) \in Nat
      BY <1>7, <2>1, Countable
    <2>3. per[u].highestTier = k - 1 /\ per'[u].highestTier = k
      BY <1>2, <1>6, <1>8
    <2> QED
      BY <1>3, <1>5, <1>6, <2>2, <2>3 DEF Squared
  <1>9. CASE ~(u = t /\ observed(t) = k)
    <2>1. Recording(u, k)' = Recording(u, k)
      BY <1>1, <1>3, <1>7, <1>9 DEF Recording, Holding, Others
    <2>2. k <= per'[u].highestTier <=> k <= per[u].highestTier
      BY <1>2, <1>6, <1>9
    <2> QED
      BY <1>3, <1>5, <2>1, <2>2 DEF Squared
  <1> QED
    BY <1>8, <1>9

\* What is recorded is no longer to be recorded.
LEMMA OnceRecord ==
  ASSUME TierInv, EachTierOnce, NEW c \in Consumers, Record(c)
  PROVE  EachTierOnce'
  <1>1. Others
    BY TierParts
  <1>2. PICK t \in TraceIDs, j \in 1..3 :
            /\ t = at[c] /\ j = crossed[c]
            /\ recorded' = [recorded EXCEPT ![t] = [recorded[t] EXCEPT ![j] = recorded[t][j] + 1]]
            /\ crossed' = [crossed EXCEPT ![c] = 0]
            /\ UNCHANGED <<per, at, pruneTick, passed, standing, quiet>>
    BY RecordEffect
  <1>3. SUFFICES ASSUME NEW u \in TraceIDs, NEW k \in 1..3
                 PROVE  Squared(recorded'[u][k], Recording(u, k)', k, per'[u].highestTier)
    BY OncePartsNext
  <1>4. Squared(recorded[u][k], Recording(u, k), k, per[u].highestTier)
    BY OnceParts
  <1>5. Recording(u, k) \in SUBSET Consumers
    BY DEF Recording, Holding
  <1>6. recorded[u] \in [1..3 -> Int] /\ recorded[u][k] \in Int
    BY <1>1 DEF Others
  <1>7. CASE u = t /\ k = j
    <2>1. c \in Recording(u, k) /\ Recording(u, k)' = Recording(u, k) \ {c}
      BY <1>1, <1>2, <1>7 DEF Recording, Holding, Others
    <2>2. Cardinality(Recording(u, k)') = Cardinality(Recording(u, k)) - 1
          /\ Cardinality(Recording(u, k)) \in Nat
      BY <1>5, <2>1, Countable
    <2>3. recorded'[u][k] = recorded[u][k] + 1
      BY <1>1, <1>2, <1>6, <1>7 DEF Others
    <2> QED
      BY <1>2, <1>4, <1>6, <2>2, <2>3 DEF Squared
  <1>8. CASE ~(u = t /\ k = j)
    <2>1. Recording(u, k)' = Recording(u, k)
      BY <1>1, <1>2, <1>8 DEF Recording, Holding, Others
    <2>2. recorded'[u][k] = recorded[u][k]
      <3>1. CASE u # t
        BY <1>1, <1>2, <3>1 DEF Others
      <3>2. CASE u = t /\ k # j
        BY <1>1, <1>2, <1>6, <3>2 DEF Others
      <3> QED
        BY <1>8, <3>1, <3>2
    <2> QED
      BY <1>2, <1>4, <2>1, <2>2 DEF Squared
  <1> QED
    BY <1>7, <1>8

\* A consumer that decides has nothing to record.
LEMMA OnceDecide ==
  ASSUME TierInv, EachTierOnce, NEW c \in Consumers, Decide(c)
  PROVE  EachTierOnce'
  <1>1. Others
    BY TierParts
  <1>2. /\ crossed[c] = 0 /\ at' = [at EXCEPT ![c] = Idle]
        /\ UNCHANGED <<per, crossed, recorded>>
    BY DEF Decide, tierNone
  <1>3. SUFFICES ASSUME NEW u \in TraceIDs, NEW k \in 1..3
                 PROVE  Squared(recorded'[u][k], Recording(u, k)', k, per'[u].highestTier)
    BY OncePartsNext
  <1>4. Recording(u, k)' = Recording(u, k)
    BY <1>1, <1>2 DEF Recording, Holding, Others
  <1> QED
    BY <1>2, <1>4, OnceParts

\* A deletion settles the tiers the entry had reached, also those that are still
\* to be recorded.
LEMMA OncePrune ==
  ASSUME TierInv, EachTierOnce, Prune
  PROVE  EachTierOnce'
  <1>1. Map /\ Others /\ pruneStale
    BY TierParts DEF Prune
  <1>2. \A t \in TraceIDs : /\ StaleEntry(t) => per'[t].highestTier = 0
                            /\ ~StaleEntry(t) => per'[t] = per[t]
    BY <1>1, PruneEffect DEF Map
  <1>3. recorded' = [t \in TraceIDs |-> [k \in 1..3 |->
           IF StaleEntry(t) /\ k <= per[t].highestTier THEN recorded[t][k] - 1
           ELSE recorded[t][k]]]
    BY DEF Prune, RealTiers, tierWarn, tierBreaker
  <1>4. SUFFICES ASSUME NEW u \in TraceIDs, NEW k \in 1..3
                 PROVE  Squared(recorded'[u][k], Recording(u, k)', k, per'[u].highestTier)
    BY OncePartsNext
  <1>5. Squared(recorded[u][k], Recording(u, k), k, per[u].highestTier)
    BY OnceParts
  <1>6. Recording(u, k)' = Recording(u, k)
    BY DEF Prune, Recording, Holding
  <1>7. recorded[u][k] \in Int /\ Cardinality(Recording(u, k)) \in Nat
    <2>1. Recording(u, k) \in SUBSET Consumers
      BY DEF Recording, Holding
    <2> QED
      BY <1>1, <2>1, Countable DEF Others
  <1>8. recorded'[u][k] = IF StaleEntry(u) /\ k <= per[u].highestTier THEN recorded[u][k] - 1
                          ELSE recorded[u][k]
    BY <1>3
  <1> QED
    BY <1>2, <1>5, <1>6, <1>7, <1>8 DEF Squared

\* The other steps change neither tiers nor recordings.
LEMMA OnceNext ==
  ASSUME TierInv, EachTierOnce, [Next]_vars
  PROVE  EachTierOnce'
  <1>1. CASE /\ UNCHANGED <<at, crossed, recorded>>
             /\ \A t \in TraceIDs : per'[t].highestTier = per[t].highestTier
    <2>1. \A t \in TraceIDs, k \in 1..3 : Recording(t, k)' = Recording(t, k)
      BY <1>1 DEF Recording, Holding
    <2> QED
      BY <1>1, <2>1, OnceParts, OncePartsNext
  <1>2. ASSUME NEW c \in Consumers, NEW t \in TraceIDs, Observe(c, t) PROVE EachTierOnce'
    BY <1>2, OnceObserve
  <1>3. ASSUME NEW c \in Consumers, Record(c) \/ Decide(c) PROVE EachTierOnce'
    BY <1>3, OnceRecord, OnceDecide
  <1>4. CASE PruneTick \/ UNCHANGED vars
    BY <1>1, <1>4 DEF PruneTick, vars
  <1>5. CASE Advance
    <2>1. \A t \in TraceIDs : per'[t].highestTier = per[t].highestTier
      BY <1>5, AgeEffect DEF Advance, TierInv, TypeOK
    <2> QED
      BY <1>1, <1>5, <2>1 DEF Advance
  <1> QED
    BY <1>2, <1>3, <1>4, <1>5, OncePrune DEF Next

\* At the start no tier is reached or recorded.
LEMMA OnceInit == Init => EachTierOnce
  <1> SUFFICES ASSUME Init, NEW t \in TraceIDs, NEW k \in 1..3
               PROVE  Squared(recorded[t][k], Recording(t, k), k, per[t].highestTier)
    BY OnceParts
  <1>1. Recording(t, k) = {}
    BY IdleAssumption DEF Init, Recording, Holding
  <1>2. Cardinality(Recording(t, k)) = 0
    BY <1>1, FS_EmptySet
  <1>3. recorded[t][k] = 0 /\ per[t].highestTier = 0
    BY DEF Init, BreakerInit, NoEntry, RealTiers, tierNone, tierWarn, tierBreaker
  <1> QED
    BY <1>2, <1>3 DEF Squared

\* Over all lives of a trace each tier is recorded, or about to be, exactly as
\* often as an entry reached it, for all thresholds and however many consumers
\* observe its spans and stand between observe and the recording.
THEOREM TiersCorrect == Spec => []EachTierOnce
  BY TierAlways, OnceInit, OnceNext, PTL DEF Spec

(***************************************************************************)
(* The blacklist.                                                          *)
(***************************************************************************)

\* The age of an entry keeps up with the silence of its trace.
LEMMA AgeNext ==
  ASSUME TierInv, AgeInv, [Next]_vars
  PROVE  AgeInv'
  <1>1. per \in [TraceIDs -> CounterEntry] /\ quiet \in [TraceIDs -> 0..(TTL + 1)] /\ TiersMatch
    BY DEF TierInv, TypeOK
  <1>2. CASE UNCHANGED <<per, quiet>>
    BY <1>2 DEF AgeInv
  <1>3. ASSUME NEW c \in Consumers, NEW t \in TraceIDs, Observe(c, t) PROVE AgeInv'
    <2>1. per'[t].age = 0 /\ \A u \in TraceIDs \ {t} : per'[u] = per[u]
      BY <1>1, <1>3, ObserveEffect DEF Observe
    <2>2. quiet'[t] = 0 /\ \A u \in TraceIDs \ {t} : quiet'[u] = quiet[u]
      BY <1>1, <1>3 DEF Observe
    <2> QED
      BY <2>1, <2>2 DEF AgeInv
  <1>4. CASE Prune
    <2>1. \A t \in TraceIDs : /\ StaleEntry(t) => per'[t].count = 0
                              /\ ~StaleEntry(t) => per'[t] = per[t]
      BY <1>1, <1>4, PruneEffect DEF Prune
    <2>2. quiet' = quiet
      BY <1>4 DEF Prune
    <2> QED
      BY <2>1, <2>2 DEF AgeInv
  <1>5. CASE Advance
    <2>1. \A t \in TraceIDs :
            /\ per'[t].count = per[t].count
            /\ per[t].count > 0 =>
                 per'[t].age = IF per[t].age > TTL THEN per[t].age ELSE per[t].age + 1
      BY <1>1, <1>5, AgeEffect DEF Advance
    <2>2. \A t \in TraceIDs : quiet'[t] = IF quiet[t] > TTL THEN quiet[t] ELSE quiet[t] + 1
      BY <1>1, <1>5 DEF Advance
    <2> QED
      BY <2>1, <2>2 DEF AgeInv
  <1> QED
    BY <1>2, <1>3, <1>4, <1>5 DEF Next, vars, Record, Decide, PruneTick

\* An empty map has no ages.
LEMMA AgeInit == Init => AgeInv
  BY DEF Init, BreakerInit, AgeInv, NoEntry

\* Ages are exact in every reachable state.
LEMMA AgeAlways == Spec => []AgeInv
  BY TierAlways, AgeInit, AgeNext, PTL DEF Spec

\* No step clears the blacklist of a trace that sent something within TTL.
LEMMA BlacklistNext ==
  ASSUME TierInv, AgeInv, [Next]_vars, NEW t \in TraceIDs, shouldDrop(t), quiet[t] <= TTL
  PROVE  shouldDrop(t)'
  <1>1. per \in [TraceIDs -> CounterEntry] /\ TiersMatch /\ quiet \in [TraceIDs -> 0..(TTL + 1)]
    BY DEF TierInv, TypeOK
  <1>2. per[t].highestTier = 3 /\ per[t].count \in 0..Hard
    BY <1>1 DEF shouldDrop, CounterEntry, Tiers, tierNone, tierBreaker
  <1>3. per[t].count > 0
    BY <1>1, <1>2, TierValues, ThresholdsAssumption DEF TiersMatch
  <1>4. ~StaleEntry(t)
    BY <1>1, <1>3, TTLAssumption DEF StaleEntry, AgeInv
  <1>5. SUFFICES per'[t].highestTier = 3
    BY DEF shouldDrop, tierBreaker
  <1>6. CASE UNCHANGED per
    BY <1>2, <1>6
  <1>7. ASSUME NEW c \in Consumers, NEW u \in TraceIDs, Observe(c, u) PROVE per'[t].highestTier = 3
    <2>1. CASE u # t
      BY <1>1, <1>2, <1>7, <2>1, ObserveEffect DEF Observe
    <2>2. CASE u = t
      BY <1>1, <1>2, <1>7, <2>2, ObserveEffect DEF Observe
    <2> QED
      BY <2>1, <2>2
  <1>8. CASE Prune
    BY <1>1, <1>2, <1>4, <1>8, PruneEffect DEF Prune
  <1>9. CASE Advance
    BY <1>1, <1>2, <1>9, AgeEffect DEF Advance
  <1> QED
    BY <1>6, <1>7, <1>8, <1>9 DEF Next, vars, Record, Decide, PruneTick

\* A blacklisted trace stays blacklisted until it has sent nothing for longer
\* than TTL: pruneStale can delete no other blacklisted entry, because the age
\* of an entry is exactly the silence of its trace.
THEOREM BlacklistCorrect == Spec => BlacklistHolds
  <1>1. ASSUME TierInv, AgeInv, [Next]_vars
        PROVE  [\A t \in TraceIDs : shouldDrop(t) /\ quiet[t] <= TTL => shouldDrop(t)']_vars
    BY <1>1, BlacklistNext
  <1> QED
    BY <1>1, TierAlways, AgeAlways, PTL DEF Spec, BlacklistHolds

(***************************************************************************)
(* The budget.                                                             *)
(***************************************************************************)

\* One instance of BudgetInv.
Within(n, held, count, extra) ==
  /\ count < Hard => n + held <= count + extra
  /\ n < Hard + extra
  /\ n <= count + extra

\* BudgetInv in these terms, before and after a step.
LEMMA BudgetParts ==
  /\ BudgetInv <=> \A t \in TraceIDs :
        Within(passed[t], Cardinality(Holding(t)), per[t].count, standing[t])
  /\ BudgetInv' <=> \A t \in TraceIDs :
        Within(passed'[t], Cardinality(Holding(t)'), per'[t].count, standing'[t])
  BY DEF BudgetInv, Within

\* A number of consumers holds spans of a trace.
LEMMA HoldingNumber ==
  ASSUME NEW t \in TraceIDs
  PROVE  Holding(t) \in SUBSET Consumers /\ Cardinality(Holding(t)) \in Nat
  BY Countable DEF Holding

\* A span that is observed is counted before it can pass.
LEMMA BudgetObserve ==
  ASSUME TierInv, BudgetInv, NEW c \in Consumers, NEW t \in TraceIDs, Observe(c, t)
  PROVE  BudgetInv'
  <1>1. Map /\ Others /\ observe(t)
    BY TierParts DEF Observe
  <1>2. /\ per'[t].count = Counted(per[t].count)
        /\ \A u \in TraceIDs \ {t} : per'[u] = per[u]
    BY <1>1, ObserveEffect DEF Map
  <1>3. passed' = passed /\ standing' = standing /\ at' = [at EXCEPT ![c] = t] /\ at[c] = Idle
    BY DEF Observe
  <1>4. SUFFICES ASSUME NEW u \in TraceIDs
                 PROVE  Within(passed'[u], Cardinality(Holding(u)'), per'[u].count, standing'[u])
    BY BudgetParts
  <1>5. Within(passed[u], Cardinality(Holding(u)), per[u].count, standing[u])
    BY BudgetParts
  <1>6. CASE u # t
    <2>1. Holding(u)' = Holding(u)
      BY <1>1, <1>3, <1>6, IdleAssumption DEF Holding, Others
    <2> QED
      BY <1>2, <1>3, <1>5, <1>6, <2>1
  <1>7. CASE u = t
    <2>1. c \notin Holding(u) /\ Holding(u)' = Holding(u) \cup {c}
      BY <1>1, <1>3, <1>7, IdleAssumption DEF Holding, Others
    <2>2. /\ Cardinality(Holding(u)) \in Nat
          /\ Cardinality(Holding(u)') = Cardinality(Holding(u)) + 1
      BY <2>1, HoldingNumber, Countable
    <2>3. per[u].count \in 0..Hard /\ passed[u] \in Nat /\ standing[u] \in Nat
      BY <1>1 DEF Map, Others, CounterEntry
    <2>4. /\ per'[u].count \in 0..Hard
          /\ per[u].count <= per'[u].count
          /\ per'[u].count < Hard => per'[u].count = per[u].count + 1
      BY <1>2, <1>7, <2>3, ThresholdsAssumption DEF Counted
    <2> QED
      BY <1>3, <1>5, <2>2, <2>3, <2>4, ThresholdsAssumption DEF Within
  <1> QED
    BY <1>6, <1>7

\* A decision turns a span in hand into one that passed, or drops it.
LEMMA BudgetDecide ==
  ASSUME TierInv, BudgetInv, NEW c \in Consumers, Decide(c)
  PROVE  BudgetInv'
  <1>1. Map /\ Others
    BY TierParts
  <1>2. PICK t \in TraceIDs : t = at[c]
    BY <1>1 DEF Decide, Others
  <1>3. per' = per /\ at' = [at EXCEPT ![c] = Idle] /\ standing' = standing
    BY DEF Decide
  <1>4. passed' = IF shouldDrop(t) THEN passed ELSE [passed EXCEPT ![t] = passed[t] + 1]
    BY <1>2 DEF Decide
  <1>5. SUFFICES ASSUME NEW u \in TraceIDs
                 PROVE  Within(passed'[u], Cardinality(Holding(u)'), per'[u].count, standing'[u])
    BY BudgetParts
  <1>6. Within(passed[u], Cardinality(Holding(u)), per[u].count, standing[u])
    BY BudgetParts
  <1>7. per[u].count \in 0..Hard /\ passed[u] \in Nat /\ standing[u] \in Nat
    BY <1>1 DEF Map, Others, CounterEntry
  <1>8. CASE u # t
    <2>1. Holding(u)' = Holding(u)
      BY <1>1, <1>2, <1>3, <1>8, IdleAssumption DEF Holding, Others
    <2>2. passed'[u] = passed[u]
      BY <1>1, <1>4, <1>8 DEF Others
    <2> QED
      BY <1>3, <1>6, <2>1, <2>2
  <1>9. CASE u = t
    <2>1. c \in Holding(u) /\ Holding(u)' = Holding(u) \ {c}
      BY <1>1, <1>2, <1>3, <1>9, IdleAssumption DEF Holding, Others
    <2>2. /\ Cardinality(Holding(u)) \in Nat /\ Cardinality(Holding(u)') \in Nat
          /\ Cardinality(Holding(u)') = Cardinality(Holding(u)) - 1
      <3>1. Holding(u) \ {c} \in SUBSET Consumers
        BY HoldingNumber
      <3> QED
        BY <2>1, <3>1, HoldingNumber, Countable
    <2>3. CASE shouldDrop(t)
      <3>1. passed'[u] = passed[u]
        BY <1>4, <2>3
      <3> QED
        BY <1>3, <1>6, <1>7, <2>2, <3>1, ThresholdsAssumption DEF Within
    <2>4. CASE ~shouldDrop(t)
      <3>1. passed'[u] = passed[u] + 1
        BY <1>1, <1>4, <1>9, <2>4 DEF Others
      <3>2. per[u].highestTier = tierFromCount(per[u].count) /\ per[u].highestTier \in 0..3
        BY <1>1 DEF Map, TiersMatch, CounterEntry, Tiers, tierNone, tierBreaker
      <3>3. per[u].highestTier # 3
        BY <1>9, <2>4, <3>2 DEF shouldDrop, tierBreaker
      <3>4. per[u].count < Hard
        BY <1>7, <3>2, <3>3, TierValues, ThresholdsAssumption
      <3> QED
        BY <1>3, <1>6, <1>7, <2>2, <3>1, <3>4, ThresholdsAssumption DEF Within
    <2> QED
      BY <2>3, <2>4
  <1> QED
    BY <1>8, <1>9

\* What is in hand when an entry is deleted is what the next life may exceed its
\* budget by.
LEMMA BudgetPrune ==
  ASSUME TierInv, BudgetInv, Prune
  PROVE  BudgetInv'
  <1>1. Map /\ pruneStale
    BY TierParts DEF Prune
  <1>2. \A t \in TraceIDs : /\ StaleEntry(t) => per'[t].count = 0
                            /\ ~StaleEntry(t) => per'[t] = per[t]
    BY <1>1, PruneEffect DEF Map
  <1>3. /\ passed' = [t \in TraceIDs |-> IF StaleEntry(t) THEN 0 ELSE passed[t]]
        /\ standing' = [t \in TraceIDs |-> IF StaleEntry(t) THEN Cardinality(Holding(t))
                                           ELSE standing[t]]
    BY DEF Prune
  <1>4. SUFFICES ASSUME NEW u \in TraceIDs
                 PROVE  Within(passed'[u], Cardinality(Holding(u)'), per'[u].count, standing'[u])
    BY BudgetParts
  <1>5. Holding(u)' = Holding(u) /\ Cardinality(Holding(u)) \in Nat
    BY HoldingNumber DEF Prune, Holding
  <1>6. CASE StaleEntry(u)
    BY <1>2, <1>3, <1>5, <1>6, ThresholdsAssumption DEF Within
  <1>7. CASE ~StaleEntry(u)
    BY <1>2, <1>3, <1>5, <1>7, BudgetParts
  <1> QED
    BY <1>6, <1>7

\* The remaining steps neither count nor decide a span.
LEMMA BudgetNext ==
  ASSUME TierInv, BudgetInv, [Next]_vars
  PROVE  BudgetInv'
  <1>1. CASE UNCHANGED <<at, standing, passed>> /\ \A t \in TraceIDs : per'[t].count = per[t].count
    <2>1. \A t \in TraceIDs : Holding(t)' = Holding(t)
      BY <1>1 DEF Holding
    <2> QED
      BY <1>1, <2>1, BudgetParts
  <1>2. ASSUME NEW c \in Consumers, NEW t \in TraceIDs, Observe(c, t) PROVE BudgetInv'
    BY <1>2, BudgetObserve
  <1>3. ASSUME NEW c \in Consumers, Decide(c) PROVE BudgetInv'
    BY <1>3, BudgetDecide
  <1>4. ASSUME NEW c \in Consumers, Record(c) PROVE BudgetInv'
    BY <1>1, <1>4 DEF Record
  <1>5. CASE PruneTick \/ UNCHANGED vars
    BY <1>1, <1>5 DEF PruneTick, vars
  <1>6. CASE Advance
    <2>1. \A t \in TraceIDs : per'[t].count = per[t].count
      BY <1>6, AgeEffect DEF Advance, TierInv, TypeOK
    <2> QED
      BY <1>1, <1>6, <2>1 DEF Advance
  <1> QED
    BY <1>2, <1>3, <1>4, <1>5, <1>6, BudgetPrune DEF Next

\* At the start nothing is counted, in hand or passed.
LEMMA BudgetInit == Init => BudgetInv
  <1> SUFFICES ASSUME Init, NEW t \in TraceIDs
               PROVE  Within(passed[t], Cardinality(Holding(t)), per[t].count, standing[t])
    BY BudgetParts
  <1>1. Holding(t) = {}
    BY IdleAssumption DEF Init, Holding
  <1>2. Cardinality(Holding(t)) = 0
    BY <1>1, FS_EmptySet
  <1>3. per[t].count = 0 /\ passed[t] = 0 /\ standing[t] = 0
    BY DEF Init, BreakerInit, NoEntry
  <1> QED
    BY <1>2, <1>3, ThresholdsAssumption DEF Within

\* Fewer than Hard spans of a trace reach the triggers in one life, and one more
\* for each consumer that held a span when the entry before was deleted, for
\* every number of consumers that may stand between observe and shouldDrop.
THEOREM BudgetCorrect == Spec => []BudgetHolds
  <1>1. BudgetInv => BudgetHolds
    BY DEF BudgetInv, BudgetHolds
  <1> QED
    BY <1>1, TierAlways, BudgetInit, BudgetNext, PTL DEF Spec
=============================================================================
