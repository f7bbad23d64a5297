----------------------------- MODULE SpanGuard -----------------------------
(***************************************************************************)
(* The circuit breaker under its callers.  A ConsumeTraces call, of which  *)
(* the collector makes several at a time, takes three steps for a span: it *)
(* observes it, records the tier the span crossed, if any, after observe   *)
(* has released the lock, and asks shouldDrop in a second critical         *)
(* section.  Other calls and the prune goroutine, which may delete the     *)
(* entry, come in between.  A span that passes goes on to the triggers.    *)
(***************************************************************************)
EXTENDS TraceBreaker

CONSTANT Consumers   \* concurrent ConsumeTraces calls

\* Without it the first span would cross two tiers at once.
ASSUME WarnAssumption == Warn > 0

VARIABLES
    at,        \* the trace whose span a consumer observed and not yet decided, or Idle
    crossed,   \* the tier that observe returned to it, until it is recorded
    pruneTick  \* a tick of the prune ticker waits in its channel

(***************************************************************************)
(* What the metrics and a reader of the logs could tell.  A life of a      *)
(* trace is that of one entry of the map.                                  *)
(***************************************************************************)
VARIABLES
    recorded,  \* how often a tier was recorded for a trace, less the deleted
               \* entries of the trace that had reached it
    passed,    \* spans that went on to the triggers since the last deletion
    standing,  \* how many consumers held a span of the trace at the last deletion
    quiet      \* clock units since the last span of a trace, up to TTL + 1

Idle == "idle"

ASSUME ConsumersAssumption == IsFiniteSet(Consumers)
ASSUME IdleAssumption == Idle \notin TraceIDs

vars == <<per, at, crossed, pruneTick, recorded, passed, standing, quiet>>

Init ==
    /\ BreakerInit
    /\ at = [c \in Consumers |-> Idle]
    /\ crossed = [c \in Consumers |-> tierNone]
    /\ pruneTick = FALSE
    /\ recorded = [t \in TraceIDs |-> [k \in RealTiers |-> 0]]
    /\ passed = [t \in TraceIDs |-> 0]
    /\ standing = [t \in TraceIDs |-> 0]
    /\ quiet = [t \in TraceIDs |-> 0]

\* observe.
Observe(c, t) ==
    /\ at[c] = Idle
    /\ observe(t)
    /\ at' = [at EXCEPT ![c] = t]
    /\ crossed' = [crossed EXCEPT ![c] = observed(t)]
    /\ quiet' = [quiet EXCEPT ![t] = 0]
    /\ UNCHANGED <<pruneTick, recorded, passed, standing>>

\* recordTraceBreakerTransition, for a tier that was crossed.
Record(c) ==
    /\ crossed[c] # tierNone
    /\ recorded' = [recorded EXCEPT ![at[c]][crossed[c]] = @ + 1]
    /\ crossed' = [crossed EXCEPT ![c] = tierNone]
    /\ UNCHANGED <<per, at, pruneTick, passed, standing, quiet>>

\* shouldDrop, and "continue" or the evaluation of the span.
Decide(c) ==
    /\ at[c] # Idle /\ crossed[c] = tierNone
    /\ at' = [at EXCEPT ![c] = Idle]
    /\ passed' = IF shouldDrop(at[c]) THEN passed ELSE [passed EXCEPT ![at[c]] = @ + 1]
    /\ UNCHANGED <<per, crossed, pruneTick, recorded, standing, quiet>>

\* pruneLoop: one tick of its ticker waits at most.
PruneTick ==
    /\ ~pruneTick
    /\ pruneTick' = TRUE
    /\ UNCHANGED <<per, at, crossed, recorded, passed, standing, quiet>>

Holding(t) == {c \in Consumers : at[c] = t}

Prune ==
    /\ pruneTick
    /\ pruneTick' = FALSE
    /\ pruneStale
    /\ recorded' = [t \in TraceIDs |-> [k \in RealTiers |->
          IF StaleEntry(t) /\ k <= per[t].highestTier THEN recorded[t][k] - 1
          ELSE recorded[t][k]]]
    /\ passed' = [t \in TraceIDs |-> IF StaleEntry(t) THEN 0 ELSE passed[t]]
    /\ standing' = [t \in TraceIDs |-> IF StaleEntry(t) THEN Cardinality(Holding(t))
                                     ELSE standing[t]]
    /\ UNCHANGED <<at, crossed, quiet>>

Advance ==
    /\ BreakerAge
    /\ quiet' = [t \in TraceIDs |-> IF quiet[t] > TTL THEN quiet[t] ELSE quiet[t] + 1]
    /\ UNCHANGED <<at, crossed, pruneTick, recorded, passed, standing>>

Next ==
    \/ \E c \in Consumers, t \in TraceIDs : Observe(c, t)
    \/ \E c \in Consumers : Record(c) \/ Decide(c)
    \/ PruneTick \/ Prune \/ Advance

Spec == Init /\ [][Next]_vars

\* The clock and the ticker go on, and the prune goroutine is scheduled.  Of
\* the consumers nothing is assumed.
FairSpec == Spec /\ WF_vars(Advance) /\ WF_vars(PruneTick) /\ WF_vars(Prune)

-----------------------------------------------------------------------------
(***************************************************************************)
(* Properties.                                                             *)
(***************************************************************************)

\* The types.  An id that is not in the map has nothing left of an earlier life.
TypeOK ==
    /\ per \in [TraceIDs -> CounterEntry]
    /\ \A t \in TraceIDs \ Tracked : per[t] = NoEntry
    /\ at \in [Consumers -> TraceIDs \cup {Idle}]
    /\ crossed \in [Consumers -> Tiers]
    /\ \A c \in Consumers : at[c] = Idle => crossed[c] = tierNone
    /\ pruneTick \in BOOLEAN
    /\ recorded \in [TraceIDs -> [RealTiers -> Int]]
    /\ passed \in [TraceIDs -> Nat]
    /\ standing \in [TraceIDs -> Nat]
    /\ quiet \in [TraceIDs -> 0..(TTL + 1)]

\* The consumers that are about to record tier k for a span of t.
Recording(t, k) == {c \in Holding(t) : crossed[c] = k}

\* "Each transition emits a metric exactly once per trace per TTL window, not
\* once per span": over all lives of a trace so far, a tier has been recorded,
\* or is about to be by one consumer, exactly as often as an entry reached it,
\* although the lock is free between the crossing and its recording, so that
\* other consumers may cross and record the next tier, or the entry may be
\* deleted, in between.  Nothing is said of the order of the recordings.
EachTierOnce ==
    \A t \in TraceIDs, k \in RealTiers :
        recorded[t][k] + Cardinality(Recording(t, k)) = IF k <= per[t].highestTier THEN 1 ELSE 0

\* In one life of a trace fewer than Hard of its spans reach the triggers, and
\* one more for each consumer that stood between observe and shouldDrop when
\* the entry before was deleted, and no more than were counted.  So a consumer
\* that stands at the threshold while others cross it can lose its span, but not
\* gain one, and a deletion gives no more than the spans in hand a second chance.
BudgetHolds ==
    \A t \in TraceIDs :
        /\ passed[t] < Hard + standing[t]
        /\ passed[t] <= per[t].count + standing[t]

\* A trace that sends nothing for longer than TTL is forgotten, whatever tier
\* it reached: a runaway id does not occupy memory for ever.
IdleForgotten ==
    \A t \in TraceIDs : (t \in Tracked /\ quiet[t] > TTL) ~> (t \notin Tracked \/ quiet[t] = 0)

\* A blacklisted trace stays blacklisted until it has sent nothing for longer
\* than TTL, however the prune goroutine and the consumers interleave.
BlacklistHolds ==
    [][\A t \in TraceIDs : shouldDrop(t) /\ quiet[t] <= TTL => shouldDrop(t)']_vars
=============================================================================
