# A TLA+ verification of the Incidentary Bridge processor

The Incidentary Bridge is an OpenTelemetry Collector processor.  It keeps the
last minutes of spans in memory, watches four triggers (5xx rate, slow
successes, retries, requests in flight), and when a trigger fires on a span it
sends that span's whole trace to the Incidentary backend.  This directory holds
TLA+ models of the parts of it that keep state and are used concurrently, the
TLC runs that check them on small instances, and TLAPS proofs.

Paths of Go files below are relative to the repository;
`processor.go`, `dlq_persister.go`, `trace_breaker.go` and `config.go` are in
`processor/incidentaryprocessor/`.

## Inventory

| Part | State | Operations | Called by |
|---|---|---|---|
| Ring (`internal/buffer/ring.go`) | `traces`, `order`, `count`, under `mu` | Insert, Drain, PruneByTime | ConsumeTraces, pruneLoop |
| Circuit breaker (`trace_breaker.go`) | `per`, under `mu` | observe, shouldDrop, shouldTruncate, pruneStale | ConsumeTraces, pruneLoop |
| Trigger evaluator (`internal/triggers/four_triggers.go`) | services, LRU order, windows, retry table, under `mu` | OnRequestStart, OnRequestComplete, PruneStale | ConsumeTraces, pruneLoop |
| Hot path (`processor.go` ConsumeTraces) | locals of a call | walk, evaluate, flush, forward | the collector, concurrently |
| Dead-letter queue (`processor.go`) | `dlq`, under `dlqMu` | enqueueDLQ, dlqRetryLoop/drainDLQOnce | ConsumeTraces, its goroutine |
| Persistence (`dlq_persister.go`) | the file at `PersistPath` | saveDLQ, loadDLQ | Shutdown, Start |
| Forward client (`internal/forward/client.go`) | none of its own | SendTraces | ConsumeTraces, drainDLQOnce |
| Configuration (`config.go`, `factory.go`) | none that changes | Validate, newTracesProcessor | the collector, once |
| Telemetry, binary, chart | none that the processor reads | | |

How they interact: one ConsumeTraces call makes a series of calls on Ring,
breaker and evaluator, each of which locks only for itself; several
ConsumeTraces calls run at the same time.  `pruneLoop` calls the three prunes
once a minute.  A failed forward goes to the queue; the retry goroutine empties
the queue under the lock, sends without it, and merges what still fails back.
Start and Shutdown run on the collector's goroutine, next to the retry loop.

What is hard here: everything between two critical sections of one call (the
breaker's observe and shouldDrop, the evaluation and the drain of a trace, the
take and the merge of a drain), the end of the process (Shutdown in the middle
of a drain, a failed save, a crash, a damaged file), capacities, and counters
kept by hand.  `PROJECT.json` lists these hazards, each at its line and with the
properties that look at it.

What makes each part correct:

- Queue: bounded, in order, every batch in exactly one place, evicts only the
  oldest, empties eventually; over restarts loses only what it accepts to lose.
- Ring: its three fields agree, the cap holds, traces are dropped whole, oldest
  first, and no more than needed; stale traces leave.
- Breaker: each tier of an entry is recorded once, a bounded number of spans of a
  trace is let through, a blacklist lasts while the trace sends, idle entries go.
- Triggers: a window counts exactly the samples of its last seconds, and no
  severity is entered without a flush; the table of services holds those touched
  last; an in-flight count keeps no request that is over; a pile-up is reported
  only after it lasted; a repeated key is found again, and no other is.
- Configuration: what Validate accepts is what the parts can work with (it is,
  but for NaN and an infinite multiplier).
- Hot path: no span lost or sent twice by racing calls, every trace that fired
  is flushed, errors are reported.

## Modules

| Module | Models | Extends or uses |
|---|---|---|
| `DLQ` | the queue, its retry goroutine, Start, Shutdown, the file | instantiates `RetryStore` |
| `RetryStore` | what the queue promises, abstractly | |
| `DLQProof` | proofs about `DLQ`, and that it implements `RetryStore` | `DLQ` |
| `Orders` | the loops over a slice of keys that `Ring` and `Evaluator` share | |
| `OrdersProof` | lemmas about them, and induction | `Orders` |
| `Ring` | the buffer | extends `Orders` |
| `RingProof` | proofs about `Ring` | `Ring`, `OrdersProof` |
| `TraceBreaker` | the breaker's map and methods | |
| `SpanGuard` | the breaker under concurrent consumers and the prune goroutine | extends `TraceBreaker` |
| `SpanGuardProof` | proofs about `SpanGuard` | `SpanGuard` |
| `Config` | the configuration, what accepts it and what is built from it | |
| `Evaluator` | the table of services and the in-flight trigger under concurrent callers | extends `Orders`, `Config` |
| `EvaluatorProof` | proofs about `Evaluator` and `Config` | `Evaluator`, `OrdersProof` |
| `RateTrigger` | the window and the severity of one rate trigger | extends `Config` |
| `RateTriggerProof` | proofs about `RateTrigger` | `RateTrigger`, `OrdersProof` |
| `RetryTable` | isRetry and its table | |
| `RetryTableProof` | proofs about `RetryTable` | `RetryTable`, `OrdersProof` |
| `Bridge` | ConsumeTraces and pruneLoop over one Ring and one breaker | extends `TraceBreaker`, instantiates `Ring` and `Delivery` |
| `Delivery` | what ConsumeTraces promises about a span, abstractly | |
| `BridgeProof` | proofs about `Bridge`, and that it implements `Delivery` | `Bridge`, instantiates `RingProof` |
| `MCDLQ`, `MCRing`, `MCSpanGuard`, `MCRateTrigger`, `MCRetryTable`, `MCEvaluator`, `MCBridge` | instances for TLC | |

An action is the code between two points at which another goroutine can be
scheduled; a method that holds its mutex from start to end is one action.
Operators whose names begin with `Bug` are variants of the definition that
follows them with a plausible mistake in it; no specification uses them.  For each property
`PROJECT.json` names one that TLC must find to violate it, which shows that the
property depends on the code.

### DLQ

A batch is a number, given in the order in which forwards fail, so the number
also stands for `enqueueAt`.  `phase` is the collector's goroutine: `down`,
`starting` (loops run, file not yet read), `running`, `stopping` (tickers
stopped), `saving`, `saved`, `closed`.  `retry` is the retry goroutine: `wait`
in its select, `due` after a tick, `sending` in a drain.

| Action | Code |
|---|---|
| `StartLoops`, `StartRestore(read)` | Start: the goroutines, then loadDLQ, which returns the first `read` records, and the append up to the capacity |
| `Enqueue` | enqueueDLQ |
| `Tick`, `RetryWake`, `RetryExit` | the ticker (one tick is kept, Stop discards it, as in Go 1.23 and later), the select of dlqRetryLoop |
| `DrainTake`, `DrainSend(acked)`, `DrainMerge` | drainDLQOnce: under the lock, one send per step without it, under the lock again |
| `ShutdownStop`, `ShutdownCopy`, `ShutdownClose` | Shutdown |
| `SaveNothing`, `SaveRecord`, `SaveRename`, `SaveFail` | saveDLQ; `SaveFail` is any of its error returns |
| `Exit`, `Crash`, `Damage` | the process ends, is killed, the disk loses the tail of the file |

`entered`, `flushed`, `abandoned`, `evicted`, `settled`, `atRisk`, `cutOff` and
the like are history variables: no action reads them.  `droppedTotal` is the
metric `incidentary_dlq_dropped_total`.

The model has PersistPath set; without it Start restores nothing and Shutdown
saves nothing.  A record of the file is the entry it encodes.  loadDLQ returns
the records before the first error: an error of this open or read leaves the file
as it is (`StartRestore` with a smaller `read`), damage stays (`Damage`); with a
header that cannot be read there are no records.  After an error Start goes on, and
the next Shutdown replaces or removes a file of which some records were never
read: `NoUnexplainedLoss` lists that among the losses the code accepts.
The collector calls ConsumeTraces only between Start and Shutdown.

`RetryStore` is the same without queue, drain, locks and temporary file: a set of
batches with their attempts, which are retried, displaced by younger ones, copied
aside and restored, as far as they can be read.  `Store` in `DLQ` is the mapping: the store holds what is in
the queue, in the part of a drain that is not yet sent and in the part that
failed; it is up once Start has read the file; its disk is the file and not the
temporary one.  `ImplementsStore` says that every step of the queue is a step of
the store or none.

### Ring

Three variables, the three fields.  The loops over `order` are in `Orders`: `Filter`
is the survivors' slice of evictByTimeLocked, `FirstIn` what the eviction by count
takes, `WithoutFirst` removeFromOrderLocked.  Time is the age of a trace's newest span;
ages above the window are alike and saturate.  `Insert` is the append followed
by both evictions, as in the code: `ExpiredIn` is what evictByTimeLocked
deletes, `Surplus` how many traces evictByCountLocked takes from the front.  A
span is one occurrence in the buffer, so the number of buffered spans is the
cardinality of a set.

### TraceBreaker and SpanGuard

`per` is total: an id that is not in the map has the zero entry, which is what
observe would create and shouldDrop would assume.  Counts saturate at `Hard`,
ages at `TTL + 1`.  In `SpanGuard` a consumer takes three steps for a span:
`Observe`, `Record` if observe returned a tier, and `Decide`.  The lock is free
before `Record` and before `Decide`, so another consumer may cross and record the
next tier first, and the prune goroutine may delete the entry.  The metric is kept
per tier and not per trace; `recorded` has it per trace, as the log line next to it
does, and gives back what a deleted entry had reached, so that `EachTierOnce` covers
all lives of a trace and a recording that comes after its entry is gone.  It
says how often a tier is recorded and nothing of the order: warn may be recorded
after truncate.  `passed` counts every span that goes on to the triggers since the
last deletion of the trace's entry, also one that was observed before it;
`standing` is how many such spans there were, and `BudgetHolds` has the budget
larger by exactly that.  `Bridge` has the same two critical sections; the recording
between them is left out there, since nothing in `Bridge` depends on it.

### RateTrigger

The 5xx, the slow-success and the retry trigger are the same code: a window of
ten one-second buckets, a minimum of samples, two thresholds, and a severity
that is announced when it rises.  The module is one of them, with the thresholds
as constants.  `Samples` is what a span counts for in the window; the conditions
that decide it (status, the moving average of durations, the retry table) are
free.  `OnRequestComplete` updates the bucket and evaluates the trigger, unless
a trigger that is asked earlier returned a reason for the span (`preempted`): the
code then returns, with the span counted and the trigger not evaluated.  The
second of a span is read before the evaluator's lock is taken, so it may lie up
to `Skew` seconds behind the newest.  Thresholds are multiples of 1/`One`, and rates
are compared with them as exact fractions; the code divides floating-point numbers.

### RetryTable

`hash` and `lastSec` are the two arrays of a service.  `Slot(k)` is where the
probe loop ends: the first slot of the sequence that is empty or has the key, else
the home slot, which is overwritten.  A key is the hash that outboundRetryKey
computes; 0 is no key.  Times are in ticks of which several make a second, because
the table keeps whole seconds and compares with milliseconds.  `last`, `newest`,
`lost` and `answer` are history variables.

### Evaluator

`services` and `order` are the map and the eviction list; `call[c]` is the server
request that goroutine `c` has started and not completed.  In this program
OnRequestStart and OnRequestComplete are called back to back by evaluateSpan when
a finished span arrives, so a count is the number of goroutines that stand
between the two calls, not of requests in the observed service.  `OnRequestStart`,
`ServerComplete`, `ClientComplete` and `PruneStale` are the critical sections;
`Store` is touch, with the eviction of as many services as the code takes, and the
entry that the caller writes.  A rate trigger that fires returns before the
in-flight trigger is evaluated: that is the first disjunct of `OnRequestComplete`.
The baseline is the integer part of the moving average times the multiplier; it
moves towards its goal by any part of the way.  Ages saturate where the code no
longer tells them apart, so the state space is finite without a last moment.

### Config

Pure operators: the configurations, `Validate` with all it calls, and what
newTracesProcessor hands to the constructors.  Durations are in seconds.  A
rate or a multiplier is a float64: a multiple of 1/`One`, an infinity or NaN, and
`RatesAccepted` and `PileupAccepted` are the comparisons by which the code rejects,
all of which are false of NaN.  `One` is any number from 100 on; the same constant
gives `RateTrigger` and `Evaluator` their units, so `PartsFit` states their
assumptions (`RatesFit`, `PileupFits`) as they are.  An endpoint is what its URL and
host are classified as.

### Bridge

Every step of a call that touches shared state is an action: `InsertTrace`
per trace of a ResourceSpans, `ObserveSpan`, `DecideSpan`, `DrainTrace`,
`SendOK` or `SendFail`, `Return`; Go's maps are walked in any order.  Whether
evaluateSpan returns a reason is free, as are the replies of the backend and of
the next consumer.  `PassThrough` only changes what the call returns, so it is
a parameter of `Outcome`.  What happens to a batch after enqueueDLQ is `DLQ`.
A ResourceSpans without spans does nothing in the code and is left out.

`Delivery` is the life of a span without walk, Ring and breaker: new, buffered,
in the hands of one call, and then sent, queued or dropped, its trace always as a
whole.  `End` in `Bridge` is the mapping and `ImplementsDelivery` the claim.

## Runs

| Run | Instance | States | Result |
|---|---|---|---|
| `dlq` | 2 slots, 2 attempts, 3 batches | 1.4 million | all hold |
| `dlq_live` | 1 slot, 2 attempts, 2 batches | 36 000 | all hold |
| `ring` | 3 traces, 5 spans, cap 3, window 1 | 5 500 | all hold |
| `span_guard` | 2 traces, 2 consumers, thresholds 1, 2, 4, TTL 1 | 165 000 | all hold |
| `rate_trigger` | 3 buckets, 5 seconds, 2 samples a second, spans 2 seconds late | 160 000 | all hold |
| `retry_table` | 4 keys, 4 slots, 2 probes, 6 half seconds | 210 000 | all hold |
| `evaluator` | 3 services, 2 callers, 2 entries, TTL 1, holds 2 and 3 | 240 000 | all hold |
| `bridge` | 2 calls, 2 traces, 3 spans, cap 2, 2 ResourceSpans a batch, 2 clock units | 0.5 million | all hold |
| `restart_keeps_queue` | as `dlq` | | violated |
| `failed_save_only_loses_queue` | as `dlq` | | violated |
| `truncate_stops_buffering` | as `bridge` | | violated |
| `not_silently_delivered` | as `bridge`, thresholds 1, 2, 3 | | violated |

`dlq` checks TypeOK (a queued entry has attempts left), Bounded, Fifo,
Accounted (every batch in exactly one place), WholeFile (the file is replaced
atomically), NoUnexplainedLoss (over restarts, only the accepted losses),
EvictsOldest and ImplementsStore.  `dlq_live` checks QueueSettles and ShutdownCompletes.  `ring`
checks OrderMatchesTraces, CountExact, CapHolds, DroppedWhole,
EvictsNoMoreThanNeeded and StaleLeaves.  `span_guard` checks EachTierOnce,
BudgetHolds, BlacklistHolds and IdleForgotten.  `rate_trigger` checks
WindowExact, SeverityExact (also after spans that an earlier trigger fired on)
and RaisedIsAnnounced.  `retry_table` checks ProbeFinds (every key that is kept
is found), NoFalseRetry, NoMissedRetry and KeepsUntilCrowded.  `evaluator` checks
TableIsLRU, InFlightNeverOver and HeldLongEnough.  `bridge` checks
ExactlyOnePlace, FiredTracesLeave, ErrorReported and ImplementsDelivery.  Each
property is stated in words above its definition.

The four violated runs state what a comment says and the code does not do:

1. *RestartKeepsQueue* (`config.go:38`).  Shutdown saves the queue while a drain
   holds the entries it took from it; they are in no file.
2. *FailedSaveOnlyLosesQueue* (`processor.go:351`).  The file is not removed
   when it has been loaded; after a failed save the next Start restores it, with
   batches that were settled meanwhile.
3. *TruncateStopsBuffering* (`trace_breaker.go:43`).  Spans are buffered before
   the breaker is asked, and nothing calls shouldTruncate.
4. *NotSilentlyDelivered* (`processor.go:525`).  Of two calls that share a trace,
   the one that does not drain it returns nil even if the forward failed.

Further observations, which reading shows and for which there is no run:

- The merge of a drain evicts without incrementing the metric that
  `processor.go:45` promises (`DrainMerge` leaves `droppedTotal` alone).
- `processor.go:63` says that a long-running trace eventually gets a fresh budget;
  every span renews `lastSeen`, so only a trace that pauses does (`BlacklistHolds`
  states and proves what is the case).
- `four_triggers.go:579` says that the oldest entry of the probe sequence is
  overwritten; the code overwrites the home slot, whatever its age.
- Validate rejects a threshold or a multiplier by comparisons that are false of NaN,
  so it accepts NaN (`NaNIsAccepted`), next to a NaN `high` any positive `mild`, and
  an infinite multiplier.  A comparison with a NaN threshold is never true, so that
  severity is never reached; the product of the in-flight trigger is converted to
  an integer, which for NaN or an infinity gives a value that depends on the platform.
- Validate accepts a forward timeout of zero.  The client replaces it by 30
  seconds, drainDLQOnce uses it as it is, so that every retry fails at once.
- `net_growth_min` is validated, handed to the evaluator and never read; the hold
  times may be zero or negative.

### Bounds, and why they are enough

- `dlq`: two slots and three batches let the queue be full while a drain holds one
  entry, and a drain be full while one entry is queued, so that both evictions
  happen (for both to be full it takes four batches); two attempts let an entry
  survive one drain and be abandoned by the next, with a restart between.
  The theorems below hold without these bounds.
- `dlq_live`: one slot keeps the graph small enough for liveness and still has
  full queues, evictions by the merge and repeated drains.
- `ring`: five spans over a cap of three let one insert force out none, one, two
  or all traces, its own included; a window of one gives fresh, old and stale
  traces next to each other.
- `span_guard`: two consumers can both stand at a threshold; thresholds are as
  close as their order allows, with one span between truncate and breaker.
- `rate_trigger`: five seconds reuse two of three buckets; a span may be as late
  as leaves it in the window, which is also the assumption on `Skew`: a span a
  whole window late would empty a bucket that still counts.  The code has ten
  buckets, so that would take a call held up for ten seconds.
- `retry_table`: three keys share a home slot whose sequence of two wraps around
  into the home of the fourth, so sequences overlap, fill up and are overwritten;
  six half seconds outlast the window of one second.
- `evaluator`: three services compete for two entries, so an entry is evicted and
  made again while its requests are open; two callers leave one request open when
  the other completes, which is what a pile-up needs; the holds of two and three
  ticks make it mild and severe, and are longer than the skew of one by which a
  timestamp may be late, so neither part of HeldLongEnough is vacuous.  The
  multiplier keeps the scaled baseline below the minimum, which is then the
  threshold; the theorems are for every multiplier.  No
  more than the skew may pass while a call is between its timestamp and the lock.
  Services and callers are interchangeable.
- `bridge`: two calls may share a trace, with a copy of a span in the same call
  or in the other one; cap two forces evictions, hard threshold two makes the
  breaker drop.  `MaxClock` lets each kind of entry become stale once.  Calls
  are interchangeable, so their symmetry is used; no liveness is checked there.

### Fairness

- `DLQ`: the ticker fires, the retry goroutine is scheduled and its sends end
  (each has a context with a deadline), and a Shutdown that has begun goes on.
  Nothing forces a start, a stop, a crash, a success or a failure of a send.
- `Ring`: pruneLoop calls PruneByTime again and again.
- `SpanGuard`: the clock and the prune ticker go on and the prune goroutine is
  scheduled.  Nothing is assumed of the consumers, which may stop anywhere.

## Proofs

`DLQProof` proves, for every capacity, every number of attempts (both at least
one) and every number of failed batches:

- `TypeCorrect`: `Spec => []TypeOK`.
- `QueueCorrect`: `Spec => [](Bounded /\ Fifo /\ Accounted)`.
- `EvictionCorrect`: `Spec => EvictsOldest`.
- `RestartCorrect`: `Spec => [](NoUnexplainedLoss /\ WholeFile)`.

The three properties of `QueueCorrect` are not inductive.  `QueueInv` adds
`Shape` (which lists are empty at which place of the two goroutines, what of
the snapshot has been written) and `Older` (every batch in the queue, a drain or
the file is numbered below the next one).  They are needed because Start fills
a queue that only `Shape` shows to be empty, because the merge fits only
because the drain's two lists together were once a queue, and because appending
keeps the order only if the new number is larger than all others.  For the
restart theorem `LossInv` adds `Covered`, which says for each phase where the
batches that will be needed after the next restart are: in particular that
restored batches which are not settled are still in the file until a save
replaces it.  What Start restores is a prefix of the file (`RestoredPrefix`), which is
all the proofs need of an error while loading.  Each proof has a lemma per action or group of actions; the
sequence lemmas at the top say what Append, concatenation, Tail and SubSeq do to
the set and to the order of a queue's batches.

`SpanGuardProof` proves, for every set of traces, every finite set of consumers,
all thresholds `0 < Warn < Truncate < Hard` and every TTL:

- `GuardTypeCorrect`: `Spec => []TypeOK`.
- `TiersCorrect`: `Spec => []EachTierOnce`.
- `BudgetCorrect`: `Spec => []BudgetHolds`.
- `BlacklistCorrect`: `Spec => BlacklistHolds`.

The first two rest on `TierInv`, which adds that the tier of an entry is the
tier of its count; with thresholds that differ and a warn threshold above zero a
span then crosses at most one tier.  With that, EachTierOnce is inductive: a
crossing adds one consumer that is about to record, a recording moves one from the
consumers to the count, and a deletion takes one from the tiers the entry had
reached, whether they are recorded yet or not.  The budget rests on `BudgetInv`:
below `Hard` the spans that passed and the spans that consumers hold are together no
more than the count plus `standing`.  Without the second summand the invariant
is not inductive, since a decision lets one more span pass and counts nothing.  The
blacklist rests on `AgeInv`: the age of an entry in the map is the time since
its trace's last span, so pruneStale deletes only entries of silent traces.

`DLQProof` also proves `StoreImplemented`: `Spec => ImplementsStore`, from
`TypeOK` and `QueueInv`.  Most steps only move entries between queue, drain and
snapshot, which the store does not see.  The two evictions need the most: the
store asks for a full capacity of younger batches for each batch it displaces,
which the queue gives because it is strictly sorted (`Fifo`) and because what is
left of it after the eviction is as long as the capacity.

`RingProof` proves, for any traces and any finite set of spans, every cap and every
window of at least one:

- `RingTypes`, `OrderIsExact`, `CounterIsExact`, `TheCapHolds`: `Spec => []P` for
  TypeOK, OrderMatchesTraces, CountExact and CapHolds.
- `NoHalfTrace`: `Spec => DroppedWhole`.
- `EvictionIsMinimal`: `Spec => EvictsNoMoreThanNeeded`.

The four invariants are proved together, as parts of `Inv` (theorem
`RingInvariant`), because none of them is inductive alone.  The counter is exact
after an eviction only if no span is in two traces (`Apart`), so that what is
subtracted is what the buffer loses; the eviction by count reaches the cap only if
`order` names every trace; and it names every trace once only if Drain and both
evictions take the same traces out of `order` and of the map.  The cap needs that
the loop of evictByCountLocked ends: `Surplus` exists because with the whole of
`order` taken nothing is left.  A trace that its own insert forces out is the last in
`order`, so nothing is left then either, and it is larger than the cap.

`BridgeProof` proves, for every finite set of spans, any traces, any set of calls,
every cap, window, TTL and thresholds `Warn < Truncate < Hard`, and every bound on
the ResourceSpans of a batch and on the clock (the refinement also assumes that no
call is named like a resting place of `Delivery`):

- `BridgeTypes`, `OnePlace`, `FiredIsFlushed`, `FailureIsReported`: `Spec => []P`
  for TypeOK, ExactlyOnePlace, FiredTracesLeave and ErrorReported.
- `RingIsUsedRight`: `Spec => Buf!Spec`: every step of Bridge is a step of `Ring` or
  leaves the Ring alone.
- `BridgeImplementsDelivery`: `Spec => ImplementsDelivery`.

The buffer's own invariant is not proved again: `RP`, an instance of `RingProof`,
supplies it, and lemmas say that the operations of the two instances of `Ring` are
the same.  `Inv` (theorem `BridgeInvariant`) adds where the walk of each call stands
(`Walk`), that the batches of different calls and their parts are apart
(`Batches`), that what a call has not inserted yet is nowhere (`NotYet`), that the
buffer groups spans by their trace (`Grouped`), that a trace which fired is either
still to be flushed by the call or gone from the buffer with all of the call's
spans (`ToFlush`), and that buffered, held, delivered, queued and evicted spans are
disjoint and together all that entered (`Placed`).  ExactlyOnePlace alone is not
inductive: an insert keeps it only because its spans are nowhere else yet.  The
refinement maps a state to `Placement`, the place of every span, and shows for each
action that it moves exactly the spans that an action of `Delivery` moves.

`RateTriggerProof` proves, for every number of buckets, every skew below it, all
thresholds, minima and bounds:

- `TriggerTypes`, `WindowIsExact`, `SeverityIsExact`, `NoSilentRaise`: `Spec => []P`
  for TypeOK, WindowExact, SeverityExact and RaisedIsAnnounced.

`Inv` (theorem `TriggerInvariant`) adds that nothing was seen after the newest
second (`FutureUnseen`) and that no bucket holds a later one (`NoFutureBucket`):
they make the next second start from an empty count.  For SeverityExact the sum
over the buckets must be the sum over the seconds of the window; the first part of
the module proves that sums over finite sets exist, do not depend on the order of
summation and agree along a bijection, here of a second and its bucket.

`RetryTableProof` proves, for every finite set of keys, every table size, probe
limit, window and skew:

- `TableTypes`, `KeysAreFound`, `NoRetryIsMadeUp`, `NoRetryIsMissed`,
  `CollisionsCostNothing`: `Spec => []P` for TypeOK, ProbeFinds, NoFalseRetry,
  NoMissedRetry and KeepsUntilCrowded.

`Inv` (theorem `TableInvariant`) adds that a key is where its probe sequence leads,
past slots of other keys (`Reachable`), once (`Unique`), with the second of its last
call (`Stamped`), that a key which was seen is in the table or lost (`Present`), and
not both (`NotLost`).  No slot is ever emptied, which is what keeps `Reachable`.

`EvaluatorProof` proves, for every set of services, every finite set of callers,
every size of the table, every TTL and all hold times, multipliers and minima the
assumptions allow (at least one tick for the mild hold):

- `EvaluatorTypes`: `Spec => []TypeOK`.
- `TheTableIsLRU`: `Spec => []TableIsLRU`.
- `InFlightCorrect`: `Spec => []InFlightNeverOver`.
- `HoldCorrect`: `Spec => []HeldLongEnough`.

InFlightNeverOver is inductive with the types: a start adds one to the count and
one call to the open ones, a completion takes one from both or the count was zero,
and an eviction only forgets.  HeldLongEnough is not; `HoldInv` adds that the time
since the pile-up began is at most the calm, the time since the last evaluation
that found none, plus the age of one timestamp.  TableIsLRU rests on `TableInv`,
which adds that no service is in an order twice and that ages fall along the order
of eviction (`AgesFall`).  Without the latter PruneStale, which filters the order,
could take a service out of its middle, and what is left would no longer be the
services touched last.

It also proves, for every configuration:

- `AcceptedConfigFits`: the values a processor is built from satisfy what the
  modules of the parts assume of their constants (`PartsFit`) if and only if no
  threshold is NaN and the multiplier is neither NaN nor infinite; the hold times
  may be zero or negative in any case.
- `NaNIsAccepted`: the defaults with a NaN threshold pass Validate and do not fit.
- `OnlyTheTokenIsLeft`: after Validate, NewClient can refuse only a missing token.
- `DefaultAccepted`: the defaults pass, and give the evaluator the defaults of the
  package `triggers`.

`OrdersProof` holds what several proofs need of sequences: what `Filter` and
`WithoutFirst` leave and where, that both keep a list of keys without repetition,
that such a list is as long as it has keys, and when `Filter` leaves the end of a
sequence.  The prover cannot instantiate the library's induction rules, which take
an operator as a parameter; where a proof goes by induction over a number, a
sequence or a finite set, it takes the least number for which the claim fails
(`LeastNumber`, from the well-foundedness of `<`) and shows that it does not fail
there.  The function of `Filter` and the sums of `RateTriggerProof` are shown to
exist in this way before anything is said of their values.

Only model-checked: the liveness properties QueueSettles, ShutdownCompletes,
StaleLeaves and IdleForgotten (the prover has no rules for fairness).  Every other
property of a passing run is also a theorem.

## Not modelled

- The moving average of durations that decides which successes are slow: a
  floating-point computation; which spans count is free in `RateTrigger`.
- statusCode and the hash of outboundRetryKey: a span is what they make of it.
- The evaluator inside `Bridge`: its answer is free there, so what is shown of the
  hot path holds for any evaluator.
- The byte layout of the file, OTLP encoding, HTTP: a record is an entry, a send
  is its outcome.  URL parsing and the lookup of hosts: an endpoint is classified.
- Telemetry: it creates the instruments of a library and calls them; nothing in
  the processor reads them.  The collector binary and the Helm chart have no logic
  of the processor.

## Plan

1. Done: all modules above, their runs, and a theorem for every safety property and
   both refinements.
2. Left: theorems beyond the runs.  What `Bridge` takes from the breaker could be
   tied to the proofs about `SpanGuard` as it is to those about `Ring`, and the
   windows of `RateTrigger` to the spans that `Evaluator` serialises.
