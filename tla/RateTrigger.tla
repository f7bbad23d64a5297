---------------------------- MODULE RateTrigger ----------------------------
(***************************************************************************)
(* One rate trigger of a service, four_triggers.go: the sliding window of  *)
(* buckets that counts samples and hits, and the severity it yields.  The  *)
(* 5xx, the slow-success and the retry trigger are the same code with      *)
(* different thresholds; which spans are samples, which of them are hits,  *)
(* and whether a trigger that is asked earlier fires first, is free here.  *)
(*                                                                         *)
(* OnRequestComplete holds the evaluator's mutex and is one action.  The   *)
(* time of a span is read before the mutex is taken, so concurrent calls   *)
(* may come with their seconds out of order, by at most Skew.  A rate is   *)
(* compared with its threshold as an exact fraction; a threshold that is   *)
(* no number (see Config) is not modelled here.                            *)
(***************************************************************************)
EXTENDS Config, Functions

CONSTANTS
    Buckets,      \* windowBuckets, which is also windowSeconds
    MinSamples,   \* Config.MinSamples
    Mild, High,   \* thresholds of the rate in units of 1/One
    Skew,         \* seconds a span may be behind the newest one
    MaxSec,       \* bound of the model: seconds in a behaviour
    MaxPerSec     \* bound of the model: samples in one second

ASSUME WindowAssumption == Buckets \in Nat \ {0} /\ Skew \in 0..(Buckets - 1)
ASSUME RatesAssumption  == MinSamples \in Nat \ {0} /\ RatesFit(Mild, High)
ASSUME BoundsAssumption == MaxSec \in Nat /\ MaxPerSec \in Nat

VARIABLES
    hits, total, bucketSec,  \* countingWindow
    lastSev                  \* lastErrSev, lastSlowSev or lastRetrySev

\* What a reader of the spans and of the flushes could write down.
VARIABLES
    seen,        \* samples and hits of every second so far
    at,          \* the second of the last span
    newest,      \* the highest second of any span
    judged,      \* the last span reached this trigger's evaluation
    announced    \* severity last returned since the trigger was last silent

vars == <<hits, total, bucketSec, lastSev, seen, at, newest, judged, announced>>

Seconds == 0..MaxSec
Slots   == 0..(Buckets - 1)

None == "none"
Rank == [none |-> 0, mild |-> 1, severe |-> 2]

-----------------------------------------------------------------------------
BugShifted(sec) == (sec + 1) % Buckets
Bucket(sec) == sec % Buckets

\* maybeRoll: a bucket that belongs to another second is emptied.
BugNotEmptied(f, sec) == f[Bucket(sec)]
maybeRoll(f, sec) == IF bucketSec[Bucket(sec)] = sec THEN f[Bucket(sec)] ELSE 0

\* collect: the buckets of the last Buckets seconds.
BugAllBuckets(secs, sec) == Slots
InWindow(secs, sec) == {i \in Slots : secs[i] \in (sec - (Buckets - 1))..sec}
collect(f, secs, sec) == SumFunctionOnSet(f, InWindow(secs, sec))

classifyTwoTier(h, n) ==
    CASE h * One >= High * n -> "severe"
      [] h * One >= Mild * n /\ h * One < High * n -> "mild"
      [] OTHER -> None

\* The severity of h hits among n samples.
Severity(h, n) == IF n < MinSamples THEN None ELSE classifyTwoTier(h, n)

BugOneStepOnly(prev, current) == Rank[current] = Rank[prev] + 1
shouldEmitTransition(prev, current) ==
    current # None /\ (prev = None \/ (prev = "mild" /\ current = "severe"))

\* What a span counts for in this window: nothing, a sample, or a sample and a
\* hit (a status of 500 and above, a duration above the baseline, a retry).
Samples == {s \in [n : 0..1, h : 0..1] : s.h <= s.n}

-----------------------------------------------------------------------------
Init ==
    /\ hits = [i \in Slots |-> 0]
    /\ total = [i \in Slots |-> 0]
    /\ bucketSec = [i \in Slots |-> -1]
    /\ lastSev = None
    /\ seen = [s \in Seconds |-> [hits |-> 0, total |-> 0]]
    /\ at = 0 /\ newest = 0 /\ judged = TRUE
    /\ announced = None

\* A span of second sec that counts for s in this trigger's window.
\* preempted: a trigger that comes before this one returned a reason for the
\* span, so this one counts the span and is not evaluated.
OnRequestComplete(sec, s, preempted) ==
    LET b == Bucket(sec)
    IN  /\ sec >= newest - Skew
        /\ seen[sec].total + s.n <= MaxPerSec
        /\ hits' = [hits EXCEPT ![b] = maybeRoll(hits, sec) + s.h]
        /\ total' = [total EXCEPT ![b] = maybeRoll(total, sec) + s.n]
        /\ bucketSec' = [bucketSec EXCEPT ![b] = sec]
        /\ LET current == Severity(collect(hits', bucketSec', sec),
                                   collect(total', bucketSec', sec))
           IN  IF preempted THEN UNCHANGED <<lastSev, announced>>
               ELSE /\ lastSev' = current
                    /\ announced' = IF shouldEmitTransition(lastSev, current) THEN current
                                    ELSE IF current = None THEN None ELSE announced
        /\ seen' = [seen EXCEPT ![sec] = [hits |-> @.hits + s.h, total |-> @.total + s.n]]
        /\ at' = sec
        /\ newest' = IF sec > newest THEN sec ELSE newest
        /\ judged' = ~preempted

Next ==
    \E sec \in Seconds, s \in Samples, preempted \in BOOLEAN : OnRequestComplete(sec, s, preempted)

Spec == Init /\ [][Next]_vars

-----------------------------------------------------------------------------
(***************************************************************************)
(* Properties.                                                             *)
(***************************************************************************)

\* The types; a bucket counts no more hits than samples, and holds a second
\* that belongs to it.
TypeOK ==
    /\ hits \in [Slots -> Nat] /\ total \in [Slots -> Nat]
    /\ \A i \in Slots : hits[i] <= total[i]
    /\ \A i \in Slots : bucketSec[i] = -1 \/ (bucketSec[i] \in Seconds /\ bucketSec[i] % Buckets = i)
    /\ lastSev \in DOMAIN Rank /\ announced \in DOMAIN Rank
    /\ at \in Seconds /\ newest \in Seconds /\ judged \in BOOLEAN

\* Each of the last Buckets seconds is in the window with all of its samples
\* and hits, and nothing else is, although spans come out of order and the
\* buckets are reused: a late span of an earlier second never empties the
\* bucket of a second that still counts.
WindowExact ==
    \A s \in Seconds : s > newest - Buckets /\ s <= newest =>
        IF bucketSec[s % Buckets] = s
        THEN hits[s % Buckets] = seen[s].hits /\ total[s % Buckets] = seen[s].total
        ELSE seen[s].total = 0

\* The samples and the hits of the last Buckets seconds.
InLast(sec) == {s \in Seconds : s > sec - Buckets /\ s <= sec}
RefSeverity(sec) ==
    Severity(SumFunctionOnSet([s \in Seconds |-> seen[s].hits], InLast(sec)),
             SumFunctionOnSet([s \in Seconds |-> seen[s].total], InLast(sec)))

\* After an evaluation by a span that is not late the severity is that of all
\* the samples of the last Buckets seconds, whatever late spans, and spans that
\* an earlier trigger fired on, came before.
SeverityExact == judged /\ at = newest => lastSev = RefSeverity(newest)

\* A severity is never entered in silence: while the trigger stands at mild or
\* severe a reason of that severity or a higher one has been returned since it
\* was last below both, so the trace of that span was flushed.
RaisedIsAnnounced == Rank[lastSev] <= Rank[announced]
=============================================================================
