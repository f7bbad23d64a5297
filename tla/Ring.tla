-------------------------------- MODULE Ring --------------------------------
(***************************************************************************)
(* The pre-alert buffer, internal/buffer/ring.go: spans grouped by trace,  *)
(* bounded in number and in age.                                           *)
(*                                                                         *)
(* Every method of Ring runs under its mutex and reads the clock under it, *)
(* so a method is one action.  A ResourceSpans is the set of its spans, a  *)
(* span is one occurrence of it in the buffer.  Time is the age of a       *)
(* trace's newest span in units of the clock: ages above Window behave     *)
(* alike, so they stop at Window + 1.                                      *)
(***************************************************************************)
EXTENDS Orders, FiniteSets

CONSTANTS
    TraceIDs,   \* pcommon.TraceID
    Spans,      \* spans that may be in the buffer
    MaxSpans,   \* Options.MaxSpans
    Window      \* Options.PreAlertWindow in units of the clock

ASSUME MaxSpansAssumption == MaxSpans \in Nat \ {0}   \* New panics otherwise
ASSUME WindowAssumption   == Window \in Nat \ {0}     \* New replaces zero by 5m
ASSUME SpansAssumption    == IsFiniteSet(Spans)

VARIABLES
    traces,     \* Ring.traces: the entries of the traces that are buffered
    order,      \* Ring.order: trace ids, the one buffered first in front
    count       \* Ring.count

vars == <<traces, order, count>>

TraceEntry == [spans : SUBSET Spans, age : 0..(Window + 1)]

Buffered == UNION {traces[t].spans : t \in DOMAIN traces}

-----------------------------------------------------------------------------
(***************************************************************************)
(* The helpers of Ring, as functions of its three fields.                  *)
(***************************************************************************)

\* Without the entries of the traces in gone (delete(r.traces, id)).
Without(tr, gone) == [t \in DOMAIN tr \ gone |-> tr[t]]

\* The spans of the traces in some.
SpansOf(tr, some) == UNION {tr[t].spans : t \in some \cap DOMAIN tr}

\* "if r.count < 0 { r.count = 0 }"
Clamp(n) == IF n < 0 THEN 0 ELSE n

BugNotRemoved(s, t) == s
removeFromOrderLocked(s, t) == WithoutFirst(s, t)

\* newestAt.Before(now - preAlertWindow)
Stale(entry) == entry.age > Window

\* evictByTimeLocked: the traces it deletes, and what it makes of the fields.
BugStopAtFresh(tr, ord) ==
    {t \in Members(ord) \cap DOMAIN tr :
        \A i, j \in DOMAIN ord : i <= j /\ ord[j] = t => Stale(tr[ord[i]])}
ExpiredIn(tr, ord) == {t \in Members(ord) \cap DOMAIN tr : Stale(tr[t])}
OrderAfterTime(tr, ord) == Filter(ord, DOMAIN tr \ ExpiredIn(tr, ord))
BugCountKept(tr, ord, n) == n
CountAfterTime(tr, ord, n) == Clamp(n - Cardinality(SpansOf(tr, ExpiredIn(tr, ord))))

\* evictByCountLocked: the number of traces it takes from the front of order,
\* the smallest after which the count is within the cap.
BugStrictlyBelow(tr, ord, n, k) == n - Cardinality(SpansOf(tr, FirstIn(ord, k))) < MaxSpans
Fits(tr, ord, n, k) == n - Cardinality(SpansOf(tr, FirstIn(ord, k))) <= MaxSpans
BugOnlyOne(tr, ord, n) == IF n > MaxSpans THEN 1 ELSE 0
Surplus(tr, ord, n) ==
    CHOOSE k \in 0..Len(ord) :
        /\ k = Len(ord) \/ Fits(tr, ord, n, k)
        /\ \A j \in 0..(k - 1) : ~Fits(tr, ord, n, j)
BugSubtractTwice(tr, ord, n, k) == n - 2 * Cardinality(SpansOf(tr, FirstIn(ord, k)))
CountAfterSurplus(tr, ord, n, k) == n - Cardinality(SpansOf(tr, FirstIn(ord, k)))

-----------------------------------------------------------------------------
Init ==
    /\ traces = << >>
    /\ order = << >>
    /\ count = 0

(***************************************************************************)
(* Insert: buffer the spans new under trace t, then evict by time, then by *)
(* count.  The trace that is inserted may be the one that is evicted.      *)
(***************************************************************************)
BugReplaced(old, new) == new
Appended(old, new) == old \cup new

Insert(t, new) ==
    LET old  == IF t \in DOMAIN traces THEN traces[t].spans ELSE {}
        tr1  == [u \in DOMAIN traces \cup {t} |->
                    IF u = t THEN [spans |-> Appended(old, new), age |-> 0] ELSE traces[u]]
        ord1 == IF t \in DOMAIN traces THEN order ELSE Append(order, t)
        n1   == count + Cardinality(new)
        tr2  == Without(tr1, ExpiredIn(tr1, ord1))
        ord2 == OrderAfterTime(tr1, ord1)
        n2   == CountAfterTime(tr1, ord1, n1)
        k    == Surplus(tr2, ord2, n2)
    IN  /\ traces' = Without(tr2, FirstIn(ord2, k))
        /\ order' = SubSeq(ord2, k + 1, Len(ord2))
        /\ count' = CountAfterSurplus(tr2, ord2, n2, k)

\* Drain of a trace that is buffered.  Of another one it returns nil.
Drain(t) ==
    /\ t \in DOMAIN traces
    /\ traces' = Without(traces, {t})
    /\ order' = removeFromOrderLocked(order, t)
    /\ count' = Clamp(count - Cardinality(traces[t].spans))

PruneByTime ==
    /\ traces' = Without(traces, ExpiredIn(traces, order))
    /\ order' = OrderAfterTime(traces, order)
    /\ count' = CountAfterTime(traces, order, count)

\* The clock advances by one unit.
Older(n) == IF n > Window THEN n ELSE n + 1
Advance ==
    /\ traces' = [t \in DOMAIN traces |-> [traces[t] EXCEPT !.age = Older(@)]]
    /\ UNCHANGED <<order, count>>

Next ==
    \/ \E t \in TraceIDs, new \in (SUBSET (Spans \ Buffered)) \ {{}} : Insert(t, new)
    \/ \E t \in TraceIDs : Drain(t)
    \/ PruneByTime
    \/ Advance

Spec == Init /\ [][Next]_vars

\* pruneLoop calls PruneByTime at every tick of a ticker.
FairSpec == Spec /\ WF_vars(PruneByTime)

-----------------------------------------------------------------------------
(***************************************************************************)
(* Properties.                                                             *)
(***************************************************************************)

\* The types: count is never negative, so the clamps of the code never hide a
\* miscount from Len.
TypeOK ==
    /\ DOMAIN traces \subseteq TraceIDs
    /\ \A t \in DOMAIN traces : traces[t] \in TraceEntry
    /\ order \in Seq(TraceIDs)
    /\ count \in Nat

\* order lists every buffered trace exactly once, over any mix of inserts,
\* drains and evictions: an id that stayed behind in order after its trace was
\* drained would, once buffered again, be evicted at its old place.
OrderMatchesTraces ==
    /\ Members(order) = DOMAIN traces
    /\ \A i, j \in DOMAIN order : order[i] = order[j] => i = j

\* count is the number of spans in the buffer, whatever the evictions by time
\* and by count, the drains and the clamps did to it.
CountExact == count = Cardinality(Buffered)

\* The cap on spans holds between any two calls, also when one insert is
\* larger than the whole cap: then nothing of it stays.
CapHolds == count <= MaxSpans /\ Cardinality(Buffered) <= MaxSpans

\* A trace is dropped as a whole: a trace that survives a step keeps all of
\* its spans ("dropping half a trace makes the post-flush incident artifact
\* incoherent", Insert).
DroppedWhole ==
    [][\A t \in DOMAIN traces \cap DOMAIN traces' : traces[t].spans \subseteq traces'[t].spans]_vars

\* An Insert that forces out traces that are not stale forces out the oldest
\* ones, in the order in which they were first buffered, and no more of them
\* than needed: with the last one back in the buffer the cap would be exceeded.
\* A new trace is forced out at once only when it is by itself above the cap, and
\* after all the others.
EvictsNoMoreThanNeeded ==
    [][\A t \in TraceIDs, new \in (SUBSET (Spans \ Buffered)) \ {{}} : Insert(t, new) =>
          LET forced   == {u \in DOMAIN traces \ DOMAIN traces' : u = t \/ ~Stale(traces[u])}
              size(u)  == Cardinality(traces[u].spans \cup (IF u = t THEN new ELSE {}))
              itself   == t \notin DOMAIN traces \cup DOMAIN traces'
          IN  /\ \A j \in DOMAIN order : order[j] \in forced =>
                    /\ \A i \in 1..(j - 1) : order[i] \notin DOMAIN traces'
                    /\ ~itself /\ (\A k \in (j + 1)..Len(order) : order[k] \notin forced)
                          => count' + size(order[j]) > MaxSpans
              /\ itself => DOMAIN traces' = {} /\ Cardinality(new) > MaxSpans]_vars

\* A trace whose newest span is older than the window leaves the buffer, or
\* gets a new span, also when no Insert ever comes: PruneByTime sees to it.
StaleLeaves ==
    \A t \in TraceIDs :
        (t \in DOMAIN traces /\ Stale(traces[t])) ~> (t \notin DOMAIN traces \/ ~Stale(traces[t]))
=============================================================================
