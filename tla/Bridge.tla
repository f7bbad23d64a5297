------------------------------- MODULE Bridge -------------------------------
(***************************************************************************)
(* ConsumeTraces and pruneLoop of processor.go: concurrent calls that      *)
(* buffer spans, count them in the circuit breaker, ask the triggers and   *)
(* flush the traces that fired, over one shared Ring and TraceBreaker.     *)
(*                                                                         *)
(* The Ring (module Ring) and the breaker (module TraceBreaker) lock for   *)
(* the length of one method, so a call is a sequence of actions, one per   *)
(* method it calls on them, and a map is walked in any order.  Whether a   *)
(* span fires a trigger is free here, as are the replies of the backend    *)
(* and of the next consumer.  What happens to a batch once it is queued    *)
(* for retry is module DLQ.                                                *)
(***************************************************************************)
EXTENDS TraceBreaker, Sequences

CONSTANTS
    Consumers,  \* concurrent ConsumeTraces calls
    Spans,      \* occurrences of spans; each arrives in one batch
    TraceOf,    \* the TraceID of a span
    IDOf,       \* the SpanID of a span; a duplicated span has the ID of another
    MaxSpans,   \* capacity of the Ring
    Window,     \* pre-alert window of the Ring
    MaxResources, \* bound of the model: ResourceSpans in one batch
    MaxClock      \* bound of the model: clock units in a behaviour

ASSUME SpanAssumption ==
    TraceOf \in [Spans -> TraceIDs] /\ DOMAIN IDOf = Spans
\* The assumptions of module Ring.
ASSUME RingAssumption ==
    MaxSpans \in Nat \ {0} /\ Window \in Nat \ {0} /\ IsFiniteSet(Spans)
ASSUME BoundsAssumption == MaxResources \in Nat \ {0} /\ MaxClock \in Nat

VARIABLES
    traces, order, count,   \* the Ring
    pc,            \* where a call is
    rest,          \* ResourceSpans of the call, from the current one on
    toInsert,      \* traces of the current ResourceSpans not yet inserted
    toEval,        \* spans of the current ResourceSpans not yet walked
    current,       \* the span between observe and shouldDrop
    seenSpans,     \* SpanIDs the call has evaluated
    flushTargets,  \* traces the call has still to flush
    hand,          \* spans drained and not yet sent
    lastForwardErr,\* the call recorded a failed forward
    pruner,        \* where pruneLoop is
    clock          \* clock units so far

\* What an observer of the calls, the backend and the buffer could write down.
VARIABLES
    own,           \* spans of the call
    triggered,     \* traces of which the call saw a trigger fire
    sendFailed,    \* a SendTraces of the call failed
    arrived,       \* spans some call was given
    inserted,      \* spans some call put into the Ring
    sent,          \* spans the backend acknowledged
    queued,        \* spans handed to enqueueDLQ
    evicted        \* spans the Ring dropped

ring  == <<traces, order, count>>
walk  == <<rest, toInsert, toEval, current, seenSpans>>
calls == <<pc, walk, flushTargets, hand, lastForwardErr>>
ghost == <<own, triggered, sendFailed, arrived, inserted, sent, queued, evicted>>
vars  == <<per, ring, calls, pruner, clock, ghost>>

Buf == INSTANCE Ring

TracesIn(some)  == {TraceOf[s] : s \in some}
InTrace(some, t) == {s \in some : TraceOf[s] = t}
NoSpan == "none"

\* Batches that may arrive: one or more ResourceSpans, no span twice.
BatchesOf(some) ==
    UNION {{rss \in [1..n -> (SUBSET some) \ {{}}] :
              \A i, j \in 1..n : i # j => rss[i] \cap rss[j] = {}} : n \in 1..MaxResources}

Init ==
    /\ BreakerInit /\ Buf!Init
    /\ pc = [c \in Consumers |-> "idle"]
    /\ rest = [c \in Consumers |-> << >>]
    /\ toInsert = [c \in Consumers |-> {}]
    /\ toEval = [c \in Consumers |-> {}]
    /\ current = [c \in Consumers |-> NoSpan]
    /\ seenSpans = [c \in Consumers |-> {}]
    /\ flushTargets = [c \in Consumers |-> {}]
    /\ hand = [c \in Consumers |-> {}]
    /\ lastForwardErr = [c \in Consumers |-> FALSE]
    /\ pruner = "wait" /\ clock = 0
    /\ own = [c \in Consumers |-> {}]
    /\ triggered = [c \in Consumers |-> {}]
    /\ sendFailed = [c \in Consumers |-> FALSE]
    /\ arrived = {} /\ inserted = {} /\ sent = {} /\ queued = {} /\ evicted = {}

-----------------------------------------------------------------------------
(***************************************************************************)
(* The walk over the ResourceSpans of a batch.                             *)
(***************************************************************************)
Begin(c, rss) ==
    /\ pc[c] = "idle"
    /\ pc' = [pc EXCEPT ![c] = "insert"]
    /\ rest' = [rest EXCEPT ![c] = rss]
    /\ toInsert' = [toInsert EXCEPT ![c] = TracesIn(rss[1])]
    /\ LET all == UNION {rss[i] : i \in DOMAIN rss}
       IN  /\ own' = [own EXCEPT ![c] = all]
           /\ arrived' = arrived \cup all
    /\ UNCHANGED <<per, ring, toEval, current, seenSpans, flushTargets,
                   hand, lastForwardErr, pruner, clock, triggered, sendFailed, inserted,
                   sent, queued, evicted>>

\* p.buf.Insert of the part of the ResourceSpans that belongs to trace t.
InsertTrace(c, t) ==
    LET new == InTrace(rest[c][1], t)
    IN  /\ pc[c] = "insert"
        /\ t \in toInsert[c]
        /\ Buf!Insert(t, new)
        /\ toInsert' = [toInsert EXCEPT ![c] = @ \ {t}]
        /\ pc' = [pc EXCEPT ![c] = IF toInsert[c] = {t} THEN "evaluate" ELSE "insert"]
        /\ toEval' = [toEval EXCEPT ![c] = IF toInsert[c] = {t} THEN rest[c][1] ELSE {}]
        /\ inserted' = inserted \cup new
        /\ evicted' = evicted \cup ((Buf!Buffered \cup new) \ Buf!Buffered')
        /\ UNCHANGED <<per, rest, current, seenSpans, flushTargets, hand,
                       lastForwardErr, pruner, clock, own, triggered, sendFailed,
                       arrived, sent, queued>>

\* A SpanID the call has evaluated already: continue.
SkipDuplicate(c, s) ==
    /\ pc[c] = "evaluate"
    /\ s \in toEval[c] /\ IDOf[s] \in seenSpans[c]
    /\ toEval' = [toEval EXCEPT ![c] = @ \ {s}]
    /\ UNCHANGED <<per, ring, pc, rest, toInsert, current, seenSpans,
                   flushTargets, hand, lastForwardErr, pruner, clock, ghost>>

ObserveSpan(c, s) ==
    /\ pc[c] = "evaluate"
    /\ s \in toEval[c] /\ IDOf[s] \notin seenSpans[c]
    /\ observe(TraceOf[s])
    /\ pc' = [pc EXCEPT ![c] = "decide"]
    /\ current' = [current EXCEPT ![c] = s]
    /\ toEval' = [toEval EXCEPT ![c] = @ \ {s}]
    /\ seenSpans' = [seenSpans EXCEPT ![c] = @ \cup {IDOf[s]}]
    /\ UNCHANGED <<ring, rest, toInsert, flushTargets, hand,
                   lastForwardErr, pruner, clock, ghost>>

\* evaluateSpan, with all the evaluator can answer: a reason or nil.
evaluateSpan == BOOLEAN

\* shouldDrop, then evaluateSpan; fired: it returned a reason.
DecideSpan(c, fired) ==
    /\ pc[c] = "decide"
    /\ fired => ~shouldDrop(TraceOf[current[c]])
    /\ pc' = [pc EXCEPT ![c] = "evaluate"]
    /\ current' = [current EXCEPT ![c] = NoSpan]
    /\ LET more == IF fired THEN {TraceOf[current[c]]} ELSE {}
       IN  /\ flushTargets' = [flushTargets EXCEPT ![c] = @ \cup more]
           /\ triggered' = [triggered EXCEPT ![c] = @ \cup more]
    /\ UNCHANGED <<per, ring, rest, toInsert, toEval, seenSpans, hand,
                   lastForwardErr, pruner, clock, own, sendFailed, arrived, inserted,
                   sent, queued, evicted>>

NextResource(c) ==
    /\ pc[c] = "evaluate"
    /\ toEval[c] = {}
    /\ rest' = [rest EXCEPT ![c] = Tail(@)]
    /\ IF Len(rest[c]) > 1
       THEN /\ pc' = [pc EXCEPT ![c] = "insert"]
            /\ toInsert' = [toInsert EXCEPT ![c] = TracesIn(rest[c][2])]
       ELSE /\ pc' = [pc EXCEPT ![c] = "flush"]
            /\ UNCHANGED toInsert
    /\ UNCHANGED <<per, ring, toEval, current, seenSpans, flushTargets,
                   hand, lastForwardErr, pruner, clock, ghost>>

-----------------------------------------------------------------------------
(***************************************************************************)
(* The flush of the traces that fired, and the return.                     *)
(***************************************************************************)

\* p.buf.Drain found nothing: an eviction or another call took the trace.
BugAlwaysSends(t) == FALSE
NothingDrained(t) == t \notin DOMAIN traces

DrainTrace(c, t) ==
    /\ pc[c] = "flush"
    /\ t \in flushTargets[c]
    /\ flushTargets' = [flushTargets EXCEPT ![c] = @ \ {t}]
    /\ hand' = [hand EXCEPT ![c] = Buf!SpansOf(traces, {t})]
    /\ pc' = [pc EXCEPT ![c] = IF NothingDrained(t) THEN "flush" ELSE "send"]
    /\ Buf!Drain(t) \/ (t \notin DOMAIN traces /\ UNCHANGED ring)
    /\ UNCHANGED <<per, walk, lastForwardErr, pruner, clock, ghost>>

\* SendTraces succeeded.  An earlier error of the call stays recorded.
BugErrorCleared(err) == FALSE
ErrAfterSuccess(err) == err

SendOK(c) ==
    /\ pc[c] = "send"
    /\ pc' = [pc EXCEPT ![c] = "flush"]
    /\ sent' = sent \cup hand[c]
    /\ hand' = [hand EXCEPT ![c] = {}]
    /\ lastForwardErr' = [lastForwardErr EXCEPT ![c] = ErrAfterSuccess(@)]
    /\ UNCHANGED <<per, ring, walk, flushTargets, pruner, clock, own,
                   triggered, sendFailed, arrived, inserted, queued, evicted>>

\* SendTraces failed: enqueueDLQ, and on to the next trace.
BugStopAtFailure(targets) == {}
TargetsAfterFailure(targets) == targets
BugNotQueued(batch) == queued
enqueueDLQ(batch) == queued \cup batch

SendFail(c) ==
    /\ pc[c] = "send"
    /\ pc' = [pc EXCEPT ![c] = "flush"]
    /\ queued' = enqueueDLQ(hand[c])
    /\ hand' = [hand EXCEPT ![c] = {}]
    /\ flushTargets' = [flushTargets EXCEPT ![c] = TargetsAfterFailure(@)]
    /\ lastForwardErr' = [lastForwardErr EXCEPT ![c] = TRUE]
    /\ sendFailed' = [sendFailed EXCEPT ![c] = TRUE]
    /\ UNCHANGED <<per, ring, walk, pruner, clock, own, triggered,
                   arrived, inserted, sent, evicted>>

AboutToReturn(c) == pc[c] = "flush" /\ flushTargets[c] = {}

\* What the call returns.  pass: cfg.Forward.PassThrough, with a next consumer;
\* accepted: p.next.ConsumeTraces returned nil.
Outcome(c, pass, accepted) ==
    CASE pass /\ accepted -> "ok"
      [] pass /\ ~accepted -> "nextErr"
      [] ~pass /\ lastForwardErr[c] -> "forwardErr"
      [] ~pass /\ ~lastForwardErr[c] -> "ok"

Return(c) ==
    /\ AboutToReturn(c)
    /\ pc' = [pc EXCEPT ![c] = "idle"]
    /\ seenSpans' = [seenSpans EXCEPT ![c] = {}]
    /\ lastForwardErr' = [lastForwardErr EXCEPT ![c] = FALSE]
    /\ own' = [own EXCEPT ![c] = {}]
    /\ triggered' = [triggered EXCEPT ![c] = {}]
    /\ sendFailed' = [sendFailed EXCEPT ![c] = FALSE]
    /\ UNCHANGED <<per, ring, rest, toInsert, toEval, current, flushTargets,
                   hand, pruner, clock, arrived, inserted, sent, queued, evicted>>

-----------------------------------------------------------------------------
(***************************************************************************)
(* pruneLoop, and the clock both components read.  The evaluator's prune   *)
(* between the two is not visible here.                                    *)
(***************************************************************************)
PruneBuffer ==
    /\ pruner = "wait"
    /\ pruner' = "breaker"
    /\ Buf!PruneByTime
    /\ evicted' = evicted \cup (Buf!Buffered \ Buf!Buffered')
    /\ UNCHANGED <<per, calls, clock, own, triggered, sendFailed, arrived,
                   inserted, sent, queued>>

PruneBreaker ==
    /\ pruner = "breaker"
    /\ pruner' = "wait"
    /\ pruneStale
    /\ UNCHANGED <<ring, calls, clock, ghost>>

Clock ==
    /\ clock < MaxClock
    /\ clock' = clock + 1
    /\ Buf!Advance
    /\ BreakerAge
    /\ UNCHANGED <<calls, pruner, ghost>>

Next ==
    \/ \E c \in Consumers : \E rss \in BatchesOf(Spans \ arrived) : Begin(c, rss)
    \/ \E c \in Consumers, t \in TraceIDs : InsertTrace(c, t) \/ DrainTrace(c, t)
    \/ \E c \in Consumers, s \in Spans : SkipDuplicate(c, s) \/ ObserveSpan(c, s)
    \/ \E c \in Consumers, fired \in evaluateSpan : DecideSpan(c, fired)
    \/ \E c \in Consumers : NextResource(c) \/ SendOK(c) \/ SendFail(c) \/ Return(c)
    \/ PruneBuffer \/ PruneBreaker \/ Clock

Spec == Init /\ [][Next]_vars

-----------------------------------------------------------------------------
(***************************************************************************)
(* Properties.                                                             *)
(***************************************************************************)
PCs == {"idle", "insert", "evaluate", "decide", "flush", "send"}

\* The types; a call holds drained spans exactly while it sends them.
TypeOK ==
    /\ per \in [TraceIDs -> CounterEntry]
    /\ Buf!TypeOK
    /\ pc \in [Consumers -> PCs]
    /\ toInsert \in [Consumers -> SUBSET TraceIDs]
    /\ toEval \in [Consumers -> SUBSET Spans]
    /\ current \in [Consumers -> Spans \cup {NoSpan}]
    /\ flushTargets \in [Consumers -> SUBSET TraceIDs]
    /\ lastForwardErr \in [Consumers -> BOOLEAN]
    /\ pruner \in {"wait", "breaker"} /\ clock \in 0..MaxClock
    /\ \A c \in Consumers : hand[c] # {} <=> pc[c] = "send"

\* Where a span can be once a call has inserted it.
Places ==
    <<Buf!Buffered, UNION {hand[c] : c \in Consumers}, sent, queued, evicted>>

\* Every span that entered the buffer is in exactly one place: still buffered,
\* in the hands of one call, acknowledged by the backend, queued for retry, or
\* evicted by the Ring.  Calls that race for the same trace neither send a
\* span twice nor lose one.
ExactlyOnePlace ==
    /\ inserted = UNION {Places[i] : i \in DOMAIN Places}
    /\ \A i, j \in DOMAIN Places : i # j => Places[i] \cap Places[j] = {}
    /\ \A c, d \in Consumers : c # d => hand[c] \cap hand[d] = {}

\* The same as a specification.
End == INSTANCE Delivery WITH
    place <- [s \in Spans |->
                IF s \in Buf!Buffered THEN "buffered"
                ELSE IF s \in sent THEN "sent"
                ELSE IF s \in queued THEN "queued"
                ELSE IF s \in evicted THEN "dropped"
                ELSE IF s \in UNION {hand[c] : c \in Consumers}
                     THEN CHOOSE c \in Consumers : s \in hand[c]
                ELSE "new"]

ASSUME ConsumersAssumption == Consumers \cap End!Rests = {}

\* What happens to a span over time: its trace leaves the buffer as a whole and
\* once, a call that took a trace gets rid of it before it takes another, and
\* what was acknowledged, queued or dropped stays so, whatever calls race for
\* the trace and whatever the Ring drops between the walk and the flush.
ImplementsDelivery == End!Spec

OwnFired(c) == {s \in own[c] : TraceOf[s] \in triggered[c]}

\* When a call returns, no span it brought for a trace that fired is still in
\* the buffer, whatever other calls, evictions and failed forwards did: a
\* failed forward of one trace does not keep the others from being flushed.
FiredTracesLeave ==
    \A c \in Consumers : AboutToReturn(c) => Buf!Buffered \cap OwnFired(c) = {}

\* Without PassThrough a call reports an error exactly when one of its
\* forwards failed, also when a later forward of the same call succeeded; with
\* PassThrough it never reports a failed forward.
ErrorReported ==
    \A c \in Consumers, pass, accepted \in BOOLEAN :
        AboutToReturn(c) =>
            (Outcome(c, pass, accepted) = "forwardErr" <=> ~pass /\ sendFailed[c])

\* trace_breaker.go, CircuitBreakerTruncateThreshold: "stop adding spans to the
\* per-trace buffer.  The first 50K spans are still forwarded if a trigger
\* fires; the rest are silently dropped."
TruncateStopsBuffering ==
    [][\A t \in DOMAIN traces' :
          t \in TraceIDs /\ shouldTruncate(t) =>
             traces'[t].spans \subseteq Buf!SpansOf(traces, {t})]_vars

\* processor.go, the end of ConsumeTraces: "return the forward error so the
\* upstream collector framework can apply its retry/back-pressure instead of
\* marking the batch as silently delivered".  A call that reports success
\* brought no span, of a trace that fired in it, whose forward failed.
NotSilentlyDelivered ==
    \A c \in Consumers :
        AboutToReturn(c) /\ Outcome(c, FALSE, TRUE) = "ok" => queued \cap OwnFired(c) = {}
=============================================================================
