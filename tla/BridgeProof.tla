---------------------------- MODULE BridgeProof ----------------------------
(***************************************************************************)
(* Proofs about Bridge: any number of concurrent calls, spans, traces and  *)
(* ResourceSpans, any cap, window and threshold.                           *)
(*                                                                         *)
(* The Ring is used through what RingProof proves of it: every step of     *)
(* Bridge is a step of Ring or leaves it alone.  That an Insert is one     *)
(* Ring allows, with spans that are new to the buffer, rests on the walk:  *)
(* what a call has still to insert is its own and nobody inserted it yet   *)
(* (Batches, NotYet).                                                      *)
(***************************************************************************)
EXTENDS Bridge, TLAPS

RP == INSTANCE RingProof

Held == UNION {hand[c] : c \in Consumers}

Types ==
    /\ per \in [TraceIDs -> CounterEntry]
    /\ pc \in [Consumers -> PCs]
    /\ rest \in [Consumers -> Seq(SUBSET Spans)]
    /\ toInsert \in [Consumers -> SUBSET TraceIDs]
    /\ toEval \in [Consumers -> SUBSET Spans]
    /\ current \in [Consumers -> Spans \cup {NoSpan}]
    /\ flushTargets \in [Consumers -> SUBSET TraceIDs]
    /\ triggered \in [Consumers -> SUBSET TraceIDs]
    /\ hand \in [Consumers -> SUBSET Spans]
    /\ own \in [Consumers -> SUBSET Spans]
    /\ lastForwardErr \in [Consumers -> BOOLEAN]
    /\ sendFailed \in [Consumers -> BOOLEAN]
    /\ pruner \in {"wait", "breaker"} /\ clock \in 0..MaxClock
    /\ arrived \in SUBSET Spans

\* Where a call is, and what it has in its hands there.
Walking == {"insert", "evaluate", "decide"}
Walk ==
    \A c \in Consumers :
        /\ pc[c] \in Walking <=> rest[c] # << >>
        /\ pc[c] = "insert" => toInsert[c] \subseteq TracesIn(rest[c][1])
        /\ pc[c] = "decide" => current[c] \in Spans
        /\ hand[c] # {} <=> pc[c] = "send"

\* The spans of different calls, and of different ResourceSpans of a call, are
\* different ones, and a call inserts only spans that arrived.
Batches ==
    /\ \A c \in Consumers : \A i \in DOMAIN rest[c] :
          /\ rest[c][i] \subseteq own[c]
          /\ \A j \in DOMAIN rest[c] : i # j => rest[c][i] \cap rest[c][j] = {}
    /\ \A c, d \in Consumers : c # d => own[c] \cap own[d] = {}
    /\ \A c \in Consumers : own[c] \subseteq arrived
    /\ inserted \subseteq arrived

\* What a call has still to insert.
NotYet ==
    \A c \in Consumers : \A i \in DOMAIN rest[c] : \A s \in rest[c][i] :
        i # 1 \/ (pc[c] = "insert" /\ TraceOf[s] \in toInsert[c]) => s \notin inserted

\* The buffer groups spans by their trace, and has no empty entry.
Grouped ==
    \A t \in DOMAIN traces :
        traces[t].spans # {} /\ \A s \in traces[t].spans : s \in Spans /\ TraceOf[s] = t

\* A trace that fired, of which a span of the call is buffered, is still to flush.
ToFlush ==
    \A c \in Consumers :
        /\ pc[c] \in Walking \cup {"idle"} => triggered[c] = flushTargets[c]
        /\ \A s \in own[c] \cap Buf!Buffered : TraceOf[s] \in triggered[c] => TraceOf[s] \in flushTargets[c]

Errors == \A c \in Consumers : lastForwardErr[c] = sendFailed[c]

\* ExactlyOnePlace, place by place.
Parts(all, a, b, c, d, e) ==
    /\ all = a \cup b \cup c \cup d \cup e
    /\ a \cap b = {} /\ a \cap c = {} /\ a \cap d = {} /\ a \cap e = {}
    /\ b \cap c = {} /\ b \cap d = {} /\ b \cap e = {}
    /\ c \cap d = {} /\ c \cap e = {}
    /\ d \cap e = {}
Placed ==
    /\ Parts(inserted, Buf!Buffered, Held, sent, queued, evicted)
    /\ \A c, d \in Consumers : c # d => hand[c] \cap hand[d] = {}

Inv == Types /\ RP!Inv /\ Walk /\ Batches /\ NotYet /\ Grouped /\ ToFlush /\ Errors /\ Placed

-----------------------------------------------------------------------------
(***************************************************************************)
(* The steps of the buffer, as RingProof knows them.                       *)
(***************************************************************************)

\* RingProof reaches FiniteSets by a path of its own; it is the same module.
LEMMA SameFinite == \A S : IsFiniteSet(S) = RP!IsFiniteSet(S)
BY Zenon DEF IsFiniteSet, RP!IsFiniteSet

\* Insert is the same operation in both.
LEMMA SameInsert ==
    ASSUME NEW t, NEW new
    PROVE  Buf!Insert(t, new) <=> RP!Insert(t, new)
BY Zenon DEF Buf!Insert, RP!Insert, Buf!Without, RP!Without, Buf!ExpiredIn, RP!ExpiredIn,
    Buf!OrderAfterTime, RP!OrderAfterTime, Buf!CountAfterTime, RP!CountAfterTime,
    Buf!Surplus, RP!Surplus, Buf!Fits, RP!Fits, Buf!FirstIn, RP!FirstIn, Buf!SpansOf, RP!SpansOf,
    Buf!CountAfterSurplus, RP!CountAfterSurplus, Buf!Clamp, RP!Clamp, Buf!Filter, RP!Filter,
    Buf!Members, RP!Members, Buf!Stale, RP!Stale, Buf!Appended, RP!Appended,
    Buf!Cardinality, RP!Cardinality

\* So is Drain.
LEMMA SameDrain ==
    ASSUME NEW t
    PROVE  Buf!Drain(t) <=> RP!Drain(t)
BY Zenon DEF Buf!Drain, RP!Drain, Buf!WithoutFirst, RP!WithoutFirst, Buf!Without, RP!Without, Buf!Members, RP!Members,
    Buf!removeFromOrderLocked, RP!removeFromOrderLocked, Buf!Clamp, RP!Clamp,
    Buf!Cardinality, RP!Cardinality

\* So is PruneByTime.
LEMMA SamePrune == Buf!PruneByTime <=> RP!PruneByTime
BY Zenon DEF Buf!PruneByTime, RP!PruneByTime, Buf!Without, RP!Without, Buf!ExpiredIn, RP!ExpiredIn,
    Buf!OrderAfterTime, RP!OrderAfterTime, Buf!CountAfterTime, RP!CountAfterTime,
    Buf!SpansOf, RP!SpansOf, Buf!Clamp, RP!Clamp, Buf!Filter, RP!Filter,
    Buf!Members, RP!Members, Buf!Stale, RP!Stale, Buf!Cardinality, RP!Cardinality

\* So is the clock.
LEMMA SameAdvance == Buf!Advance <=> RP!Advance
BY Zenon DEF Buf!Advance, RP!Advance, Buf!Older, RP!Older

\* What RingProof assumes of the constants.
LEMMA RingConstants ==
    /\ RP!MaxSpansAssumption /\ RP!WindowAssumption /\ RP!SpansAssumption
BY RingAssumption, SameFinite DEF RP!MaxSpansAssumption, RP!WindowAssumption, RP!SpansAssumption

\* Insert of spans that are new to the buffer.
LEMMA InsertEffect ==
    ASSUME RP!Inv, NEW t \in TraceIDs, NEW new \in SUBSET (Spans \ Buf!Buffered), Buf!Insert(t, new)
    PROVE  /\ RP!Inv'
           /\ DOMAIN traces' \subseteq DOMAIN traces \cup {t}
           /\ \A u \in DOMAIN traces' : traces'[u].spans = (IF u = t THEN new ELSE {}) \cup Buf!SpansOf(traces, {u})
<1>1. RP!Inv'
  <2>1. new \in SUBSET (Spans \ RP!Buffered)
    BY DEF Buf!Buffered, RP!Buffered
  <2>2. RP!Insert(t, new)
    BY SameInsert
  <2>3. QED
    BY <2>1, <2>2, RingConstants, RP!InsertKeepsInv
<1>2. PICK tr1, gone, late :
           /\ tr1 = [u \in DOMAIN traces \cup {t} |->
                        IF u = t THEN [spans |-> Buf!Appended(IF t \in DOMAIN traces THEN traces[t].spans ELSE {}, new),
                                       age |-> 0]
                                 ELSE traces[u]]
           /\ traces' = Buf!Without(Buf!Without(tr1, gone), late)
  BY Zenon DEF Buf!Insert
<1>3. \A u \in DOMAIN traces' : u \in DOMAIN traces \cup {t} /\ traces'[u] = tr1[u]
  BY <1>2 DEF Buf!Without
<1>4. \A u \in DOMAIN traces \cup {t} :
        tr1[u].spans = (IF u = t THEN new ELSE {}) \cup Buf!SpansOf(traces, {u})
  <2>1. SUFFICES ASSUME NEW u \in DOMAIN traces \cup {t}
                 PROVE  tr1[u].spans = (IF u = t THEN new ELSE {}) \cup Buf!SpansOf(traces, {u})
    OBVIOUS
  <2>2. CASE u = t
    <3>1. tr1[u] = [spans |-> Buf!Appended(IF t \in DOMAIN traces THEN traces[t].spans ELSE {}, new), age |-> 0]
      BY <1>2, <2>2
    <3>2. tr1[u].spans = Buf!Appended(IF t \in DOMAIN traces THEN traces[t].spans ELSE {}, new)
      BY <3>1
    <3>3. QED
      BY <2>2, <3>2 DEF Buf!Appended, Buf!SpansOf
  <2>3. CASE u # t
    <3>1. u \in DOMAIN traces /\ tr1[u] = traces[u]
      BY <1>2, <2>3
    <3>2. QED
      BY <2>3, <3>1 DEF Buf!SpansOf
  <2>4. QED
    BY <2>2, <2>3
<1>5. QED
  BY <1>1, <1>3, <1>4

\* Drain of a buffered trace.
LEMMA DrainEffect ==
    ASSUME RP!Inv, NEW t \in TraceIDs, Buf!Drain(t)
    PROVE  /\ RP!Inv'
           /\ DOMAIN traces' = DOMAIN traces \ {t}
           /\ \A u \in DOMAIN traces' : traces'[u] = traces[u]
<1>1. RP!Inv'
  BY SameDrain, RingConstants, RP!DrainKeepsInv
<1>2. QED
  BY <1>1 DEF Buf!Drain, Buf!Without

\* PruneByTime.
LEMMA PruneEffect ==
    ASSUME RP!Inv, Buf!PruneByTime
    PROVE  /\ RP!Inv'
           /\ DOMAIN traces' \subseteq DOMAIN traces
           /\ \A u \in DOMAIN traces' : traces'[u] = traces[u]
<1>1. RP!Inv'
  BY SamePrune, RingConstants, RP!PruneKeepsInv
<1>2. QED
  BY <1>1 DEF Buf!PruneByTime, Buf!Without

\* The clock.
LEMMA AdvanceEffect ==
    ASSUME RP!Inv, Buf!Advance
    PROVE  /\ RP!Inv'
           /\ DOMAIN traces' = DOMAIN traces
           /\ \A u \in DOMAIN traces : traces'[u].spans = traces[u].spans
<1>1. RP!Inv'
  BY SameAdvance, RingConstants, RP!AdvanceKeepsInv
<1>2. RP!Entries(traces)
  BY DEF RP!Inv, RP!RingOK
<1>3. QED
  BY <1>1, <1>2, SameAdvance, RingConstants, RP!AdvanceSpans

\* A step that leaves the buffer alone.
LEMMA RingUnchanged ==
    ASSUME RP!Inv, UNCHANGED ring
    PROVE  RP!Inv' /\ Buf!Buffered' = Buf!Buffered /\ traces' = traces
BY DEF ring, RP!Inv, RP!RingOK, RP!Entries, RP!Apart, RP!Lists, RP!Listing, RP!All, Buf!Buffered, RP!Members

-----------------------------------------------------------------------------
(***************************************************************************)
(* The circuit breaker.                                                    *)
(***************************************************************************)

\* The tier of a count.
LEMMA TierType == \A n \in Nat : tierFromCount(n) \in Tiers
<1>1. Tiers = {0, 1, 2, 3} /\ tierNone = 0 /\ tierWarn = 1 /\ tierTruncate = 2 /\ tierBreaker = 3
  BY DEF Tiers, tierNone, tierWarn, tierTruncate, tierBreaker
<1>2. SUFFICES ASSUME NEW n \in Nat PROVE tierFromCount(n) \in {tierNone, tierWarn, tierTruncate, tierBreaker}
  BY <1>1
<1>3. QED
  BY Zenon DEF tierFromCount

\* observe keeps the counters within their types.
LEMMA ObserveType ==
    ASSUME per \in [TraceIDs -> CounterEntry], NEW t \in TraceIDs, observe(t)
    PROVE  per' \in [TraceIDs -> CounterEntry]
<1>1. PICK e : e = per[t]
  OBVIOUS
<1>2. e.count \in 0..Hard /\ e.highestTier \in Tiers
  BY <1>1 DEF CounterEntry
<1>3. Counted(e.count) \in 0..Hard
  BY <1>2, ThresholdsAssumption DEF Counted
<1>4. PICK tier \in Tiers : tier = tierFromCount(Counted(e.count))
  BY <1>3, TierType, ThresholdsAssumption
<1>5. PICK f : f = [count |-> Counted(e.count), age |-> 0,
                    highestTier |-> IF tier > e.highestTier THEN tier ELSE e.highestTier]
  OBVIOUS
<1>6. f \in CounterEntry
  <2>1. 0 \in 0..(TTL + 1)
    BY TTLAssumption
  <2>2. QED
    BY <1>2, <1>3, <1>4, <1>5, <2>1 DEF CounterEntry
<1>7. per' = [per EXCEPT ![t] = f]
  BY <1>1, <1>4, <1>5, Zenon DEF observe
<1>8. QED
  BY <1>6, <1>7

\* So do pruneStale ...
LEMMA PruneType ==
    ASSUME per \in [TraceIDs -> CounterEntry], pruneStale
    PROVE  per' \in [TraceIDs -> CounterEntry]
<1>1. NoEntry \in CounterEntry
  <2>1. 0 \in 0..Hard /\ 0 \in 0..(TTL + 1) /\ tierNone \in Tiers
    BY ThresholdsAssumption, TTLAssumption DEF Tiers, tierNone, tierBreaker
  <2>2. QED
    BY <2>1 DEF NoEntry, CounterEntry
<1>2. QED
  BY <1>1 DEF pruneStale

\* ... and the clock.
LEMMA AgeType ==
    ASSUME per \in [TraceIDs -> CounterEntry], BreakerAge
    PROVE  per' \in [TraceIDs -> CounterEntry]
<1>1. \A e \in CounterEntry : EntryOlder(e) \in CounterEntry
  <2>1. SUFFICES ASSUME NEW e \in CounterEntry PROVE EntryOlder(e) \in CounterEntry
    OBVIOUS
  <2>2. e.count \in 0..Hard /\ e.age \in 0..(TTL + 1) /\ e.highestTier \in Tiers
    BY DEF CounterEntry
  <2>3. (IF e.count = 0 \/ e.age > TTL THEN e.age ELSE e.age + 1) \in 0..(TTL + 1)
    BY <2>2, TTLAssumption
  <2>4. QED
    BY <2>2, <2>3 DEF EntryOlder, CounterEntry
<1>2. QED
  BY <1>1 DEF BreakerAge

-----------------------------------------------------------------------------
(***************************************************************************)
(* The walk.                                                               *)
(***************************************************************************)

\* What a batch is.
LEMMA BatchFacts ==
    ASSUME NEW some \in SUBSET Spans, NEW rss \in BatchesOf(some)
    PROVE  /\ rss \in Seq(SUBSET Spans) /\ rss # << >> /\ 1 \in DOMAIN rss
           /\ \A i \in DOMAIN rss : rss[i] \subseteq some
           /\ \A i, j \in DOMAIN rss : i # j => rss[i] \cap rss[j] = {}
<1>1. PICK n \in 1..MaxResources :
           /\ rss \in [1..n -> (SUBSET some) \ {{}}]
           /\ \A i, j \in 1..n : i # j => rss[i] \cap rss[j] = {}
  BY DEF BatchesOf
<1>2. n \in Nat /\ 1 \in 1..n
  BY BoundsAssumption
<1>3. DOMAIN rss = 1..n /\ \A i \in 1..n : rss[i] \in SUBSET some /\ rss[i] \in SUBSET Spans
  BY <1>1
<1>4. rss \in [1..n -> SUBSET Spans]
  BY <1>1, <1>3
<1>5. rss \in Seq(SUBSET Spans)
  BY <1>2, <1>4
<1>6. QED
  BY <1>1, <1>2, <1>3, <1>5

\* A call gets its batch.
LEMMA BeginKeepsInv ==
    ASSUME Inv, NEW c \in Consumers, NEW rss \in BatchesOf(Spans \ arrived), Begin(c, rss)
    PROVE  Inv'
<1>1. /\ rss \in Seq(SUBSET Spans) /\ rss # << >> /\ 1 \in DOMAIN rss
      /\ \A i \in DOMAIN rss : rss[i] \subseteq Spans \ arrived
      /\ \A i, j \in DOMAIN rss : i # j => rss[i] \cap rss[j] = {}
  BY BatchFacts
<1>2. PICK all : all = UNION {rss[i] : i \in DOMAIN rss}
  OBVIOUS
<1>3. all \subseteq Spans \ arrived /\ \A i \in DOMAIN rss : rss[i] \subseteq all
  BY <1>1, <1>2
<1>4. /\ pc[c] = "idle"
      /\ pc' = [pc EXCEPT ![c] = "insert"]
      /\ rest' = [rest EXCEPT ![c] = rss]
      /\ toInsert' = [toInsert EXCEPT ![c] = TracesIn(rss[1])]
      /\ own' = [own EXCEPT ![c] = all]
      /\ arrived' = arrived \cup all
  BY <1>2 DEF Begin
<1>5. UNCHANGED <<per, ring, toEval, current, seenSpans, flushTargets, hand, lastForwardErr, pruner, clock,
                  triggered, sendFailed, inserted, sent, queued, evicted>>
  BY DEF Begin
<1>6. RP!Inv' /\ Buf!Buffered' = Buf!Buffered /\ traces' = traces
  BY <1>5, RingUnchanged DEF Inv
<1>7. Types'
  <2>1. TracesIn(rss[1]) \in SUBSET TraceIDs
    BY <1>1, SpanAssumption DEF TracesIn
  <2>2. all \in SUBSET Spans /\ "insert" \in PCs
    BY <1>3 DEF PCs
  <2>3. QED
    BY <1>1, <1>4, <1>5, <2>1, <2>2 DEF Inv, Types
<1>8. Walk'
  BY <1>1, <1>4, <1>5 DEF Inv, Types, Walk, Walking, TracesIn
<1>9. Batches'
  BY <1>1, <1>3, <1>4, <1>5 DEF Inv, Types, Batches
<1>10. NotYet'
  BY <1>1, <1>4, <1>5 DEF Inv, Types, Batches, NotYet
<1>11. Grouped' /\ Errors'
  BY <1>5, <1>6 DEF Inv, Grouped, Errors
<1>12. ToFlush'
  BY <1>4, <1>5, <1>6 DEF Inv, Types, ToFlush, Walking
<1>13. Placed'
  BY <1>5, <1>6 DEF Inv, Placed, Parts, Held
<1>14. QED
  BY <1>6, <1>7, <1>8, <1>9, <1>10, <1>11, <1>12, <1>13 DEF Inv

\* What InsertTrace inserts is not empty, of one trace, and new.
LEMMA InsertsNew ==
    ASSUME Inv, NEW c \in Consumers, NEW t \in TraceIDs, NEW new, new = InTrace(rest[c][1], t),
           pc[c] = "insert", t \in toInsert[c]
    PROVE  /\ 1 \in DOMAIN rest[c] /\ rest[c][1] \in SUBSET Spans
           /\ new # {} /\ new \in SUBSET (Spans \ Buf!Buffered) /\ new \cap inserted = {}
           /\ new \subseteq own[c]
           /\ \A s \in new : s \in Spans /\ TraceOf[s] = t
<1>1. rest[c] \in Seq(SUBSET Spans) /\ rest[c] # << >>
  BY DEF Inv, Types, Walk, Walking
<1>2. 1 \in DOMAIN rest[c] /\ rest[c][1] \in SUBSET Spans
  BY <1>1
<1>3. new \subseteq rest[c][1] /\ \A s \in new : TraceOf[s] = t
  BY DEF InTrace
<1>4. new # {}
  <2>1. t \in TracesIn(rest[c][1])
    BY DEF Inv, Walk
  <2>2. QED
    BY <2>1 DEF TracesIn, InTrace
<1>5. new \cap inserted = {}
  BY <1>2, <1>3 DEF Inv, NotYet
<1>6. Buf!Buffered \subseteq inserted
  BY DEF Inv, Placed, Parts
<1>7. new \subseteq own[c]
  BY <1>2, <1>3 DEF Inv, Batches
<1>8. QED
  BY <1>2, <1>3, <1>4, <1>5, <1>6, <1>7

\* A call inserts its spans of one trace.
LEMMA InsertTraceKeepsInv ==
    ASSUME Inv, NEW c \in Consumers, NEW t \in TraceIDs, InsertTrace(c, t)
    PROVE  Inv'
<1>1. PICK new : new = InTrace(rest[c][1], t)
  OBVIOUS
<1>2. /\ pc[c] = "insert" /\ t \in toInsert[c]
      /\ Buf!Insert(t, new)
      /\ toInsert' = [toInsert EXCEPT ![c] = @ \ {t}]
      /\ pc' = [pc EXCEPT ![c] = IF toInsert[c] = {t} THEN "evaluate" ELSE "insert"]
      /\ toEval' = [toEval EXCEPT ![c] = IF toInsert[c] = {t} THEN rest[c][1] ELSE {}]
      /\ inserted' = inserted \cup new
      /\ evicted' = evicted \cup ((Buf!Buffered \cup new) \ Buf!Buffered')
  BY <1>1 DEF InsertTrace
<1>3. UNCHANGED <<per, rest, current, seenSpans, flushTargets, hand, lastForwardErr, pruner, clock, own,
                  triggered, sendFailed, arrived, sent, queued>>
  BY DEF InsertTrace
<1>4. /\ 1 \in DOMAIN rest[c] /\ rest[c][1] \in SUBSET Spans
      /\ new # {} /\ new \in SUBSET (Spans \ Buf!Buffered) /\ new \cap inserted = {}
      /\ new \subseteq own[c]
      /\ \A s \in new : s \in Spans /\ TraceOf[s] = t
  BY <1>1, <1>2, InsertsNew
<1>5. RP!Inv'
  BY <1>2, <1>4, InsertEffect DEF Inv
<1>6. /\ DOMAIN traces' \subseteq DOMAIN traces \cup {t}
      /\ \A u \in DOMAIN traces' : traces'[u].spans = (IF u = t THEN new ELSE {}) \cup Buf!SpansOf(traces, {u})
  BY <1>2, <1>4, InsertEffect DEF Inv
<1>7. Grouped'
  BY <1>4, <1>6 DEF Inv, Grouped, Buf!SpansOf
<1>8. Buf!Buffered' \subseteq Buf!Buffered \cup new
  <2>1. SUFFICES ASSUME NEW s \in Buf!Buffered' PROVE s \in Buf!Buffered \cup new
    OBVIOUS
  <2>2. PICK u \in DOMAIN traces' : s \in traces'[u].spans
    BY DEF Buf!Buffered
  <2>3. s \in new \/ s \in Buf!SpansOf(traces, {u})
    BY <1>6, <2>2
  <2>4. QED
    BY <2>3 DEF Buf!SpansOf, Buf!Buffered
<1>9. Types'
  BY <1>2, <1>3, <1>4 DEF Inv, Types, PCs
<1>10. Walk'
  BY <1>2, <1>3 DEF Inv, Types, Walk, Walking
<1>11. Batches'
  BY <1>2, <1>3, <1>4 DEF Inv, Types, Batches
<1>12. NotYet'
  <2>1. SUFFICES ASSUME NEW d \in Consumers, NEW i \in DOMAIN rest[d], NEW s \in rest[d][i],
                        i # 1 \/ (pc'[d] = "insert" /\ TraceOf[s] \in toInsert'[d])
                 PROVE  s \notin inserted \cup new
    BY <1>2, <1>3 DEF NotYet
  <2>2. s \notin inserted
    BY <1>2, <2>1 DEF Inv, Types, NotYet
  <2>3. CASE d # c
    <3>1. s \in own[d] /\ own[c] \cap own[d] = {}
      BY <2>3 DEF Inv, Batches
    <3>2. QED
      BY <1>4, <2>2, <3>1
  <2>4. CASE d = c /\ i # 1
    <3>1. rest[c][1] \cap rest[c][i] = {}
      BY <1>4, <2>4 DEF Inv, Batches
    <3>2. QED
      BY <1>1, <2>2, <2>4, <3>1 DEF InTrace
  <2>5. CASE d = c /\ i = 1
    <3>1. TraceOf[s] # t
      BY <1>2, <2>1, <2>5 DEF Inv, Types
    <3>2. QED
      BY <1>4, <2>2, <3>1
  <2>6. QED
    BY <2>3, <2>4, <2>5
<1>13. ToFlush'
  <2>1. pc[c] \in Walking /\ pc'[c] \in Walking \cup {"idle"}
    BY <1>2 DEF Inv, Types, Walking
  <2>2. \A d \in Consumers : pc'[d] \in Walking \cup {"idle"} => triggered'[d] = flushTargets'[d]
    BY <1>2, <1>3, <2>1 DEF Inv, Types, ToFlush
  <2>3. ASSUME NEW d \in Consumers, NEW s \in own[d], s \in Buf!Buffered', TraceOf[s] \in triggered[d]
        PROVE  TraceOf[s] \in flushTargets[d]
    <3>1. CASE d = c
      BY <2>1, <2>3, <3>1 DEF Inv, ToFlush
    <3>2. CASE d # c
      <4>1. s \in Buf!Buffered
        BY <1>4, <1>8, <2>3, <3>2 DEF Inv, Batches
      <4>2. QED
        BY <2>3, <4>1 DEF Inv, ToFlush
    <3>3. QED
      BY <3>1, <3>2
  <2>4. QED
    BY <1>3, <2>2, <2>3 DEF ToFlush
<1>14. Placed'
  <2>1. Parts(inserted, Buf!Buffered, Held, sent, queued, evicted)
    BY DEF Inv, Placed
  <2>2. Held' = Held
    BY <1>3 DEF Held
  <2>3. Parts(inserted', Buf!Buffered', Held', sent', queued', evicted')
    BY <1>2, <1>3, <1>4, <1>8, <2>1, <2>2 DEF Parts
  <2>4. QED
    BY <1>3, <2>3 DEF Inv, Placed, Parts
<1>15. Errors'
  BY <1>3 DEF Inv, Errors
<1>16. QED
  BY <1>5, <1>7, <1>9, <1>10, <1>11, <1>12, <1>13, <1>14, <1>15 DEF Inv

\* A span whose ID the call has evaluated is skipped.
LEMMA SkipDuplicateKeepsInv ==
    ASSUME Inv, NEW c \in Consumers, NEW s \in Spans, SkipDuplicate(c, s)
    PROVE  Inv'
<1>1. /\ toEval' = [toEval EXCEPT ![c] = @ \ {s}]
      /\ UNCHANGED <<per, ring, pc, rest, toInsert, current, seenSpans, flushTargets, hand, lastForwardErr,
                     pruner, clock, ghost>>
  BY DEF SkipDuplicate
<1>2. RP!Inv' /\ Buf!Buffered' = Buf!Buffered /\ traces' = traces
  BY <1>1, RingUnchanged DEF Inv
<1>3. Types'
  BY <1>1 DEF Inv, Types, ghost
<1>4. Walk' /\ Batches' /\ NotYet' /\ Errors'
  BY <1>1 DEF Inv, Walk, Batches, NotYet, Errors, ghost
<1>5. Grouped' /\ ToFlush' /\ Placed'
  BY <1>1, <1>2 DEF Inv, Grouped, ToFlush, Placed, Parts, Held, ghost
<1>6. QED
  BY <1>2, <1>3, <1>4, <1>5 DEF Inv

\* A span is counted.
LEMMA ObserveSpanKeepsInv ==
    ASSUME Inv, NEW c \in Consumers, NEW s \in Spans, ObserveSpan(c, s)
    PROVE  Inv'
<1>1. /\ pc[c] = "evaluate" /\ observe(TraceOf[s])
      /\ pc' = [pc EXCEPT ![c] = "decide"]
      /\ current' = [current EXCEPT ![c] = s]
      /\ toEval' = [toEval EXCEPT ![c] = @ \ {s}]
      /\ UNCHANGED <<ring, rest, toInsert, flushTargets, hand, lastForwardErr, pruner, clock, ghost>>
  BY DEF ObserveSpan
<1>2. RP!Inv' /\ Buf!Buffered' = Buf!Buffered /\ traces' = traces
  BY <1>1, RingUnchanged DEF Inv
<1>3. per' \in [TraceIDs -> CounterEntry]
  BY <1>1, SpanAssumption, ObserveType DEF Inv, Types
<1>4. Types'
  BY <1>1, <1>3 DEF Inv, Types, PCs, ghost
<1>5. Walk' /\ NotYet'
  BY <1>1 DEF Inv, Types, Walk, Walking, NotYet, ghost
<1>6. Batches' /\ Errors'
  BY <1>1 DEF Inv, Batches, Errors, ghost
<1>7. Grouped' /\ Placed'
  BY <1>1, <1>2 DEF Inv, Grouped, Placed, Parts, Held, ghost
<1>8. ToFlush'
  BY <1>1, <1>2 DEF Inv, Types, ToFlush, Walking, ghost
<1>9. QED
  BY <1>2, <1>4, <1>5, <1>6, <1>7, <1>8 DEF Inv

\* The triggers are asked.
LEMMA DecideSpanKeepsInv ==
    ASSUME Inv, NEW c \in Consumers, NEW fired, DecideSpan(c, fired)
    PROVE  Inv'
<1>1. PICK more : more = IF fired THEN {TraceOf[current[c]]} ELSE {}
  OBVIOUS
<1>2. /\ pc[c] = "decide"
      /\ pc' = [pc EXCEPT ![c] = "evaluate"]
      /\ current' = [current EXCEPT ![c] = NoSpan]
      /\ flushTargets' = [flushTargets EXCEPT ![c] = @ \cup more]
      /\ triggered' = [triggered EXCEPT ![c] = @ \cup more]
      /\ UNCHANGED <<per, ring, rest, toInsert, toEval, seenSpans, hand, lastForwardErr, pruner, clock, own,
                     sendFailed, arrived, inserted, sent, queued, evicted>>
  BY <1>1 DEF DecideSpan
<1>3. RP!Inv' /\ Buf!Buffered' = Buf!Buffered /\ traces' = traces
  BY <1>2, RingUnchanged DEF Inv
<1>4. more \subseteq TraceIDs
  BY <1>1, <1>2, SpanAssumption DEF Inv, Walk
<1>5. Types'
  BY <1>2, <1>4 DEF Inv, Types, PCs
<1>6. Walk' /\ NotYet'
  BY <1>2 DEF Inv, Types, Walk, Walking, NotYet
<1>7. Batches' /\ Errors'
  BY <1>2 DEF Inv, Batches, Errors
<1>8. Grouped' /\ Placed'
  BY <1>2, <1>3 DEF Inv, Grouped, Placed, Parts, Held
<1>9. ToFlush'
  BY <1>2, <1>3 DEF Inv, Types, ToFlush, Walking
<1>10. QED
  BY <1>3, <1>5, <1>6, <1>7, <1>8, <1>9 DEF Inv

\* The ResourceSpans that are left after the first one.
LEMMA TailFacts ==
    ASSUME NEW T, NEW r \in Seq(T), r # << >>
    PROVE  /\ Tail(r) \in Seq(T) /\ (Tail(r) # << >> <=> Len(r) > 1)
           /\ \A i \in DOMAIN Tail(r) : i \in Nat /\ i + 1 \in DOMAIN r /\ i + 1 # 1 /\ Tail(r)[i] = r[i + 1]
           /\ Len(r) > 1 => 1 \in DOMAIN Tail(r) /\ Tail(r)[1] = r[2]
<1>1. Len(r) \in Nat /\ Len(r) # 0
  OBVIOUS
<1>2. Tail(r) \in Seq(T) /\ Len(Tail(r)) = Len(r) - 1 /\ DOMAIN Tail(r) = 1..(Len(r) - 1)
  BY <1>1
<1>3. \A i \in 1..(Len(r) - 1) : Tail(r)[i] = r[i + 1]
  BY <1>1
<1>4. QED
  BY <1>1, <1>2, <1>3

\* On to the next ResourceSpans, or to the flush.
LEMMA NextResourceKeepsInv ==
    ASSUME Inv, NEW c \in Consumers, NextResource(c)
    PROVE  Inv'
<1>1. /\ pc[c] = "evaluate"
      /\ rest' = [rest EXCEPT ![c] = Tail(@)]
      /\ UNCHANGED <<per, ring, toEval, current, seenSpans, flushTargets, hand, lastForwardErr, pruner, clock, ghost>>
  BY DEF NextResource
<1>2. PICK r \in Seq(SUBSET Spans) : r = rest[c] /\ r # << >>
  BY <1>1 DEF Inv, Types, Walk, Walking
<1>3. PICK q \in Seq(SUBSET Spans) :
           /\ q = Tail(r) /\ (q # << >> <=> Len(r) > 1)
           /\ \A i \in DOMAIN q : i \in Nat /\ i + 1 \in DOMAIN r /\ i + 1 # 1 /\ q[i] = r[i + 1]
           /\ Len(r) > 1 => 1 \in DOMAIN q /\ q[1] = r[2]
  <2>1. Tail(r) \in Seq(SUBSET Spans) /\ (Tail(r) # << >> <=> Len(r) > 1)
    BY <1>2, TailFacts
  <2>2. \A i \in DOMAIN Tail(r) : i \in Nat /\ i + 1 \in DOMAIN r /\ i + 1 # 1 /\ Tail(r)[i] = r[i + 1]
    BY <1>2, TailFacts
  <2>3. Len(r) > 1 => 1 \in DOMAIN Tail(r) /\ Tail(r)[1] = r[2]
    BY <1>2, TailFacts
  <2>4. QED
    BY <2>1, <2>2, <2>3, Zenon
<1>4. rest'[c] = q /\ \A d \in Consumers : d # c => rest'[d] = rest[d]
  BY <1>1, <1>2, <1>3 DEF Inv, Types
<1>5. PICK p \in {"insert", "flush"}, ti \in SUBSET TraceIDs :
           /\ pc' = [pc EXCEPT ![c] = p] /\ toInsert' = [toInsert EXCEPT ![c] = ti]
           /\ p = "insert" <=> Len(r) > 1
           /\ p = "insert" => ti = TracesIn(q[1])
  <2>1. CASE Len(r) > 1
    <3>1. pc' = [pc EXCEPT ![c] = "insert"] /\ toInsert' = [toInsert EXCEPT ![c] = TracesIn(q[1])]
      BY <1>2, <1>3, <2>1 DEF NextResource
    <3>2. TracesIn(q[1]) \in SUBSET TraceIDs
      BY <1>3, <2>1, SpanAssumption DEF TracesIn
    <3>3. QED
      BY <2>1, <3>1, <3>2
  <2>2. CASE ~(Len(r) > 1)
    <3>1. pc' = [pc EXCEPT ![c] = "flush"] /\ toInsert' = toInsert
      BY <1>2, <2>2 DEF NextResource
    <3>2. toInsert' = [toInsert EXCEPT ![c] = toInsert[c]] /\ toInsert[c] \in SUBSET TraceIDs
      BY <3>1 DEF Inv, Types
    <3>3. QED
      BY <2>2, <3>1, <3>2
  <2>3. QED
    BY <2>1, <2>2
<1>6. RP!Inv' /\ Buf!Buffered' = Buf!Buffered /\ traces' = traces
  BY <1>1, RingUnchanged DEF Inv
<1>7. Types'
  <2>1. p \in PCs
    BY DEF PCs
  <2>2. QED
    BY <1>1, <1>2, <1>3, <1>5, <2>1 DEF Inv, Types, ghost
<1>8. Walk'
  BY <1>1, <1>3, <1>4, <1>5 DEF Inv, Types, Walk, Walking, TracesIn
<1>9. Batches'
  <2>1. ASSUME NEW i \in DOMAIN q
        PROVE  q[i] \subseteq own[c] /\ \A j \in DOMAIN q : i # j => q[i] \cap q[j] = {}
    <3>1. q[i] \subseteq own[c]
      BY <1>2, <1>3 DEF Inv, Batches
    <3>2. ASSUME NEW j \in DOMAIN q, i # j PROVE q[i] \cap q[j] = {}
      <4>1. i + 1 \in DOMAIN r /\ j + 1 \in DOMAIN r /\ i + 1 # j + 1
        BY <1>3, <3>2
      <4>2. r[i + 1] \cap r[j + 1] = {}
        BY <1>2, <4>1 DEF Inv, Batches
      <4>3. QED
        BY <1>3, <4>2
    <3>3. QED
      BY <3>1, <3>2
  <2>2. ASSUME NEW d \in Consumers, NEW i \in DOMAIN rest'[d]
        PROVE  /\ rest'[d][i] \subseteq own[d]
               /\ \A j \in DOMAIN rest'[d] : i # j => rest'[d][i] \cap rest'[d][j] = {}
    BY <1>4, <2>1 DEF Inv, Batches
  <2>3. QED
    BY <1>1, <2>2 DEF Inv, Batches, ghost
<1>10. NotYet'
  <2>1. ASSUME NEW d \in Consumers, NEW i \in DOMAIN rest'[d], NEW s \in rest'[d][i],
               i # 1 \/ (pc'[d] = "insert" /\ TraceOf[s] \in toInsert'[d])
        PROVE  s \notin inserted
    <3>1. CASE d = c
      <4>1. i + 1 \in DOMAIN rest[c] /\ i + 1 # 1 /\ s \in rest[c][i + 1]
        BY <1>2, <1>3, <1>4, <3>1
      <4>2. QED
        BY <4>1 DEF Inv, NotYet
    <3>2. CASE d # c
      BY <1>4, <1>5, <2>1, <3>2 DEF Inv, Types, NotYet
    <3>3. QED
      BY <3>1, <3>2
  <2>2. QED
    BY <1>1, <2>1 DEF NotYet, ghost
<1>11. Grouped' /\ Placed' /\ Errors'
  BY <1>1, <1>6 DEF Inv, Grouped, Placed, Parts, Held, Errors, ghost
<1>12. ToFlush'
  BY <1>1, <1>5, <1>6 DEF Inv, Types, ToFlush, Walking, ghost
<1>13. QED
  BY <1>6, <1>7, <1>8, <1>9, <1>10, <1>11, <1>12 DEF Inv

-----------------------------------------------------------------------------
(***************************************************************************)
(* The flush.                                                              *)
(***************************************************************************)

\* A drain takes all that is buffered of the trace, and nothing else.
LEMMA DrainTakes ==
    ASSUME RP!Inv, Grouped, NEW t \in TraceIDs, NEW taken, taken = Buf!SpansOf(traces, {t}),
           Buf!Drain(t) \/ (t \notin DOMAIN traces /\ UNCHANGED ring)
    PROVE  /\ RP!Inv' /\ Grouped'
           /\ taken \subseteq Buf!Buffered /\ taken \subseteq Spans /\ Buf!Buffered' = Buf!Buffered \ taken
           /\ \A s \in Buf!Buffered : TraceOf[s] = t => s \in taken
           /\ taken # {} <=> t \in DOMAIN traces
<1>1. taken \subseteq Buf!Buffered /\ taken \subseteq Spans
  BY DEF Buf!SpansOf, Buf!Buffered, Grouped
<1>2. \A s \in Buf!Buffered : TraceOf[s] = t => s \in taken
  BY DEF Buf!SpansOf, Buf!Buffered, Grouped
<1>3. taken # {} <=> t \in DOMAIN traces
  BY DEF Buf!SpansOf, Grouped
<1>4. CASE Buf!Drain(t)
  <2>1. RP!Inv' /\ DOMAIN traces' = DOMAIN traces \ {t} /\ \A u \in DOMAIN traces' : traces'[u] = traces[u]
    BY <1>4, DrainEffect
  <2>2. Grouped'
    BY <2>1 DEF Grouped
  <2>3. Buf!Buffered' = Buf!Buffered \ taken
    <3>1. ASSUME NEW s \in Buf!Buffered' PROVE s \in Buf!Buffered \ taken
      <4>1. PICK u \in DOMAIN traces' : s \in traces'[u].spans
        BY DEF Buf!Buffered
      <4>2. u \in DOMAIN traces /\ u # t /\ s \in traces[u].spans
        BY <2>1, <4>1
      <4>3. s \in Buf!Buffered /\ TraceOf[s] = u
        BY <4>2 DEF Buf!Buffered, Grouped
      <4>4. s \notin taken
        BY <4>2, <4>3 DEF Buf!SpansOf, Grouped
      <4>5. QED
        BY <4>3, <4>4
    <3>2. ASSUME NEW s \in Buf!Buffered \ taken PROVE s \in Buf!Buffered'
      <4>1. PICK u \in DOMAIN traces : s \in traces[u].spans
        BY DEF Buf!Buffered
      <4>2. u # t
        BY <4>1 DEF Buf!SpansOf
      <4>3. u \in DOMAIN traces' /\ s \in traces'[u].spans
        BY <2>1, <4>1, <4>2
      <4>4. QED
        BY <4>3 DEF Buf!Buffered
    <3>3. QED
      BY <3>1, <3>2
  <2>4. QED
    BY <1>1, <1>2, <1>3, <2>1, <2>2, <2>3
<1>5. CASE t \notin DOMAIN traces /\ UNCHANGED ring
  <2>1. RP!Inv' /\ Buf!Buffered' = Buf!Buffered /\ traces' = traces
    BY <1>5, RingUnchanged
  <2>2. taken = {}
    BY <1>3, <1>5
  <2>3. Grouped'
    BY <2>1 DEF Grouped
  <2>4. QED
    BY <1>1, <1>2, <1>3, <2>1, <2>2, <2>3
<1>6. QED
  BY <1>4, <1>5

\* The spans in the hands of the calls when one of them fills or empties its own.
LEMMA HeldAfter ==
    ASSUME Inv, NEW c \in Consumers, NEW some \in SUBSET Spans, hand' = [hand EXCEPT ![c] = some]
    PROVE  /\ hand'[c] = some /\ \A d \in Consumers : d # c => hand'[d] = hand[d]
           /\ Held' = (Held \ hand[c]) \cup some
           /\ hand[c] \subseteq Held
<1>1. hand'[c] = some /\ \A d \in Consumers : d # c => hand'[d] = hand[d]
  BY DEF Inv, Types
<1>2. hand[c] \subseteq Held
  BY DEF Held
<1>3. ASSUME NEW s \in Held' PROVE s \in (Held \ hand[c]) \cup some
  <2>1. PICK d \in Consumers : s \in hand'[d]
    BY DEF Held
  <2>2. QED
    BY <1>1, <2>1 DEF Held, Inv, Placed
<1>4. ASSUME NEW s \in (Held \ hand[c]) \cup some PROVE s \in Held'
  <2>1. CASE s \in some
    BY <1>1, <2>1 DEF Held
  <2>2. CASE s \notin some
    <3>1. PICK d \in Consumers : s \in hand[d] /\ d # c
      BY <2>2 DEF Held
    <3>2. s \in hand'[d]
      BY <1>1, <3>1
    <3>3. QED
      BY <3>2 DEF Held
  <2>3. QED
    BY <2>1, <2>2
<1>5. QED
  BY <1>1, <1>2, <1>3, <1>4

\* A call drains a trace that fired.
LEMMA DrainTraceKeepsInv ==
    ASSUME Inv, NEW c \in Consumers, NEW t \in TraceIDs, DrainTrace(c, t)
    PROVE  Inv'
<1>1. PICK taken : taken = Buf!SpansOf(traces, {t})
  OBVIOUS
<1>2. /\ pc[c] = "flush" /\ t \in flushTargets[c]
      /\ flushTargets' = [flushTargets EXCEPT ![c] = @ \ {t}]
      /\ hand' = [hand EXCEPT ![c] = taken]
      /\ pc' = [pc EXCEPT ![c] = IF t \notin DOMAIN traces THEN "flush" ELSE "send"]
      /\ Buf!Drain(t) \/ (t \notin DOMAIN traces /\ UNCHANGED ring)
  BY <1>1 DEF DrainTrace, NothingDrained
<1>3. UNCHANGED <<per, walk, lastForwardErr, pruner, clock, ghost>>
  BY DEF DrainTrace
<1>4. UNCHANGED <<per, rest, toInsert, toEval, current, seenSpans, lastForwardErr, pruner, clock, own, triggered,
                  sendFailed, arrived, inserted, sent, queued, evicted>>
  BY <1>3 DEF walk, ghost
<1>5. /\ RP!Inv' /\ Grouped'
      /\ taken \subseteq Buf!Buffered /\ taken \subseteq Spans /\ Buf!Buffered' = Buf!Buffered \ taken
      /\ \A s \in Buf!Buffered : TraceOf[s] = t => s \in taken
      /\ taken # {} <=> t \in DOMAIN traces
  BY <1>1, <1>2, DrainTakes DEF Inv
<1>6. hand[c] = {}
  BY <1>2 DEF Inv, Walk
<1>7. /\ hand'[c] = taken /\ \A d \in Consumers : d # c => hand'[d] = hand[d]
      /\ Held' = Held \cup taken
  <2>1. taken \in SUBSET Spans /\ hand' = [hand EXCEPT ![c] = taken]
    BY <1>2, <1>5
  <2>2. hand'[c] = taken /\ \A d \in Consumers : d # c => hand'[d] = hand[d]
    BY <2>1, HeldAfter
  <2>3. Held' = (Held \ hand[c]) \cup taken
    BY <2>1, HeldAfter
  <2>4. QED
    BY <1>6, <2>2, <2>3
<1>8. Types'
  BY <1>2, <1>4, <1>5 DEF Inv, Types, PCs
<1>9. Walk'
  BY <1>2, <1>4, <1>5, <1>7 DEF Inv, Types, Walk, Walking
<1>10. Batches' /\ Errors'
  BY <1>4 DEF Inv, Batches, Errors
<1>11. NotYet'
  BY <1>2, <1>4 DEF Inv, Types, NotYet
<1>12. ToFlush'
  <2>1. \A d \in Consumers : pc'[d] \in Walking \cup {"idle"} => triggered'[d] = flushTargets'[d]
    BY <1>2, <1>4 DEF Inv, Types, ToFlush, Walking
  <2>2. ASSUME NEW d \in Consumers, NEW s \in own[d], s \in Buf!Buffered', TraceOf[s] \in triggered[d]
        PROVE  TraceOf[s] \in flushTargets'[d]
    <3>1. TraceOf[s] \in flushTargets[d] /\ TraceOf[s] # t
      BY <1>5, <2>2 DEF Inv, ToFlush
    <3>2. QED
      BY <1>2, <3>1 DEF Inv, Types
  <2>3. QED
    BY <1>4, <2>1, <2>2 DEF ToFlush
<1>13. Placed'
  <2>1. Parts(inserted, Buf!Buffered, Held, sent, queued, evicted)
    BY DEF Inv, Placed
  <2>2. Parts(inserted', Buf!Buffered', Held', sent', queued', evicted')
    BY <1>4, <1>5, <1>7, <2>1 DEF Parts
  <2>3. \A d \in Consumers : hand[d] \subseteq Held /\ Held \cap taken = {}
    BY <1>5, <2>1 DEF Held, Parts
  <2>4. \A d, e \in Consumers : d # e => hand'[d] \cap hand'[e] = {}
    BY <1>7, <2>3 DEF Inv, Placed
  <2>5. QED
    BY <2>2, <2>4 DEF Placed, Parts
<1>14. QED
  BY <1>5, <1>8, <1>9, <1>10, <1>11, <1>12, <1>13 DEF Inv

\* The backend acknowledged what the call sent.
LEMMA SendOKKeepsInv ==
    ASSUME Inv, NEW c \in Consumers, SendOK(c)
    PROVE  Inv'
<1>1. /\ pc[c] = "send" /\ pc' = [pc EXCEPT ![c] = "flush"]
      /\ sent' = sent \cup hand[c]
      /\ hand' = [hand EXCEPT ![c] = {}]
      /\ lastForwardErr' = [lastForwardErr EXCEPT ![c] = lastForwardErr[c]]
  BY DEF SendOK, ErrAfterSuccess
<1>2. UNCHANGED <<per, ring, rest, toInsert, toEval, current, seenSpans, flushTargets, pruner, clock, own,
                  triggered, sendFailed, arrived, inserted, queued, evicted>>
  BY DEF SendOK, walk
<1>3. RP!Inv' /\ Buf!Buffered' = Buf!Buffered /\ traces' = traces
  BY <1>2, RingUnchanged DEF Inv
<1>4. hand'[c] = {} /\ \A d \in Consumers : d # c => hand'[d] = hand[d]
  BY <1>1 DEF Inv, Types
<1>5. Held' = Held \ hand[c] /\ hand[c] \subseteq Held
  <2>1. {} \in SUBSET Spans
    OBVIOUS
  <2>2. Held' = (Held \ hand[c]) \cup {} /\ hand[c] \subseteq Held
    BY <1>1, <2>1, HeldAfter
  <2>3. QED
    BY <2>2
<1>6. Types'
  BY <1>1, <1>2 DEF Inv, Types, PCs
<1>7. Walk' /\ NotYet'
  BY <1>1, <1>2, <1>4 DEF Inv, Types, Walk, Walking, NotYet
<1>8. Batches' /\ Errors'
  BY <1>1, <1>2 DEF Inv, Types, Batches, Errors
<1>9. Grouped' /\ ToFlush'
  BY <1>1, <1>2, <1>3 DEF Inv, Types, Grouped, ToFlush, Walking
<1>10. Placed'
  <2>1. Parts(inserted, Buf!Buffered, Held, sent, queued, evicted)
    BY DEF Inv, Placed
  <2>2. Parts(inserted', Buf!Buffered', Held', sent', queued', evicted')
    BY <1>1, <1>2, <1>3, <1>5, <2>1 DEF Parts
  <2>3. \A d, e \in Consumers : d # e => hand'[d] \cap hand'[e] = {}
    BY <1>4 DEF Inv, Placed
  <2>4. QED
    BY <2>2, <2>3 DEF Placed, Parts
<1>11. QED
  BY <1>3, <1>6, <1>7, <1>8, <1>9, <1>10 DEF Inv

\* The forward failed: the call queues what it has, and goes on.
LEMMA SendFailKeepsInv ==
    ASSUME Inv, NEW c \in Consumers, SendFail(c)
    PROVE  Inv'
<1>1. /\ pc[c] = "send" /\ pc' = [pc EXCEPT ![c] = "flush"]
      /\ queued' = queued \cup hand[c]
      /\ hand' = [hand EXCEPT ![c] = {}]
      /\ flushTargets' = [flushTargets EXCEPT ![c] = flushTargets[c]]
      /\ lastForwardErr' = [lastForwardErr EXCEPT ![c] = TRUE]
      /\ sendFailed' = [sendFailed EXCEPT ![c] = TRUE]
  BY DEF SendFail, TargetsAfterFailure, enqueueDLQ
<1>2. UNCHANGED <<per, ring, rest, toInsert, toEval, current, seenSpans, pruner, clock, own, triggered,
                  arrived, inserted, sent, evicted>>
  BY DEF SendFail, walk
<1>3. RP!Inv' /\ Buf!Buffered' = Buf!Buffered /\ traces' = traces
  BY <1>2, RingUnchanged DEF Inv
<1>4. hand'[c] = {} /\ \A d \in Consumers : d # c => hand'[d] = hand[d]
  BY <1>1 DEF Inv, Types
<1>5. Held' = Held \ hand[c] /\ hand[c] \subseteq Held
  <2>1. {} \in SUBSET Spans
    OBVIOUS
  <2>2. Held' = (Held \ hand[c]) \cup {} /\ hand[c] \subseteq Held
    BY <1>1, <2>1, HeldAfter
  <2>3. QED
    BY <2>2
<1>6. Types'
  BY <1>1, <1>2 DEF Inv, Types, PCs
<1>7. Walk' /\ NotYet'
  BY <1>1, <1>2, <1>4 DEF Inv, Types, Walk, Walking, NotYet
<1>8. Batches' /\ Errors'
  <2>1. Batches'
    BY <1>2 DEF Inv, Batches
  <2>2. lastForwardErr'[c] = TRUE /\ sendFailed'[c] = TRUE
    BY <1>1, Zenon DEF Inv, Types
  <2>3. \A d \in Consumers : d # c => lastForwardErr'[d] = lastForwardErr[d] /\ sendFailed'[d] = sendFailed[d]
    BY <1>1, Zenon DEF Inv, Types
  <2>4. Errors'
    BY <2>2, <2>3, Zenon DEF Inv, Errors
  <2>5. QED
    BY <2>1, <2>4
<1>9. Grouped' /\ ToFlush'
  BY <1>1, <1>2, <1>3 DEF Inv, Types, Grouped, ToFlush, Walking
<1>10. Placed'
  <2>1. Parts(inserted, Buf!Buffered, Held, sent, queued, evicted)
    BY DEF Inv, Placed
  <2>2. Parts(inserted', Buf!Buffered', Held', sent', queued', evicted')
    BY <1>1, <1>2, <1>3, <1>5, <2>1 DEF Parts
  <2>3. \A d, e \in Consumers : d # e => hand'[d] \cap hand'[e] = {}
    BY <1>4 DEF Inv, Placed
  <2>4. QED
    BY <2>2, <2>3 DEF Placed, Parts
<1>11. QED
  BY <1>3, <1>6, <1>7, <1>8, <1>9, <1>10 DEF Inv

\* The call returns.
LEMMA ReturnKeepsInv ==
    ASSUME Inv, NEW c \in Consumers, Return(c)
    PROVE  Inv'
<1>1. /\ pc[c] = "flush" /\ flushTargets[c] = {}
      /\ pc' = [pc EXCEPT ![c] = "idle"]
      /\ lastForwardErr' = [lastForwardErr EXCEPT ![c] = FALSE]
      /\ own' = [own EXCEPT ![c] = {}]
      /\ triggered' = [triggered EXCEPT ![c] = {}]
      /\ sendFailed' = [sendFailed EXCEPT ![c] = FALSE]
  BY DEF Return, AboutToReturn
<1>2. UNCHANGED <<per, ring, rest, toInsert, toEval, current, flushTargets, hand, pruner, clock, arrived,
                  inserted, sent, queued, evicted>>
  BY DEF Return
<1>3. RP!Inv' /\ Buf!Buffered' = Buf!Buffered /\ traces' = traces
  BY <1>2, RingUnchanged DEF Inv
<1>4. Types'
  BY <1>1, <1>2 DEF Inv, Types, PCs
<1>5. Walk' /\ NotYet'
  BY <1>1, <1>2 DEF Inv, Types, Walk, Walking, NotYet
<1>6. rest[c] = << >>
  BY <1>1 DEF Inv, Walk, Walking
<1>7. Batches'
  BY <1>1, <1>2, <1>6 DEF Inv, Types, Batches
<1>8. Errors'
  BY <1>1, <1>2 DEF Inv, Types, Errors
<1>9. Grouped' /\ Placed'
  BY <1>2, <1>3 DEF Inv, Grouped, Placed, Parts, Held
<1>10. ToFlush'
  BY <1>1, <1>2, <1>3 DEF Inv, Types, ToFlush, Walking
<1>11. QED
  BY <1>3, <1>4, <1>5, <1>7, <1>8, <1>9, <1>10 DEF Inv

-----------------------------------------------------------------------------
(***************************************************************************)
(* pruneLoop and the clock.                                                *)
(***************************************************************************)

\* pruneLoop prunes the buffer.
LEMMA PruneBufferKeepsInv ==
    ASSUME Inv, PruneBuffer
    PROVE  Inv'
<1>1. /\ pruner' = "breaker" /\ Buf!PruneByTime
      /\ evicted' = evicted \cup (Buf!Buffered \ Buf!Buffered')
  BY DEF PruneBuffer
<1>2. UNCHANGED <<per, pc, rest, toInsert, toEval, current, seenSpans, flushTargets, hand, lastForwardErr, clock,
                  own, triggered, sendFailed, arrived, inserted, sent, queued>>
  BY DEF PruneBuffer, calls, walk
<1>3. RP!Inv' /\ DOMAIN traces' \subseteq DOMAIN traces /\ \A u \in DOMAIN traces' : traces'[u] = traces[u]
  BY <1>1, PruneEffect DEF Inv
<1>4. Grouped'
  BY <1>3 DEF Inv, Grouped
<1>5. Buf!Buffered' \subseteq Buf!Buffered
  BY <1>3 DEF Buf!Buffered
<1>6. Types'
  BY <1>1, <1>2 DEF Inv, Types
<1>7. Walk' /\ Batches' /\ NotYet' /\ Errors'
  BY <1>2 DEF Inv, Walk, Batches, NotYet, Errors
<1>8. ToFlush'
  BY <1>2, <1>5 DEF Inv, ToFlush
<1>9. Held' = Held
  BY <1>2 DEF Held
<1>10. Parts(inserted', Buf!Buffered', Held', sent', queued', evicted')
  BY <1>1, <1>2, <1>5, <1>9 DEF Inv, Placed, Parts
<1>11. Placed'
  BY <1>2, <1>10 DEF Inv, Placed, Parts
<1>12. QED
  BY <1>3, <1>4, <1>6, <1>7, <1>8, <1>11 DEF Inv

\* pruneLoop prunes the breaker.
LEMMA PruneBreakerKeepsInv ==
    ASSUME Inv, PruneBreaker
    PROVE  Inv'
<1>1. pruner' = "wait" /\ pruneStale /\ UNCHANGED <<ring, calls, clock, ghost>>
  BY DEF PruneBreaker
<1>2. RP!Inv' /\ Buf!Buffered' = Buf!Buffered /\ traces' = traces
  BY <1>1, RingUnchanged DEF Inv
<1>3. per' \in [TraceIDs -> CounterEntry]
  BY <1>1, PruneType DEF Inv, Types
<1>4. Types'
  BY <1>1, <1>3 DEF Inv, Types, calls, walk, ghost
<1>5. Walk' /\ Batches' /\ NotYet' /\ Errors'
  BY <1>1 DEF Inv, Walk, Batches, NotYet, Errors, calls, walk, ghost
<1>6. Grouped' /\ ToFlush' /\ Placed'
  BY <1>1, <1>2 DEF Inv, Grouped, ToFlush, Placed, Parts, Held, calls, walk, ghost
<1>7. QED
  BY <1>2, <1>4, <1>5, <1>6 DEF Inv

\* The clock advances.
LEMMA ClockKeepsInv ==
    ASSUME Inv, Clock
    PROVE  Inv'
<1>1. /\ clock < MaxClock /\ clock' = clock + 1 /\ Buf!Advance /\ BreakerAge
      /\ UNCHANGED <<calls, pruner, ghost>>
  BY DEF Clock
<1>2. RP!Inv' /\ DOMAIN traces' = DOMAIN traces /\ \A u \in DOMAIN traces : traces'[u].spans = traces[u].spans
  BY <1>1, AdvanceEffect DEF Inv
<1>3. Buf!Buffered' = Buf!Buffered
  BY <1>2 DEF Buf!Buffered
<1>4. Grouped'
  BY <1>2 DEF Inv, Grouped
<1>5. per' \in [TraceIDs -> CounterEntry]
  BY <1>1, AgeType DEF Inv, Types
<1>6. clock' \in 0..MaxClock
  BY <1>1, BoundsAssumption DEF Inv, Types
<1>7. Types'
  BY <1>1, <1>5, <1>6 DEF Inv, Types, calls, walk, ghost
<1>8. Walk' /\ Batches' /\ NotYet' /\ Errors'
  BY <1>1 DEF Inv, Walk, Batches, NotYet, Errors, calls, walk, ghost
<1>9. ToFlush' /\ Placed'
  BY <1>1, <1>3 DEF Inv, ToFlush, Placed, Parts, Held, calls, walk, ghost
<1>10. QED
  BY <1>2, <1>4, <1>7, <1>8, <1>9 DEF Inv

-----------------------------------------------------------------------------
(***************************************************************************)
(* The theorems.                                                           *)
(***************************************************************************)

\* No call is under way and nothing is buffered.
LEMMA InitInv ==
    ASSUME Init
    PROVE  Inv
<1>1. RP!Inv
  <2>1. RP!Init
    BY DEF Init, Buf!Init, RP!Init
  <2>2. QED
    BY <2>1, RingConstants, RP!InitInv
<1>2. Buf!Buffered = {} /\ DOMAIN traces = {}
  BY DEF Init, Buf!Init, Buf!Buffered
<1>3. Types
  <2>1. per \in [TraceIDs -> CounterEntry]
    <3>1. 0 \in 0..Hard /\ 0 \in 0..(TTL + 1) /\ tierNone \in Tiers
      BY ThresholdsAssumption, TTLAssumption DEF Tiers, tierNone, tierBreaker
    <3>2. NoEntry \in CounterEntry
      BY <3>1 DEF NoEntry, CounterEntry
    <3>3. QED
      BY <3>2 DEF Init, BreakerInit
  <2>2. rest \in [Consumers -> Seq(SUBSET Spans)]
    BY DEF Init
  <2>3. lastForwardErr \in [Consumers -> BOOLEAN] /\ sendFailed \in [Consumers -> BOOLEAN]
    BY Zenon DEF Init
  <2>4. clock \in 0..MaxClock
    BY BoundsAssumption DEF Init
  <2>5. QED
    BY <2>1, <2>2, <2>3, <2>4 DEF Init, Types, PCs
<1>4. Walk /\ Batches /\ NotYet
  BY DEF Init, Walk, Walking, Batches, NotYet
<1>5. Grouped /\ ToFlush
  BY <1>2 DEF Init, Grouped, ToFlush
<1>6. Errors
  BY Zenon DEF Init, Errors
<1>7. Placed
  BY <1>2 DEF Init, Placed, Parts, Held
<1>8. QED
  BY <1>1, <1>3, <1>4, <1>5, <1>6, <1>7 DEF Inv

\* Every step keeps the invariant.
LEMMA NextInv ==
    ASSUME Inv, [Next]_vars
    PROVE  Inv'
<1>1. ASSUME NEW c \in Consumers, NEW rss \in BatchesOf(Spans \ arrived), Begin(c, rss) PROVE Inv'
  BY <1>1, BeginKeepsInv
<1>2. ASSUME NEW c \in Consumers, NEW t \in TraceIDs, InsertTrace(c, t) PROVE Inv'
  BY <1>2, InsertTraceKeepsInv
<1>3. ASSUME NEW c \in Consumers, NEW t \in TraceIDs, DrainTrace(c, t) PROVE Inv'
  BY <1>3, DrainTraceKeepsInv
<1>4. ASSUME NEW c \in Consumers, NEW s \in Spans, SkipDuplicate(c, s) PROVE Inv'
  BY <1>4, SkipDuplicateKeepsInv
<1>5. ASSUME NEW c \in Consumers, NEW s \in Spans, ObserveSpan(c, s) PROVE Inv'
  BY <1>5, ObserveSpanKeepsInv
<1>6. ASSUME NEW c \in Consumers, NEW fired \in evaluateSpan, DecideSpan(c, fired) PROVE Inv'
  BY <1>6, DecideSpanKeepsInv
<1>7. ASSUME NEW c \in Consumers, NextResource(c) PROVE Inv'
  BY <1>7, NextResourceKeepsInv
<1>8. ASSUME NEW c \in Consumers, SendOK(c) PROVE Inv'
  BY <1>8, SendOKKeepsInv
<1>9. ASSUME NEW c \in Consumers, SendFail(c) PROVE Inv'
  BY <1>9, SendFailKeepsInv
<1>10. ASSUME NEW c \in Consumers, Return(c) PROVE Inv'
  BY <1>10, ReturnKeepsInv
<1>11. CASE PruneBuffer
  BY <1>11, PruneBufferKeepsInv
<1>12. CASE PruneBreaker
  BY <1>12, PruneBreakerKeepsInv
<1>13. CASE Clock
  BY <1>13, ClockKeepsInv
<1>14. CASE UNCHANGED vars
  <2>1. UNCHANGED <<per, ring, calls, pruner, clock, ghost>>
    BY <1>14 DEF vars
  <2>2. RP!Inv' /\ Buf!Buffered' = Buf!Buffered /\ traces' = traces
    BY <2>1, RingUnchanged DEF Inv
  <2>3. Types' /\ Walk' /\ Batches' /\ NotYet' /\ Errors'
    BY <2>1 DEF Inv, Types, Walk, Batches, NotYet, Errors, calls, walk, ghost
  <2>4. Grouped' /\ ToFlush' /\ Placed'
    BY <2>1, <2>2 DEF Inv, Grouped, ToFlush, Placed, Parts, Held, calls, walk, ghost
  <2>5. QED
    BY <2>2, <2>3, <2>4 DEF Inv
<1>15. QED
  BY <1>1, <1>2, <1>3, <1>4, <1>5, <1>6, <1>7, <1>8, <1>9, <1>10, <1>11, <1>12, <1>13, <1>14 DEF Next

\* The inductive invariant.
THEOREM BridgeInvariant == Spec => []Inv
BY InitInv, NextInv, PTL DEF Spec

\* The state of the calls, of the breaker and of the buffer under them has its
\* types, and a call holds drained spans exactly while it sends them.
THEOREM BridgeTypes == Spec => []TypeOK
<1>1. Inv => TypeOK
  <2>1. SUFFICES ASSUME Inv PROVE TypeOK
    OBVIOUS
  <2>2. Buf!TypeOK
    <3>1. RP!Entries(traces) /\ RP!Lists(order, DOMAIN traces) /\ count = RP!Cardinality(RP!All(traces))
      BY <2>1 DEF Inv, RP!Inv, RP!RingOK
    <3>2. count \in Nat
      BY <3>1, RingConstants, RP!SpansFinite
    <3>3. QED
      BY <3>1, <3>2 DEF Buf!TypeOK, RP!Entries, RP!Lists, RP!Listing, RP!TraceEntry, Buf!TraceEntry
  <2>3. QED
    BY <2>1, <2>2 DEF Inv, Types, Walk, TypeOK
<1>2. QED
  BY <1>1, BridgeInvariant, PTL

\* A span that entered the buffer is in exactly one place, whatever calls race
\* for its trace: it is neither forwarded twice nor lost between two calls.
THEOREM OnePlace == Spec => []ExactlyOnePlace
<1>1. Inv => ExactlyOnePlace
  <2>1. SUFFICES ASSUME Inv PROVE ExactlyOnePlace
    OBVIOUS
  <2>2. /\ Parts(inserted, Buf!Buffered, Held, sent, queued, evicted)
        /\ \A c, d \in Consumers : c # d => hand[c] \cap hand[d] = {}
    BY <2>1 DEF Inv, Placed
  <2>3. PICK p : p = Places
    OBVIOUS
  <2>4. /\ DOMAIN p = 1..5 /\ p[1] = Buf!Buffered /\ p[2] = Held /\ p[3] = sent /\ p[4] = queued /\ p[5] = evicted
    BY <2>3 DEF Places, Held
  <2>5. \A i \in 1..5 : i = 1 \/ i = 2 \/ i = 3 \/ i = 4 \/ i = 5
    OBVIOUS
  <2>6. inserted = UNION {p[i] : i \in DOMAIN p}
    <3>1. UNION {p[i] : i \in DOMAIN p} = p[1] \cup p[2] \cup p[3] \cup p[4] \cup p[5]
      BY <2>4, <2>5
    <3>2. QED
      BY <2>2, <2>4, <3>1 DEF Parts
  <2>7. \A i, j \in DOMAIN p : i # j => p[i] \cap p[j] = {}
    <3>1. SUFFICES ASSUME NEW i \in 1..5, NEW j \in 1..5, i # j PROVE p[i] \cap p[j] = {}
      BY <2>4
    <3>2. QED
      BY <2>2, <2>4, <2>5, <3>1 DEF Parts
  <2>8. QED
    BY <2>2, <2>3, <2>6, <2>7 DEF ExactlyOnePlace
<1>2. QED
  BY <1>1, BridgeInvariant, PTL

\* When a call returns, none of its spans of a trace that fired is still in the
\* buffer.
THEOREM FiredIsFlushed == Spec => []FiredTracesLeave
<1>1. Inv => FiredTracesLeave
  BY DEF Inv, ToFlush, FiredTracesLeave, AboutToReturn, OwnFired
<1>2. QED
  BY <1>1, BridgeInvariant, PTL

\* A call reports an error exactly when one of its forwards failed.
THEOREM FailureIsReported == Spec => []ErrorReported
<1>1. Inv => ErrorReported
  <2>1. SUFFICES ASSUME Inv, NEW c \in Consumers, NEW pass \in BOOLEAN, NEW accepted \in BOOLEAN
                 PROVE  Outcome(c, pass, accepted) = "forwardErr" <=> ~pass /\ sendFailed[c]
    BY DEF ErrorReported
  <2>2. lastForwardErr[c] = sendFailed[c] /\ sendFailed[c] \in BOOLEAN
    BY <2>1 DEF Inv, Errors, Types
  <2>3. "ok" # "forwardErr" /\ "nextErr" # "forwardErr"
    OBVIOUS
  <2>4. CASE pass
    BY <2>1, <2>3, <2>4, Zenon DEF Outcome
  <2>5. CASE ~pass /\ sendFailed[c]
    BY <2>1, <2>2, <2>3, <2>5, Zenon DEF Outcome
  <2>6. CASE ~pass /\ ~sendFailed[c]
    BY <2>1, <2>2, <2>3, <2>6, Zenon DEF Outcome
  <2>7. QED
    BY <2>4, <2>5, <2>6
<1>2. QED
  BY <1>1, BridgeInvariant, PTL

-----------------------------------------------------------------------------
(***************************************************************************)
(* The buffer is used as module Ring says: every step of Bridge is a step  *)
(* of Ring on the three fields, or leaves them alone.                      *)
(***************************************************************************)

\* A step of Bridge, seen from the buffer.
LEMMA RingSteps ==
    ASSUME Inv, [Next]_vars
    PROVE  [Buf!Next]_(Buf!vars)
<1>1. ASSUME NEW c \in Consumers, NEW t \in TraceIDs, InsertTrace(c, t) PROVE Buf!Next
  <2>1. PICK new : new = InTrace(rest[c][1], t)
    OBVIOUS
  <2>2. pc[c] = "insert" /\ t \in toInsert[c] /\ Buf!Insert(t, new)
    BY <1>1, <2>1 DEF InsertTrace
  <2>3. new # {} /\ new \in SUBSET (Spans \ Buf!Buffered)
    BY <2>1, <2>2, InsertsNew
  <2>4. QED
    BY <2>2, <2>3 DEF Buf!Next
<1>2. ASSUME NEW c \in Consumers, NEW t \in TraceIDs, DrainTrace(c, t) PROVE Buf!Next \/ UNCHANGED ring
  BY <1>2 DEF DrainTrace, Buf!Next
<1>3. ASSUME PruneBuffer PROVE Buf!Next
  BY <1>3 DEF PruneBuffer, Buf!Next
<1>4. ASSUME Clock PROVE Buf!Next
  BY <1>4 DEF Clock, Buf!Next
<1>5. ASSUME NEW c \in Consumers, NEW rss, Begin(c, rss) PROVE UNCHANGED ring
  BY <1>5 DEF Begin
<1>6. ASSUME NEW c \in Consumers, NEW s, SkipDuplicate(c, s) \/ ObserveSpan(c, s) PROVE UNCHANGED ring
  BY <1>6 DEF SkipDuplicate, ObserveSpan
<1>7. ASSUME NEW c \in Consumers, NEW fired, DecideSpan(c, fired) PROVE UNCHANGED ring
  BY <1>7 DEF DecideSpan
<1>8. ASSUME NEW c \in Consumers, NextResource(c) \/ SendOK(c) \/ SendFail(c) \/ Return(c) PROVE UNCHANGED ring
  BY <1>8 DEF NextResource, SendOK, SendFail, Return
<1>9. ASSUME PruneBreaker PROVE UNCHANGED ring
  BY <1>9 DEF PruneBreaker
<1>10. ASSUME UNCHANGED vars PROVE UNCHANGED ring
  BY <1>10 DEF vars
<1>11. Buf!Next \/ UNCHANGED ring
  BY <1>1, <1>2, <1>3, <1>4, <1>5, <1>6, <1>7, <1>8, <1>9, <1>10 DEF Next
<1>12. QED
  BY <1>11 DEF ring, Buf!vars

\* Concurrent calls use the Ring within its specification: what is proved of the
\* Ring alone holds of the Ring they share.
THEOREM RingIsUsedRight == Spec => Buf!Spec
<1>1. Init => Buf!Init
  BY DEF Init
<1>2. QED
  BY <1>1, RingSteps, BridgeInvariant, PTL DEF Spec, Buf!Spec

-----------------------------------------------------------------------------
(***************************************************************************)
(* The refinement of Delivery.                                             *)
(***************************************************************************)
Placement ==
    [s \in Spans |->
        IF s \in Buf!Buffered THEN "buffered"
        ELSE IF s \in sent THEN "sent"
        ELSE IF s \in queued THEN "queued"
        ELSE IF s \in evicted THEN "dropped"
        ELSE IF s \in UNION {hand[c] : c \in Consumers}
             THEN CHOOSE c \in Consumers : s \in hand[c]
        ELSE "new"]

\* p says where every span is.
Locates(p) ==
    /\ p \in [Spans -> End!Rests \cup Consumers]
    /\ \A s \in Spans :
          /\ p[s] = "buffered" <=> s \in Buf!Buffered
          /\ p[s] = "sent" <=> s \in sent
          /\ p[s] = "queued" <=> s \in queued
          /\ p[s] = "dropped" <=> s \in evicted
          /\ p[s] = "new" <=> s \notin inserted
          /\ \A c \in Consumers : p[s] = c <=> s \in hand[c]

\* The refinement mapping does.
LEMMA PlacementLocates == Inv => Locates(Placement)
<1>1. SUFFICES ASSUME Inv PROVE Locates(Placement)
  OBVIOUS
<1>2. /\ Parts(inserted, Buf!Buffered, Held, sent, queued, evicted)
      /\ \A c, d \in Consumers : c # d => hand[c] \cap hand[d] = {}
  BY <1>1 DEF Inv, Placed
<1>3. PICK p : p = Placement
  OBVIOUS
<1>4. End!Rests = {"new", "buffered", "sent", "queued", "dropped"}
  BY DEF End!Rests
<1>5. \A c \in Consumers : c # "new" /\ c # "buffered" /\ c # "sent" /\ c # "queued" /\ c # "dropped"
  BY <1>4, ConsumersAssumption
<1>6. ASSUME NEW s \in Spans
      PROVE  /\ p[s] \in End!Rests \cup Consumers
             /\ p[s] = "buffered" <=> s \in Buf!Buffered
             /\ p[s] = "sent" <=> s \in sent
             /\ p[s] = "queued" <=> s \in queued
             /\ p[s] = "dropped" <=> s \in evicted
             /\ p[s] = "new" <=> s \notin inserted
             /\ \A c \in Consumers : p[s] = c <=> s \in hand[c]
  <2>1. p[s] = IF s \in Buf!Buffered THEN "buffered"
               ELSE IF s \in sent THEN "sent"
               ELSE IF s \in queued THEN "queued"
               ELSE IF s \in evicted THEN "dropped"
               ELSE IF s \in Held THEN CHOOSE c \in Consumers : s \in hand[c]
               ELSE "new"
    BY <1>3, Zenon DEF Placement, Held
  <2>2. \A c \in Consumers : s \in hand[c] => s \in Held
    BY DEF Held
  <2>3. CASE s \in Held
    <3>1. PICK c \in Consumers : s \in hand[c]
      BY <2>3 DEF Held
    <3>2. \A d \in Consumers : s \in hand[d] => d = c
      BY <1>2, <3>1
    <3>3. (CHOOSE d \in Consumers : s \in hand[d]) = c
      BY <3>1, <3>2, Zenon
    <3>4. s \in inserted /\ s \notin Buf!Buffered /\ s \notin sent /\ s \notin queued /\ s \notin evicted
      BY <1>2, <2>3 DEF Parts
    <3>5. p[s] = c
      BY <2>1, <2>3, <3>3, <3>4
    <3>6. QED
      BY <1>5, <3>1, <3>2, <3>4, <3>5
  <2>4. CASE s \notin Held
    <3>1. s \in inserted <=> s \in Buf!Buffered \/ s \in sent \/ s \in queued \/ s \in evicted
      BY <1>2, <2>4 DEF Parts
    <3>2. /\ s \in Buf!Buffered => s \notin sent /\ s \notin queued /\ s \notin evicted
          /\ s \in sent => s \notin queued /\ s \notin evicted
          /\ s \in queued => s \notin evicted
      BY <1>2 DEF Parts
    <3>3. p[s] \in {"new", "buffered", "sent", "queued", "dropped"}
      BY <2>1, <2>4
    <3>4. QED
      BY <1>4, <1>5, <2>1, <2>2, <2>4, <3>1, <3>2, <3>3
  <2>5. QED
    BY <2>3, <2>4
<1>7. p = [s \in Spans |-> p[s]]
  BY <1>3 DEF Placement
<1>8. p \in [Spans -> End!Rests \cup Consumers]
  BY <1>6, <1>7
<1>9. Locates(p)
  BY <1>6, <1>8 DEF Locates
<1>10. QED
  BY <1>3, <1>9

\* A step that moves no span stutters.
LEMMA PlacementUnchanged ==
    ASSUME Buf!Buffered' = Buf!Buffered, UNCHANGED <<hand, sent, queued, evicted>>
    PROVE  Placement' = Placement
BY DEF Placement

\* InsertTrace is Buffer: the traces that leave the buffer are dropped.
LEMMA InsertTraceBuffers ==
    ASSUME Inv, Inv', NEW c \in Consumers, NEW t \in TraceIDs, InsertTrace(c, t)
    PROVE  End!Buffer
<1>1. PICK new : new = InTrace(rest[c][1], t)
  OBVIOUS
<1>2. /\ pc[c] = "insert" /\ t \in toInsert[c] /\ Buf!Insert(t, new)
      /\ inserted' = inserted \cup new
      /\ evicted' = evicted \cup ((Buf!Buffered \cup new) \ Buf!Buffered')
      /\ hand' = hand /\ sent' = sent /\ queued' = queued
  BY <1>1 DEF InsertTrace
<1>3. /\ new # {} /\ new \in SUBSET (Spans \ Buf!Buffered) /\ new \cap inserted = {}
      /\ \A s \in new : s \in Spans /\ TraceOf[s] = t
  BY <1>1, <1>2, InsertsNew
<1>4. /\ DOMAIN traces' \subseteq DOMAIN traces \cup {t}
      /\ \A u \in DOMAIN traces' : traces'[u].spans = (IF u = t THEN new ELSE {}) \cup Buf!SpansOf(traces, {u})
  BY <1>2, <1>3, InsertEffect DEF Inv
<1>5. PICK dropped \in SUBSET TraceIDs : dropped = TraceIDs \ DOMAIN traces'
  OBVIOUS
<1>6. PICK p : p = Placement
  OBVIOUS
<1>7. PICK q : q = Placement'
  OBVIOUS
<1>8. Locates(p) /\ Locates(Placement)'
  <2>1. Locates(Placement)
    BY PlacementLocates
  <2>2. Locates(Placement)'
    BY PlacementLocates, PTL
  <2>3. QED
    BY <1>6, <2>1, <2>2
<1>9. \A s \in Spans : s \in Buf!Buffered' <=> s \in Buf!Buffered \cup new /\ TraceOf[s] \notin dropped
  <2>1. SUFFICES ASSUME NEW s \in Spans
                 PROVE  s \in Buf!Buffered' <=> s \in Buf!Buffered \cup new /\ TraceOf[s] \notin dropped
    OBVIOUS
  <2>2. TraceOf[s] \in TraceIDs
    BY SpanAssumption
  <2>3. ASSUME s \in Buf!Buffered' PROVE s \in Buf!Buffered \cup new /\ TraceOf[s] \notin dropped
    <3>1. PICK u \in DOMAIN traces' : s \in traces'[u].spans
      BY <2>3 DEF Buf!Buffered
    <3>2. TraceOf[s] = u
      BY <3>1 DEF Inv, Grouped
    <3>3. s \in new \/ s \in Buf!SpansOf(traces, {u})
      BY <1>4, <3>1
    <3>4. QED
      BY <1>5, <3>1, <3>2, <3>3 DEF Buf!SpansOf, Buf!Buffered
  <2>4. ASSUME s \in Buf!Buffered \cup new, TraceOf[s] \notin dropped PROVE s \in Buf!Buffered'
    <3>1. TraceOf[s] \in DOMAIN traces'
      BY <1>5, <2>2, <2>4
    <3>2. s \in new => TraceOf[s] = t
      BY <1>3
    <3>3. s \in Buf!Buffered => s \in Buf!SpansOf(traces, {TraceOf[s]})
      BY DEF Inv, Grouped, Buf!Buffered, Buf!SpansOf
    <3>4. s \in traces'[TraceOf[s]].spans
      BY <1>4, <2>4, <3>1, <3>2, <3>3
    <3>5. QED
      BY <3>1, <3>4 DEF Buf!Buffered
  <2>5. QED
    BY <2>3, <2>4
<1>10. \A s \in Spans : q[s] = IF s \in Buf!Buffered \cup new
                               THEN IF TraceOf[s] \in dropped THEN "dropped" ELSE "buffered"
                               ELSE p[s]
  <2>1. SUFFICES ASSUME NEW s \in Spans
                 PROVE  q[s] = IF s \in Buf!Buffered \cup new
                               THEN IF TraceOf[s] \in dropped THEN "dropped" ELSE "buffered"
                               ELSE p[s]
    OBVIOUS
  <2>2. /\ q[s] = "buffered" <=> s \in Buf!Buffered'
        /\ q[s] = "dropped" <=> s \in evicted'
    BY <1>7, <1>8 DEF Locates
  <2>3. CASE s \in Buf!Buffered \cup new
    BY <1>2, <1>9, <2>2, <2>3
  <2>4. CASE s \notin Buf!Buffered \cup new
    <3>1. /\ s \in Buf!Buffered' <=> s \in Buf!Buffered
          /\ s \in evicted' <=> s \in evicted
          /\ s \in sent' <=> s \in sent
          /\ s \in queued' <=> s \in queued
      BY <1>2, <1>9, <2>4
    <3>2. Placement'[s] = Placement[s]
      BY <1>2, <3>1 DEF Placement
    <3>3. QED
      BY <1>6, <1>7, <2>4, <3>2
  <2>5. QED
    BY <2>3, <2>4
<1>11. /\ {s \in Spans : p[s] = "buffered"} = Buf!Buffered \cap Spans
       /\ \A s \in new : p[s] = "new"
  BY <1>3, <1>8 DEF Locates
<1>12. q = [s \in Spans |-> IF s \in {x \in Spans : p[x] = "buffered"} \cup new
                            THEN IF s \in {x \in Spans : TraceOf[x] \in dropped} THEN "dropped" ELSE "buffered"
                            ELSE p[s]]
  <2>1. q = [s \in Spans |-> q[s]]
    BY <1>7 DEF Placement
  <2>2. QED
    BY <1>10, <1>11, <2>1
<1>13. new \in (SUBSET ({x \in Spans : p[x] = "new"} \cap {x \in Spans : TraceOf[x] \in {t}})) \ {{}}
  BY <1>3, <1>11
<1>14. \E tt \in TraceIDs, dd \in SUBSET TraceIDs :
       \E nn \in (SUBSET ({x \in Spans : Placement[x] = "new"} \cap {x \in Spans : TraceOf[x] \in {tt}})) \ {{}} :
          Placement' = [s \in Spans |->
                          IF s \in {x \in Spans : Placement[x] = "buffered"} \cup nn
                          THEN IF s \in {x \in Spans : TraceOf[x] \in dd} THEN "dropped" ELSE "buffered"
                          ELSE Placement[s]]
  <2>1. new \in (SUBSET ({x \in Spans : Placement[x] = "new"} \cap {x \in Spans : TraceOf[x] \in {t}})) \ {{}}
    BY <1>6, <1>13, Zenon
  <2>2. Placement' = [s \in Spans |->
                        IF s \in {x \in Spans : Placement[x] = "buffered"} \cup new
                        THEN IF s \in {x \in Spans : TraceOf[x] \in dropped} THEN "dropped" ELSE "buffered"
                        ELSE Placement[s]]
    BY <1>6, <1>7, <1>12, Zenon
  <2>3. QED
    BY <2>1, <2>2, Zenon
<1>15. QED
  BY <1>14 DEF End!Buffer, End!At, End!Of, Placement

\* A step after which the spans in moved are at v and all others where they were.
LEMMA PlacementMoved ==
    ASSUME Inv, Inv', NEW moved \in SUBSET Spans, NEW v,
           \A s \in moved : Placement'[s] = v,
           \A s \in Spans \ moved :
              /\ s \in Buf!Buffered' <=> s \in Buf!Buffered
              /\ s \in sent' <=> s \in sent
              /\ s \in queued' <=> s \in queued
              /\ s \in evicted' <=> s \in evicted
              /\ s \in inserted' <=> s \in inserted
              /\ \A c \in Consumers : s \in hand'[c] <=> s \in hand[c]
    PROVE  Placement' = [s \in Spans |-> IF s \in moved THEN v ELSE Placement[s]]
<1>1. PICK p : p = Placement
  OBVIOUS
<1>2. PICK q : q = Placement'
  OBVIOUS
<1>3. Locates(p)
  BY <1>1, PlacementLocates
<1>4. Locates(Placement)'
  BY PlacementLocates, PTL
<1>5. /\ q \in [Spans -> End!Rests \cup Consumers]
      /\ \A s \in Spans :
            /\ q[s] = "buffered" <=> s \in Buf!Buffered'
            /\ q[s] = "sent" <=> s \in sent'
            /\ q[s] = "queued" <=> s \in queued'
            /\ q[s] = "dropped" <=> s \in evicted'
            /\ q[s] = "new" <=> s \notin inserted'
            /\ \A c \in Consumers : q[s] = c <=> s \in hand'[c]
  BY <1>2, <1>4 DEF Locates
<1>6. \A s \in Spans \ moved : q[s] = p[s]
  <2>1. SUFFICES ASSUME NEW s \in Spans \ moved PROVE q[s] = p[s]
    OBVIOUS
  <2>2. p[s] \in End!Rests \cup Consumers
    BY <1>3 DEF Locates
  <2>3. CASE p[s] \in Consumers
    <3>1. s \in hand[p[s]]
      BY <1>3, <2>3 DEF Locates
    <3>2. QED
      BY <1>5, <2>3, <3>1
  <2>4. CASE p[s] \in End!Rests
    <3>1. p[s] = "new" \/ p[s] = "buffered" \/ p[s] = "sent" \/ p[s] = "queued" \/ p[s] = "dropped"
      BY <2>4 DEF End!Rests
    <3>2. QED
      BY <1>3, <1>5, <3>1 DEF Locates
  <2>5. QED
    BY <2>2, <2>3, <2>4
<1>7. q = [s \in Spans |-> IF s \in moved THEN v ELSE p[s]]
  BY <1>2, <1>5, <1>6
<1>8. QED
  BY <1>1, <1>2, <1>7, Zenon

\* PruneBuffer is Drop: the traces that leave the buffer are dropped.
LEMMA PruneBufferDrops ==
    ASSUME Inv, Inv', PruneBuffer
    PROVE  End!Drop
<1>1. /\ Buf!PruneByTime
      /\ evicted' = evicted \cup (Buf!Buffered \ Buf!Buffered')
      /\ inserted' = inserted /\ hand' = hand /\ sent' = sent /\ queued' = queued
  BY DEF PruneBuffer, calls
<1>2. DOMAIN traces' \subseteq DOMAIN traces /\ \A u \in DOMAIN traces' : traces'[u] = traces[u]
  BY <1>1, PruneEffect DEF Inv
<1>3. PICK dropped \in SUBSET TraceIDs : dropped = TraceIDs \ DOMAIN traces'
  OBVIOUS
<1>4. PICK moved : moved = {s \in Spans : Placement[s] = "buffered"} \cap {s \in Spans : TraceOf[s] \in dropped}
  OBVIOUS
<1>5. Locates(Placement)
  BY PlacementLocates
<1>6. \A s \in Spans : s \in moved <=> s \in Buf!Buffered /\ TraceOf[s] \in dropped
  BY <1>4, <1>5 DEF Locates
<1>7. \A s \in Spans : s \in Buf!Buffered' <=> s \in Buf!Buffered /\ TraceOf[s] \notin dropped
  <2>1. SUFFICES ASSUME NEW s \in Spans PROVE s \in Buf!Buffered' <=> s \in Buf!Buffered /\ TraceOf[s] \notin dropped
    OBVIOUS
  <2>2. TraceOf[s] \in TraceIDs
    BY SpanAssumption
  <2>3. ASSUME s \in Buf!Buffered' PROVE s \in Buf!Buffered /\ TraceOf[s] \notin dropped
    <3>1. PICK u \in DOMAIN traces' : s \in traces'[u].spans
      BY <2>3 DEF Buf!Buffered
    <3>2. TraceOf[s] = u
      BY <3>1 DEF Inv, Grouped
    <3>3. QED
      BY <1>2, <1>3, <3>1, <3>2 DEF Buf!Buffered
  <2>4. ASSUME s \in Buf!Buffered, TraceOf[s] \notin dropped PROVE s \in Buf!Buffered'
    <3>1. TraceOf[s] \in DOMAIN traces' /\ s \in traces[TraceOf[s]].spans
      BY <1>3, <2>2, <2>4 DEF Inv, Grouped, Buf!Buffered
    <3>2. QED
      BY <1>2, <3>1 DEF Buf!Buffered
  <2>5. QED
    BY <2>3, <2>4
<1>8. \A s \in moved : Placement'[s] = "dropped"
  <2>1. SUFFICES ASSUME NEW s \in moved PROVE Placement'[s] = "dropped"
    OBVIOUS
  <2>2. s \in Spans /\ s \in evicted'
    BY <1>1, <1>4, <1>6, <1>7
  <2>3. Locates(Placement)'
    BY PlacementLocates, PTL
  <2>4. QED
    BY <2>2, <2>3 DEF Locates
<1>9. Placement' = [s \in Spans |-> IF s \in moved THEN "dropped" ELSE Placement[s]]
  <2>1. moved \in SUBSET Spans
    BY <1>4
  <2>2. \A s \in Spans \ moved :
          /\ s \in Buf!Buffered' <=> s \in Buf!Buffered
          /\ s \in sent' <=> s \in sent
          /\ s \in queued' <=> s \in queued
          /\ s \in evicted' <=> s \in evicted
          /\ s \in inserted' <=> s \in inserted
          /\ \A c \in Consumers : s \in hand'[c] <=> s \in hand[c]
    BY <1>1, <1>6, <1>7
  <2>3. QED
    BY <1>8, <2>1, <2>2, PlacementMoved
<1>10. \E dd \in SUBSET TraceIDs :
         Placement' = [s \in Spans |->
                         IF s \in {x \in Spans : Placement[x] = "buffered"} \cap {x \in Spans : TraceOf[x] \in dd}
                         THEN "dropped" ELSE Placement[s]]
  BY <1>4, <1>9, Zenon
<1>11. QED
  BY <1>10 DEF End!Drop, End!At, End!Of, End!Moved, Placement

\* DrainTrace of a buffered trace is Take; of another one it moves nothing.
LEMMA DrainTraceTakes ==
    ASSUME Inv, Inv', NEW c \in Consumers, NEW t \in TraceIDs, DrainTrace(c, t)
    PROVE  End!Take(c) \/ Placement' = Placement
<1>1. PICK taken : taken = Buf!SpansOf(traces, {t})
  OBVIOUS
<1>2. /\ pc[c] = "flush"
      /\ hand' = [hand EXCEPT ![c] = taken]
      /\ Buf!Drain(t) \/ (t \notin DOMAIN traces /\ UNCHANGED ring)
      /\ inserted' = inserted /\ sent' = sent /\ queued' = queued /\ evicted' = evicted
  BY <1>1 DEF DrainTrace, ghost
<1>3. /\ taken \subseteq Buf!Buffered /\ taken \subseteq Spans /\ Buf!Buffered' = Buf!Buffered \ taken
      /\ \A s \in Buf!Buffered : TraceOf[s] = t => s \in taken
  BY <1>1, <1>2, DrainTakes DEF Inv
<1>4. \A s \in taken : TraceOf[s] = t
  BY <1>1 DEF Inv, Grouped, Buf!SpansOf
<1>5. hand[c] = {} /\ hand'[c] = taken /\ \A d \in Consumers : d # c => hand'[d] = hand[d]
  BY <1>2 DEF Inv, Types, Walk
<1>6. Locates(Placement)
  BY PlacementLocates
<1>7. Placement' = [s \in Spans |-> IF s \in taken THEN c ELSE Placement[s]]
  <2>1. \A s \in taken : Placement'[s] = c
    <3>1. Locates(Placement)'
      BY PlacementLocates, PTL
    <3>2. QED
      BY <1>3, <1>5, <3>1 DEF Locates
  <2>2. \A s \in Spans \ taken :
          /\ s \in Buf!Buffered' <=> s \in Buf!Buffered
          /\ s \in sent' <=> s \in sent
          /\ s \in queued' <=> s \in queued
          /\ s \in evicted' <=> s \in evicted
          /\ s \in inserted' <=> s \in inserted
          /\ \A d \in Consumers : s \in hand'[d] <=> s \in hand[d]
    BY <1>2, <1>3, <1>5
  <2>3. taken \in SUBSET Spans
    BY <1>3
  <2>4. QED
    BY <2>1, <2>2, <2>3, PlacementMoved
<1>8. CASE taken = {}
  <2>1. Placement' = [s \in Spans |-> Placement[s]]
    BY <1>7, <1>8
  <2>2. Placement = [s \in Spans |-> Placement[s]]
    BY <1>6 DEF Locates
  <2>3. QED
    BY <2>1, <2>2
<1>9. CASE taken # {}
  <2>1. taken = {s \in Spans : Placement[s] = "buffered"} \cap {s \in Spans : TraceOf[s] \in {t}}
    BY <1>3, <1>4, <1>6 DEF Locates
  <2>2. {s \in Spans : Placement[s] = c} = {}
    BY <1>5, <1>6 DEF Locates
  <2>3. \E u \in TraceIDs :
           /\ {s \in Spans : Placement[s] = "buffered"} \cap {s \in Spans : TraceOf[s] \in {u}} # {}
           /\ Placement' = [s \in Spans |->
                              IF s \in {x \in Spans : Placement[x] = "buffered"} \cap {x \in Spans : TraceOf[x] \in {u}}
                              THEN c ELSE Placement[s]]
    BY <1>7, <1>9, <2>1, Zenon
  <2>4. End!Take(c)
    BY <2>2, <2>3 DEF End!Take, End!At, End!Of, End!Moved, Placement
  <2>5. QED
    BY <2>4
<1>10. QED
  BY <1>8, <1>9

\* A call that has sent, or queued, what it holds settles it.
LEMMA SendSettles ==
    ASSUME Inv, Inv', NEW c \in Consumers, SendOK(c) \/ SendFail(c)
    PROVE  End!Settle(c)
<1>1. /\ pc[c] = "send" /\ hand' = [hand EXCEPT ![c] = {}]
      /\ UNCHANGED ring /\ inserted' = inserted /\ evicted' = evicted
  BY DEF SendOK, SendFail
<1>2. PICK end \in {"sent", "queued"} :
           /\ sent' = sent \cup (IF end = "sent" THEN hand[c] ELSE {})
           /\ queued' = queued \cup (IF end = "queued" THEN hand[c] ELSE {})
  <2>1. CASE SendOK(c)
    <3>1. sent' = sent \cup (IF "sent" = "sent" THEN hand[c] ELSE {})
          /\ queued' = queued \cup (IF "sent" = "queued" THEN hand[c] ELSE {})
      BY <2>1 DEF SendOK
    <3>2. QED
      BY <3>1
  <2>2. CASE SendFail(c)
    <3>1. sent' = sent \cup (IF "queued" = "sent" THEN hand[c] ELSE {})
          /\ queued' = queued \cup (IF "queued" = "queued" THEN hand[c] ELSE {})
      BY <2>2 DEF SendFail, enqueueDLQ
    <3>2. QED
      BY <3>1
  <2>3. QED
    BY <2>1, <2>2
<1>3. hand[c] # {} /\ hand[c] \in SUBSET Spans /\ hand'[c] = {}
      /\ \A d \in Consumers : d # c => hand'[d] = hand[d]
  BY <1>1 DEF Inv, Types, Walk
<1>4. Buf!Buffered' = Buf!Buffered
  BY <1>1, RingUnchanged DEF Inv
<1>5. Locates(Placement)
  BY PlacementLocates
<1>6. PICK moved \in SUBSET Spans : moved = hand[c]
  BY <1>3
<1>7. moved = {s \in Spans : Placement[s] = c}
  BY <1>5, <1>6 DEF Locates
<1>8. Placement' = [s \in Spans |-> IF s \in moved THEN end ELSE Placement[s]]
  <2>1. \A s \in moved : Placement'[s] = end
    <3>1. Locates(Placement)'
      BY PlacementLocates, PTL
    <3>2. QED
      BY <1>2, <1>6, <3>1 DEF Locates
  <2>2. \A s \in Spans \ moved :
          /\ s \in Buf!Buffered' <=> s \in Buf!Buffered
          /\ s \in sent' <=> s \in sent
          /\ s \in queued' <=> s \in queued
          /\ s \in evicted' <=> s \in evicted
          /\ s \in inserted' <=> s \in inserted
          /\ \A d \in Consumers : s \in hand'[d] <=> s \in hand[d]
    BY <1>1, <1>2, <1>3, <1>4, <1>6
  <2>3. QED
    BY <2>1, <2>2, PlacementMoved
<1>9. /\ {s \in Spans : Placement[s] = c} # {}
      /\ \E e \in {"sent", "queued"} :
            Placement' = [s \in Spans |-> IF s \in {x \in Spans : Placement[x] = c} THEN e ELSE Placement[s]]
  BY <1>3, <1>6, <1>7, <1>8, Zenon
<1>10. QED
  BY <1>9 DEF End!Settle, End!At, End!Moved, Placement

\* Every step of Bridge is a step of Delivery or moves no span.
LEMMA DeliverySteps ==
    ASSUME Inv, Inv', [Next]_vars
    PROVE  End!Next \/ Placement' = Placement
<1>1. ASSUME NEW c \in Consumers, NEW t \in TraceIDs, InsertTrace(c, t) PROVE End!Next
  BY <1>1, InsertTraceBuffers DEF End!Next
<1>2. ASSUME NEW c \in Consumers, NEW t \in TraceIDs, DrainTrace(c, t) PROVE End!Next \/ Placement' = Placement
  BY <1>2, DrainTraceTakes DEF End!Next
<1>3. ASSUME NEW c \in Consumers, SendOK(c) \/ SendFail(c) PROVE End!Next
  BY <1>3, SendSettles DEF End!Next
<1>4. ASSUME PruneBuffer PROVE End!Next
  BY <1>4, PruneBufferDrops DEF End!Next
<1>5. ASSUME UNCHANGED ring, UNCHANGED <<hand, sent, queued, evicted>> PROVE Placement' = Placement
  BY <1>5, RingUnchanged, PlacementUnchanged DEF Inv
<1>6. ASSUME NEW c \in Consumers, NEW rss, Begin(c, rss) PROVE Placement' = Placement
  BY <1>5, <1>6 DEF Begin
<1>7. ASSUME NEW c \in Consumers, NEW s, SkipDuplicate(c, s) \/ ObserveSpan(c, s) PROVE Placement' = Placement
  BY <1>5, <1>7 DEF SkipDuplicate, ObserveSpan, ghost
<1>8. ASSUME NEW c \in Consumers, NEW fired, DecideSpan(c, fired) PROVE Placement' = Placement
  BY <1>5, <1>8 DEF DecideSpan
<1>9. ASSUME NEW c \in Consumers, NextResource(c) \/ Return(c) PROVE Placement' = Placement
  BY <1>5, <1>9 DEF NextResource, Return, ghost
<1>10. ASSUME PruneBreaker PROVE Placement' = Placement
  BY <1>5, <1>10 DEF PruneBreaker, calls, ghost
<1>11. ASSUME Clock PROVE Placement' = Placement
  <2>1. Buf!Advance /\ UNCHANGED <<hand, sent, queued, evicted>>
    BY <1>11 DEF Clock, calls, ghost
  <2>2. DOMAIN traces' = DOMAIN traces /\ \A u \in DOMAIN traces : traces'[u].spans = traces[u].spans
    BY <2>1, AdvanceEffect DEF Inv
  <2>3. Buf!Buffered' = Buf!Buffered
    BY <2>2 DEF Buf!Buffered
  <2>4. QED
    BY <2>1, <2>3, PlacementUnchanged
<1>12. ASSUME UNCHANGED vars PROVE Placement' = Placement
  BY <1>5, <1>12 DEF vars, calls, ghost
<1>13. QED
  BY <1>1, <1>2, <1>3, <1>4, <1>6, <1>7, <1>8, <1>9, <1>10, <1>11, <1>12 DEF Next

\* Bridge implements Delivery: over time a span is buffered with its trace, its
\* trace leaves the buffer as a whole and once, and the call that took it
\* forwards or queues all of it before it takes another.
THEOREM BridgeImplementsDelivery == Spec => ImplementsDelivery
<1>1. Init => End!Init
  <2>1. SUFFICES ASSUME Init PROVE End!Init
    OBVIOUS
  <2>2. Inv /\ inserted = {}
    BY <2>1, InitInv DEF Init
  <2>3. Locates(Placement)
    BY <2>2, PlacementLocates
  <2>4. Placement = [s \in Spans |-> "new"]
    BY <2>2, <2>3 DEF Locates
  <2>5. QED
    BY <2>4 DEF End!Init, Placement
<1>2. Inv /\ Inv' /\ [Next]_vars => End!Next \/ Placement' = Placement
  BY DeliverySteps
<1>3. Inv /\ Inv' /\ [Next]_vars => [End!Next]_Placement
  BY <1>2
<1>4. Spec => [][End!Next]_Placement
  BY <1>3, BridgeInvariant, PTL DEF Spec
<1>5. Spec => End!Init
  BY <1>1, PTL DEF Spec
<1>6. QED
  BY <1>4, <1>5, PTL DEF ImplementsDelivery, End!Spec, Placement
=============================================================================
