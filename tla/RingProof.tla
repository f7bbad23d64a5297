----------------------------- MODULE RingProof -----------------------------
(***************************************************************************)
(* Proofs about Ring, for any number of traces and spans, any cap and any  *)
(* window.                                                                 *)
(*                                                                         *)
(* The parts of the invariant hold each other up: evicting from the front  *)
(* of order takes whole traces out only if order lists every trace once,   *)
(* and the counter stays exact only if the spans of different traces are   *)
(* different (Apart), so that what is subtracted for a trace is what the   *)
(* buffer loses with it.                                                   *)
(***************************************************************************)
EXTENDS Ring, OrdersProof

-----------------------------------------------------------------------------
(***************************************************************************)
(* order.                                                                  *)
(***************************************************************************)

\* ord lists the traces in ids, each once.
Lists(ord, ids) == Listing(TraceIDs, ord, ids)

\* evictByTimeLocked keeps the list of the traces that stay.
LEMMA FilterLists ==
    ASSUME NEW ord, NEW ids, Lists(ord, ids), NEW keep
    PROVE  Lists(Filter(ord, keep), ids \cap keep)
BY FilterListing DEF Lists

\* Insert of a trace that is not buffered appends it.
LEMMA AppendLists ==
    ASSUME NEW ord, NEW ids, Lists(ord, ids), NEW t \in TraceIDs, t \notin ids
    PROVE  Lists(Append(ord, t), ids \cup {t})
BY AppendListing DEF Lists

\* evictByCountLocked takes traces from the front.
LEMMA TailLists ==
    ASSUME NEW ord, NEW ids, Lists(ord, ids), NEW k \in 0..Len(ord)
    PROVE  FirstIn(ord, k) \subseteq ids /\ Lists(SubSeq(ord, k + 1, Len(ord)), ids \ FirstIn(ord, k))
BY TailListing DEF Lists

\* removeFromOrderLocked takes out the one place where the trace is.
LEMMA RemoveLists ==
    ASSUME NEW ord, NEW ids, Lists(ord, ids), NEW t \in ids
    PROVE  Lists(removeFromOrderLocked(ord, t), ids \ {t})
BY RemoveListing DEF Lists, removeFromOrderLocked

-----------------------------------------------------------------------------
(***************************************************************************)
(* traces and count.                                                       *)
(***************************************************************************)
All(tr) == UNION {tr[t].spans : t \in DOMAIN tr}

\* No span is in two traces.
Apart(tr) == \A t, u \in DOMAIN tr : t # u => tr[t].spans \cap tr[u].spans = {}

Entries(tr) == DOMAIN tr \subseteq TraceIDs /\ \A t \in DOMAIN tr : tr[t] \in TraceEntry

\* The three fields fit together.
RingOK(tr, ord, n) ==
    /\ Entries(tr) /\ Apart(tr)
    /\ Lists(ord, DOMAIN tr)
    /\ n = Cardinality(All(tr))

Inv == RingOK(traces, order, count) /\ count <= MaxSpans

\* The spans of some traces are spans of the model, and finitely many.
LEMMA SpansFinite ==
    ASSUME NEW tr, Entries(tr), NEW some
    PROVE  /\ All(tr) \subseteq Spans /\ SpansOf(tr, some) \subseteq All(tr)
           /\ IsFiniteSet(All(tr)) /\ IsFiniteSet(SpansOf(tr, some))
           /\ Cardinality(All(tr)) \in Nat /\ Cardinality(SpansOf(tr, some)) \in Nat
<1>1. All(tr) \subseteq Spans
  BY DEF All, Entries, TraceEntry
<1>2. SpansOf(tr, some) \subseteq All(tr)
  BY DEF SpansOf, All
<1>3. IsFiniteSet(All(tr)) /\ IsFiniteSet(SpansOf(tr, some))
  BY <1>1, <1>2, SpansAssumption, FS_Subset
<1>4. QED
  BY <1>1, <1>2, <1>3, FS_CardinalityType

\* A buffer without some of its traces has lost exactly their spans.
LEMMA WithoutSome ==
    ASSUME NEW tr, Entries(tr), Apart(tr), NEW gone
    PROVE  /\ Entries(Without(tr, gone)) /\ Apart(Without(tr, gone))
           /\ DOMAIN Without(tr, gone) = DOMAIN tr \ gone
           /\ All(Without(tr, gone)) = All(tr) \ SpansOf(tr, gone)
           /\ Cardinality(All(Without(tr, gone))) = Cardinality(All(tr)) - Cardinality(SpansOf(tr, gone))
<1>1. PICK w : w = Without(tr, gone)
  OBVIOUS
<1>2. DOMAIN w = DOMAIN tr \ gone /\ \A t \in DOMAIN w : w[t] = tr[t]
  BY <1>1 DEF Without
<1>3. Entries(w)
  BY <1>2 DEF Entries
<1>4. Apart(w)
  BY <1>2 DEF Apart
<1>5. All(w) = All(tr) \ SpansOf(tr, gone)
  <2>1. ASSUME NEW x \in All(w) PROVE x \in All(tr) \ SpansOf(tr, gone)
    <3>1. PICK t \in DOMAIN w : x \in tr[t].spans
      BY <1>2 DEF All
    <3>2. x \in All(tr)
      BY <1>2, <3>1 DEF All
    <3>3. x \notin SpansOf(tr, gone)
      BY <1>2, <3>1 DEF SpansOf, Apart
    <3>4. QED
      BY <3>2, <3>3
  <2>2. ASSUME NEW x \in All(tr) \ SpansOf(tr, gone) PROVE x \in All(w)
    <3>1. PICK t \in DOMAIN tr : x \in tr[t].spans
      BY DEF All
    <3>2. t \notin gone
      BY <3>1 DEF SpansOf
    <3>3. t \in DOMAIN w /\ w[t] = tr[t]
      BY <1>2, <3>2
    <3>4. QED
      BY <3>1, <3>3 DEF All
  <2>3. QED
    BY <2>1, <2>2
<1>6. Cardinality(All(w)) = Cardinality(All(tr)) - Cardinality(SpansOf(tr, gone))
  <2>1. IsFiniteSet(All(tr)) /\ All(tr) \cap SpansOf(tr, gone) = SpansOf(tr, gone)
    BY SpansFinite
  <2>2. Cardinality(All(tr) \ SpansOf(tr, gone))
          = Cardinality(All(tr)) - Cardinality(All(tr) \cap SpansOf(tr, gone))
    BY <2>1, FS_Difference
  <2>3. QED
    BY <1>5, <2>1, <2>2
<1>7. QED
  BY <1>1, <1>2, <1>3, <1>4, <1>5, <1>6

\* Evicting or draining traces, their places in order and their number of spans
\* keeps the fields together.
LEMMA EvictOK ==
    ASSUME NEW tr, NEW ord, NEW n, RingOK(tr, ord, n), NEW gone,
           NEW ord2, Lists(ord2, DOMAIN tr \ gone)
    PROVE  /\ RingOK(Without(tr, gone), ord2, n - Cardinality(SpansOf(tr, gone)))
           /\ n - Cardinality(SpansOf(tr, gone)) \in Nat
<1>1. Entries(tr) /\ Apart(tr) /\ n = Cardinality(All(tr))
  BY DEF RingOK
<1>2. PICK w : w = Without(tr, gone)
  OBVIOUS
<1>3. /\ Entries(w) /\ Apart(w) /\ DOMAIN w = DOMAIN tr \ gone
      /\ Cardinality(All(w)) = n - Cardinality(SpansOf(tr, gone))
  BY <1>1, <1>2, WithoutSome
<1>4. Cardinality(All(w)) \in Nat
  BY <1>3, SpansFinite
<1>5. QED
  BY <1>2, <1>3, <1>4 DEF RingOK

\* The traces evictByTimeLocked deletes are all that are stale: order misses none.
LEMMA ExpiredOK ==
    ASSUME NEW tr, NEW ord, NEW n, RingOK(tr, ord, n)
    PROVE  /\ RingOK(Without(tr, ExpiredIn(tr, ord)), OrderAfterTime(tr, ord), CountAfterTime(tr, ord, n))
           /\ ExpiredIn(tr, ord) = {t \in DOMAIN tr : Stale(tr[t])}
<1>1. Lists(ord, DOMAIN tr) /\ Members(ord) = DOMAIN tr
  BY DEF RingOK, Lists, Listing
<1>2. PICK gone : gone = ExpiredIn(tr, ord)
  OBVIOUS
<1>3. DOMAIN tr \cap (DOMAIN tr \ gone) = DOMAIN tr \ gone
  OBVIOUS
<1>4. Lists(Filter(ord, DOMAIN tr \ gone), DOMAIN tr \cap (DOMAIN tr \ gone))
  BY <1>1, FilterLists
<1>5. Lists(OrderAfterTime(tr, ord), DOMAIN tr \ gone)
  BY <1>2, <1>3, <1>4 DEF OrderAfterTime
<1>6. /\ RingOK(Without(tr, gone), OrderAfterTime(tr, ord), n - Cardinality(SpansOf(tr, gone)))
      /\ n - Cardinality(SpansOf(tr, gone)) \in Nat
  BY <1>5, EvictOK
<1>7. CountAfterTime(tr, ord, n) = n - Cardinality(SpansOf(tr, gone))
  BY <1>2, <1>6 DEF CountAfterTime, Clamp
<1>8. QED
  BY <1>1, <1>2, <1>6, <1>7 DEF ExpiredIn

\* evictByCountLocked stops at the first trace after which the count is within
\* the cap, or when there is no trace left.
LEMMA SurplusLeast ==
    ASSUME NEW tr, NEW ord \in Seq(TraceIDs), NEW n
    PROVE  LET k == Surplus(tr, ord, n)
           IN  /\ k \in 0..Len(ord)
               /\ k = Len(ord) \/ Fits(tr, ord, n, k)
               /\ \A j \in 0..(k - 1) : ~Fits(tr, ord, n, j)
<1> DEFINE T == {k \in 0..Len(ord) : k = Len(ord) \/ Fits(tr, ord, n, k)}
<1>1. T \in SUBSET Nat /\ Len(ord) \in T /\ Len(ord) \in Nat
  OBVIOUS
<1>2. PICK m \in T : \A y \in T : m <= y
  BY <1>1, LeastNumber
<1>3. m \in 0..Len(ord) /\ (m = Len(ord) \/ Fits(tr, ord, n, m))
  OBVIOUS
<1>4. \A j \in 0..(m - 1) : ~Fits(tr, ord, n, j)
  <2>1. SUFFICES ASSUME NEW j \in 0..(m - 1), Fits(tr, ord, n, j) PROVE FALSE
    OBVIOUS
  <2>2. j \in 0..Len(ord) /\ ~(m <= j)
    BY <1>1, <1>3
  <2>3. j \in T
    BY <2>1, <2>2
  <2>4. QED
    BY <1>2, <2>2, <2>3
<1>5. QED
  BY <1>3, <1>4, Zenon DEF Surplus

\* After it the fields fit together and the cap holds.
LEMMA SurplusOK ==
    ASSUME NEW tr, NEW ord, NEW n, RingOK(tr, ord, n), NEW k, k = Surplus(tr, ord, n)
    PROVE  /\ RingOK(Without(tr, FirstIn(ord, k)), SubSeq(ord, k + 1, Len(ord)), CountAfterSurplus(tr, ord, n, k))
           /\ CountAfterSurplus(tr, ord, n, k) <= MaxSpans
<1>1. Lists(ord, DOMAIN tr) /\ ord \in Seq(TraceIDs) /\ Members(ord) = DOMAIN tr
  BY DEF RingOK, Lists, Listing
<1>2. k \in 0..Len(ord) /\ (k = Len(ord) \/ Fits(tr, ord, n, k))
  BY <1>1, SurplusLeast
<1>3. Lists(SubSeq(ord, k + 1, Len(ord)), DOMAIN tr \ FirstIn(ord, k))
  BY <1>1, <1>2, TailLists
<1>4. RingOK(Without(tr, FirstIn(ord, k)), SubSeq(ord, k + 1, Len(ord)), CountAfterSurplus(tr, ord, n, k))
  BY <1>3, EvictOK DEF CountAfterSurplus
<1>5. CASE Fits(tr, ord, n, k)
  BY <1>4, <1>5 DEF Fits, CountAfterSurplus
<1>6. CASE k = Len(ord)
  <2>1. FirstIn(ord, k) = DOMAIN tr
    BY <1>1, <1>6, Places DEF FirstIn, Members
  <2>2. SpansOf(tr, DOMAIN tr) = All(tr)
    BY DEF SpansOf, All
  <2>3. n = Cardinality(All(tr)) /\ Cardinality(All(tr)) \in Nat
    BY SpansFinite DEF RingOK
  <2>4. CountAfterSurplus(tr, ord, n, k) = 0
    BY <2>1, <2>2, <2>3 DEF CountAfterSurplus
  <2>5. QED
    BY <1>4, <2>4, MaxSpansAssumption
<1>7. QED
  BY <1>2, <1>4, <1>5, <1>6

-----------------------------------------------------------------------------
(***************************************************************************)
(* The methods.                                                            *)
(***************************************************************************)

\* The fields after the append of Insert and before it evicts.
With(t, new) ==
    [u \in DOMAIN traces \cup {t} |->
        IF u = t THEN [spans |-> Appended(IF t \in DOMAIN traces THEN traces[t].spans ELSE {}, new),
                       age |-> 0]
                 ELSE traces[u]]
OrderWith(t) == IF t \in DOMAIN traces THEN order ELSE Append(order, t)

\* Insert in three stages: append, evict by time, evict by count.
LEMMA InsertStages ==
    ASSUME NEW t, NEW new, Insert(t, new)
    PROVE  \E tr1, ord1, n1, tr2, ord2, n2, k :
             /\ tr1 = With(t, new) /\ ord1 = OrderWith(t) /\ n1 = count + Cardinality(new)
             /\ tr2 = Without(tr1, ExpiredIn(tr1, ord1))
             /\ ord2 = OrderAfterTime(tr1, ord1) /\ n2 = CountAfterTime(tr1, ord1, n1)
             /\ k = Surplus(tr2, ord2, n2)
             /\ traces' = Without(tr2, FirstIn(ord2, k))
             /\ order' = SubSeq(ord2, k + 1, Len(ord2))
             /\ count' = CountAfterSurplus(tr2, ord2, n2, k)
BY Zenon DEF Insert, With, OrderWith

\* tr is traces with the spans new appended to trace t, which is fresh again.
Extended(tr, t, new) ==
    /\ DOMAIN tr = DOMAIN traces \cup {t}
    /\ \A u \in DOMAIN traces : u # t => tr[u] = traces[u]
    /\ tr[t].age = 0 /\ tr[t].spans = new \cup SpansOf(traces, {t})
    /\ Entries(tr)

\* The entries after the append.
LEMMA WithEntries ==
    ASSUME Inv, NEW t \in TraceIDs, NEW new \in SUBSET (Spans \ Buffered), NEW tr, tr = With(t, new)
    PROVE  Extended(tr, t, new)
<1>1. DOMAIN tr = DOMAIN traces \cup {t} /\ \A u \in DOMAIN traces : u # t => tr[u] = traces[u]
  BY DEF With
<1>2. tr[t] = [spans |-> Appended(IF t \in DOMAIN traces THEN traces[t].spans ELSE {}, new), age |-> 0]
  BY DEF With
<1>3. SpansOf(traces, {t}) = IF t \in DOMAIN traces THEN traces[t].spans ELSE {}
  BY DEF SpansOf
<1>4. tr[t].age = 0 /\ tr[t].spans = new \cup SpansOf(traces, {t})
  BY <1>2, <1>3 DEF Appended
<1>5. Entries(traces)
  BY DEF Inv, RingOK
<1>6. tr[t] \in TraceEntry
  <2>1. SpansOf(traces, {t}) \subseteq Spans
    BY <1>5, SpansFinite
  <2>2. 0 \in 0..(Window + 1)
    BY WindowAssumption
  <2>3. QED
    BY <1>2, <1>3, <2>1, <2>2 DEF Appended, TraceEntry
<1>7. Entries(tr)
  BY <1>1, <1>5, <1>6 DEF Entries
<1>8. QED
  BY <1>1, <1>4, <1>7 DEF Extended

\* The append keeps the fields together.
LEMMA WithOK ==
    ASSUME Inv, NEW t \in TraceIDs, NEW new \in SUBSET (Spans \ Buffered)
    PROVE  RingOK(With(t, new), OrderWith(t), count + Cardinality(new))
<1>1. PICK tr : tr = With(t, new)
  OBVIOUS
<1>2. /\ DOMAIN tr = DOMAIN traces \cup {t}
      /\ \A u \in DOMAIN traces : u # t => tr[u] = traces[u]
      /\ tr[t].spans = new \cup SpansOf(traces, {t}) /\ Entries(tr)
  BY <1>1, WithEntries DEF Extended
<1>3. Entries(traces) /\ Apart(traces) /\ Lists(order, DOMAIN traces) /\ count = Cardinality(All(traces))
  BY DEF Inv, RingOK
<1>4. Buffered = All(traces) /\ new \cap All(traces) = {}
  BY DEF Buffered, All
<1>5. \A u \in DOMAIN traces : traces[u].spans \subseteq All(traces)
  BY DEF All
<1>6. Apart(tr)
  <2>1. \A u \in DOMAIN traces : u # t => tr[t].spans \cap traces[u].spans = {}
    BY <1>2, <1>3, <1>4, <1>5 DEF SpansOf, Apart
  <2>2. QED
    BY <1>2, <1>3, <2>1 DEF Apart
<1>7. Lists(OrderWith(t), DOMAIN tr)
  <2>1. CASE t \in DOMAIN traces
    <3>1. DOMAIN tr = DOMAIN traces
      BY <1>2, <2>1
    <3>2. QED
      BY <1>3, <2>1, <3>1 DEF OrderWith
  <2>2. CASE t \notin DOMAIN traces
    BY <1>2, <1>3, <2>2, AppendLists DEF OrderWith
  <2>3. QED
    BY <2>1, <2>2
<1>8. All(tr) = All(traces) \cup new
  <2>1. ASSUME NEW x \in All(tr) PROVE x \in All(traces) \cup new
    <3>1. PICK u \in DOMAIN tr : x \in tr[u].spans
      BY DEF All
    <3>2. CASE u = t
      BY <1>2, <1>3, <3>1, <3>2, SpansFinite
    <3>3. CASE u # t
      BY <1>2, <1>5, <3>1, <3>3
    <3>4. QED
      BY <3>2, <3>3
  <2>2. ASSUME NEW x \in new PROVE x \in All(tr)
    BY <1>2 DEF All
  <2>3. ASSUME NEW x \in All(traces) PROVE x \in All(tr)
    <3>1. PICK u \in DOMAIN traces : x \in traces[u].spans
      BY DEF All
    <3>2. x \in tr[u].spans /\ u \in DOMAIN tr
      BY <1>2, <3>1 DEF SpansOf
    <3>3. QED
      BY <3>2 DEF All
  <2>4. QED
    BY <2>1, <2>2, <2>3
<1>9. Cardinality(All(tr)) = count + Cardinality(new)
  <2>1. IsFiniteSet(All(traces)) /\ IsFiniteSet(new)
    BY <1>3, SpansFinite, SpansAssumption, FS_Subset
  <2>2. Cardinality(All(traces) \cup new)
          = Cardinality(All(traces)) + Cardinality(new) - Cardinality(All(traces) \cap new)
    BY <2>1, FS_Union
  <2>3. Cardinality(All(traces) \cap new) = 0
    BY <1>4, FS_EmptySet
  <2>4. Cardinality(All(traces)) \in Nat /\ Cardinality(new) \in Nat
    BY <2>1, FS_CardinalityType
  <2>5. QED
    BY <1>3, <1>8, <2>2, <2>3, <2>4
<1>10. QED
  BY <1>1, <1>2, <1>6, <1>7, <1>9 DEF RingOK

\* Insert keeps the invariant.
LEMMA InsertKeepsInv ==
    ASSUME Inv, NEW t \in TraceIDs, NEW new \in SUBSET (Spans \ Buffered), Insert(t, new)
    PROVE  Inv'
<1>1. PICK tr1, ord1, n1, tr2, ord2, n2, k :
           /\ tr1 = With(t, new) /\ ord1 = OrderWith(t) /\ n1 = count + Cardinality(new)
           /\ tr2 = Without(tr1, ExpiredIn(tr1, ord1))
           /\ ord2 = OrderAfterTime(tr1, ord1) /\ n2 = CountAfterTime(tr1, ord1, n1)
           /\ k = Surplus(tr2, ord2, n2)
           /\ traces' = Without(tr2, FirstIn(ord2, k))
           /\ order' = SubSeq(ord2, k + 1, Len(ord2))
           /\ count' = CountAfterSurplus(tr2, ord2, n2, k)
  BY InsertStages
<1>2. RingOK(tr1, ord1, n1)
  BY <1>1, WithOK
<1>3. RingOK(tr2, ord2, n2)
  BY <1>1, <1>2, ExpiredOK
<1>4. RingOK(traces', order', count') /\ count' <= MaxSpans
  BY <1>1, <1>3, SurplusOK
<1>5. QED
  BY <1>4 DEF Inv, RingOK, Entries, Apart, Lists, Listing, All

\* Drain keeps the invariant.
LEMMA DrainKeepsInv ==
    ASSUME Inv, NEW t \in TraceIDs, Drain(t)
    PROVE  Inv'
<1>1. RingOK(traces, order, count) /\ count <= MaxSpans /\ t \in DOMAIN traces
  BY DEF Inv, Drain
<1>2. SpansOf(traces, {t}) = traces[t].spans
  BY <1>1 DEF SpansOf
<1>3. Lists(removeFromOrderLocked(order, t), DOMAIN traces \ {t})
  BY <1>1, RemoveLists DEF RingOK
<1>4. /\ RingOK(Without(traces, {t}), removeFromOrderLocked(order, t), count - Cardinality(SpansOf(traces, {t})))
      /\ count - Cardinality(SpansOf(traces, {t})) \in Nat
  BY <1>1, <1>3, EvictOK
<1>5. count' = count - Cardinality(SpansOf(traces, {t}))
  BY <1>2, <1>4 DEF Drain, Clamp
<1>6. RingOK(traces', order', count')
  BY <1>4, <1>5 DEF Drain
<1>7. count' <= MaxSpans
  <2>1. Cardinality(SpansOf(traces, {t})) \in Nat /\ count \in Nat
    BY <1>1, SpansFinite DEF RingOK
  <2>2. QED
    BY <1>1, <1>5, <2>1, MaxSpansAssumption
<1>8. QED
  BY <1>6, <1>7 DEF Inv, RingOK, Entries, Apart, Lists, Listing, All

\* PruneByTime keeps the invariant.
LEMMA PruneKeepsInv ==
    ASSUME Inv, PruneByTime
    PROVE  Inv'
<1>1. RingOK(traces, order, count) /\ count <= MaxSpans
  BY DEF Inv
<1>2. RingOK(traces', order', count')
  BY <1>1, ExpiredOK DEF PruneByTime
<1>3. count' <= MaxSpans
  <2>1. /\ traces' = Without(traces, ExpiredIn(traces, order))
        /\ count' = Cardinality(All(traces'))
        /\ count = Cardinality(All(traces)) /\ Entries(traces) /\ Apart(traces)
    BY <1>1, <1>2 DEF PruneByTime, RingOK
  <2>2. PICK gone : gone = ExpiredIn(traces, order)
    OBVIOUS
  <2>3. count' = count - Cardinality(SpansOf(traces, gone))
    BY <2>1, <2>2, WithoutSome
  <2>4. Cardinality(SpansOf(traces, gone)) \in Nat /\ count \in Nat
    BY <2>1, SpansFinite
  <2>5. QED
    BY <1>1, <2>3, <2>4, MaxSpansAssumption
<1>4. QED
  BY <1>2, <1>3 DEF Inv, RingOK, Entries, Apart, Lists, Listing, All

\* The clock changes only the ages.
LEMMA AdvanceSpans ==
    ASSUME Entries(traces), Advance
    PROVE  /\ DOMAIN traces' = DOMAIN traces /\ order' = order /\ count' = count
           /\ \A t \in DOMAIN traces : traces'[t].spans = traces[t].spans /\ traces'[t] \in TraceEntry
<1>1. traces' = [t \in DOMAIN traces |-> [traces[t] EXCEPT !.age = Older(@)]]
  BY DEF Advance
<1>2. \A t \in DOMAIN traces : traces[t] \in TraceEntry
  BY DEF Entries
<1>3. \A e \in TraceEntry : [e EXCEPT !.age = Older(@)] \in TraceEntry /\ [e EXCEPT !.age = Older(@)].spans = e.spans
  <2>1. SUFFICES ASSUME NEW e \in [spans : SUBSET Spans, age : 0..(Window + 1)]
                 PROVE  /\ [e EXCEPT !.age = Older(@)] \in [spans : SUBSET Spans, age : 0..(Window + 1)]
                        /\ [e EXCEPT !.age = Older(@)].spans = e.spans
    BY DEF TraceEntry
  <2>2. Older(e.age) \in 0..(Window + 1)
    BY WindowAssumption DEF Older
  <2>3. QED
    BY <2>2
<1>4. QED
  BY <1>1, <1>2, <1>3 DEF Advance

\* The clock keeps the invariant.
LEMMA AdvanceKeepsInv ==
    ASSUME Inv, Advance
    PROVE  Inv'
<1>1. Entries(traces) /\ Apart(traces) /\ Lists(order, DOMAIN traces) /\ count = Cardinality(All(traces))
      /\ count <= MaxSpans
  BY DEF Inv, RingOK
<1>2. /\ DOMAIN traces' = DOMAIN traces /\ order' = order /\ count' = count
      /\ \A t \in DOMAIN traces : traces'[t].spans = traces[t].spans /\ traces'[t] \in TraceEntry
  BY <1>1, AdvanceSpans
<1>3. Entries(traces') /\ Apart(traces')
  BY <1>1, <1>2 DEF Entries, Apart
<1>4. All(traces') = All(traces)
  BY <1>2 DEF All
<1>5. RingOK(traces', order', count') /\ count' <= MaxSpans
  BY <1>1, <1>2, <1>3, <1>4 DEF RingOK
<1>6. QED
  BY <1>5 DEF Inv, RingOK, Entries, Apart, Lists, Listing, All

-----------------------------------------------------------------------------
(***************************************************************************)
(* The theorems.                                                           *)
(***************************************************************************)

\* New makes an empty buffer.
LEMMA InitInv ==
    ASSUME Init
    PROVE  Inv
<1>1. DOMAIN traces = {} /\ order = << >> /\ count = 0
  BY DEF Init
<1>2. Entries(traces) /\ Apart(traces)
  BY <1>1 DEF Entries, Apart
<1>3. Lists(order, DOMAIN traces)
  BY <1>1 DEF Lists, Listing, Members
<1>4. All(traces) = {}
  BY <1>1 DEF All
<1>5. Cardinality(All(traces)) = 0
  BY <1>4, FS_EmptySet
<1>6. QED
  BY <1>1, <1>2, <1>3, <1>5, MaxSpansAssumption DEF Inv, RingOK

\* Every step keeps the invariant.
LEMMA NextInv ==
    ASSUME Inv, [Next]_vars
    PROVE  Inv'
<1>1. ASSUME NEW t \in TraceIDs, NEW new \in (SUBSET (Spans \ Buffered)) \ {{}}, Insert(t, new) PROVE Inv'
  BY <1>1, InsertKeepsInv
<1>2. ASSUME NEW t \in TraceIDs, Drain(t) PROVE Inv'
  BY <1>2, DrainKeepsInv
<1>3. CASE PruneByTime
  BY <1>3, PruneKeepsInv
<1>4. CASE Advance
  BY <1>4, AdvanceKeepsInv
<1>5. CASE UNCHANGED vars
  BY <1>5 DEF vars, Inv, RingOK, Entries, Apart, Lists, Listing, All
<1>6. QED
  BY <1>1, <1>2, <1>3, <1>4, <1>5 DEF Next

\* The three fields of the Ring fit together and the cap holds, after any mix of
\* inserts, drains, prunes and ticks of the clock.
THEOREM RingInvariant == Spec => []Inv
BY InitInv, NextInv, PTL DEF Spec

\* The fields have their types; in particular the counter is never negative, so
\* the clamps of evictByTimeLocked and Drain never hide a miscount.
THEOREM RingTypes == Spec => []TypeOK
<1>1. Inv => TypeOK
  <2>1. SUFFICES ASSUME Inv PROVE TypeOK
    OBVIOUS
  <2>2. Entries(traces) /\ Lists(order, DOMAIN traces) /\ count = Cardinality(All(traces))
    BY <2>1 DEF Inv, RingOK
  <2>3. count \in Nat
    BY <2>2, SpansFinite
  <2>4. QED
    BY <2>2, <2>3 DEF TypeOK, Entries, Lists, Listing
<1>2. QED
  BY <1>1, RingInvariant, PTL

\* order lists every buffered trace exactly once.
THEOREM OrderIsExact == Spec => []OrderMatchesTraces
<1>1. Inv => OrderMatchesTraces
  BY DEF Inv, RingOK, Lists, Listing, OrderMatchesTraces
<1>2. QED
  BY <1>1, RingInvariant, PTL

\* The counter is the number of buffered spans.
THEOREM CounterIsExact == Spec => []CountExact
<1>1. Inv => CountExact
  BY DEF Inv, RingOK, CountExact, Buffered, All
<1>2. QED
  BY <1>1, RingInvariant, PTL

\* The buffer never holds more than MaxSpans spans.
THEOREM TheCapHolds == Spec => []CapHolds
<1>1. Inv => CapHolds
  BY DEF Inv, RingOK, CapHolds, Buffered, All
<1>2. QED
  BY <1>1, RingInvariant, PTL

\* A trace that survives a step keeps its spans.
LEMMA StepKeepsSpans ==
    ASSUME Inv, [Next]_vars
    PROVE  \A t \in DOMAIN traces \cap DOMAIN traces' : traces[t].spans \subseteq traces'[t].spans
<1>1. \A tr, gone : DOMAIN Without(tr, gone) \subseteq DOMAIN tr
                    /\ \A u \in DOMAIN Without(tr, gone) : Without(tr, gone)[u] = tr[u]
  BY DEF Without
<1>2. ASSUME NEW u \in TraceIDs, NEW new \in (SUBSET (Spans \ Buffered)) \ {{}}, Insert(u, new)
      PROVE  \A t \in DOMAIN traces \cap DOMAIN traces' : traces[t].spans \subseteq traces'[t].spans
  <2>1. PICK tr1, gone, late : tr1 = With(u, new) /\ traces' = Without(Without(tr1, gone), late)
    BY <1>2, InsertStages
  <2>2. /\ \A t \in DOMAIN traces : t # u => tr1[t] = traces[t]
        /\ tr1[u].spans = new \cup SpansOf(traces, {u})
    <3>1. new \in SUBSET (Spans \ Buffered)
      OBVIOUS
    <3>2. QED
      <4>1. tr1 = With(u, new)
        BY <2>1
      <4>2. Extended(tr1, u, new)
        BY <3>1, <4>1, WithEntries
      <4>3. QED
        BY <4>2 DEF Extended
  <2>3. \A t \in DOMAIN traces : traces[t].spans \subseteq tr1[t].spans
    BY <2>2 DEF SpansOf
  <2>4. QED
    BY <1>1, <2>1, <2>3
<1>3. ASSUME NEW u \in TraceIDs, Drain(u)
      PROVE  \A t \in DOMAIN traces \cap DOMAIN traces' : traces[t].spans \subseteq traces'[t].spans
  BY <1>1, <1>3 DEF Drain
<1>4. CASE PruneByTime
  BY <1>1, <1>4 DEF PruneByTime
<1>5. CASE Advance
  BY <1>5, AdvanceSpans DEF Inv, RingOK
<1>6. CASE UNCHANGED vars
  BY <1>6 DEF vars
<1>7. QED
  BY <1>2, <1>3, <1>4, <1>5, <1>6 DEF Next

\* The Ring drops a trace as a whole or not at all.
THEOREM NoHalfTrace == Spec => DroppedWhole
BY RingInvariant, StepKeepsSpans, PTL DEF Spec, DroppedWhole

-----------------------------------------------------------------------------
(***************************************************************************)
(* What evictByCountLocked takes: from the front, and no more than needed. *)
(***************************************************************************)

\* With the last trace it took the cap would be exceeded.
LEMMA LastOut ==
    ASSUME NEW tr, NEW ord, NEW n, RingOK(tr, ord, n), NEW k, k = Surplus(tr, ord, n), k # 0
    PROVE  /\ k \in 1..Len(ord)
           /\ CountAfterSurplus(tr, ord, n, k) + Cardinality(tr[ord[k]].spans) > MaxSpans
<1>1. /\ Entries(tr) /\ Apart(tr) /\ n = Cardinality(All(tr))
      /\ ord \in Seq(TraceIDs) /\ Members(ord) = DOMAIN tr
      /\ \A i, j \in DOMAIN ord : ord[i] = ord[j] => i = j
  BY DEF RingOK, Lists, Listing
<1>2. k \in 0..Len(ord) /\ \A j \in 0..(k - 1) : ~Fits(tr, ord, n, j)
  BY <1>1, SurplusLeast
<1>3. Len(ord) \in Nat /\ DOMAIN ord = 1..Len(ord)
  BY <1>1, Places
<1>4. k \in 1..Len(ord) /\ k - 1 \in 0..(k - 1) /\ 1..(k - 1) \subseteq 1..Len(ord)
      /\ 1..k = 1..(k - 1) \cup {k} /\ k \notin 1..(k - 1)
  BY <1>2, <1>3
<1>5. PICK u : u = ord[k]
  OBVIOUS
<1>6. u \in DOMAIN tr
  BY <1>1, <1>3, <1>4, <1>5 DEF Members
<1>7. PICK A : A = SpansOf(tr, FirstIn(ord, k - 1))
  OBVIOUS
<1>8. PICK B : B = tr[u].spans
  OBVIOUS
<1>9. FirstIn(ord, k) = FirstIn(ord, k - 1) \cup {u}
  BY <1>4, <1>5 DEF FirstIn
<1>10. SpansOf(tr, FirstIn(ord, k)) = A \cup B
  BY <1>6, <1>7, <1>8, <1>9 DEF SpansOf
<1>11. u \notin FirstIn(ord, k - 1)
  BY <1>1, <1>3, <1>4, <1>5 DEF FirstIn
<1>12. A \cap B = {}
  BY <1>1, <1>6, <1>7, <1>8, <1>11 DEF SpansOf, Apart
<1>13. SpansOf(tr, {u}) = B
  BY <1>6, <1>8 DEF SpansOf
<1>14. IsFiniteSet(A) /\ IsFiniteSet(B) /\ n \in Nat
  BY <1>1, <1>7, <1>13, SpansFinite
<1>15. Cardinality(A) \in Nat /\ Cardinality(B) \in Nat
  BY <1>14, FS_CardinalityType
<1>16. Cardinality(A \cup B) = Cardinality(A) + Cardinality(B) - Cardinality(A \cap B)
  BY <1>14, FS_Union
<1>17. Cardinality(A \cap B) = 0
  BY <1>12, FS_EmptySet
<1>18. ~(n - Cardinality(A) <= MaxSpans)
  BY <1>2, <1>4, <1>7 DEF Fits
<1>19. CountAfterSurplus(tr, ord, n, k) = n - Cardinality(A \cup B)
  BY <1>10 DEF CountAfterSurplus
<1>20. QED
  BY <1>4, <1>5, <1>8, <1>14, <1>15, <1>16, <1>17, <1>18, <1>19, MaxSpansAssumption

\* order before the evictions, place by place.
LEMMA OrderWithPlaces ==
    ASSUME Inv, NEW t \in TraceIDs, NEW ord, ord = OrderWith(t)
    PROVE  /\ Len(order) \in Nat /\ DOMAIN order = 1..Len(order)
           /\ Len(ord) \in Nat /\ DOMAIN ord = 1..Len(ord) /\ Len(order) <= Len(ord)
           /\ \A i \in 1..Len(order) : ord[i] = order[i]
           /\ \A i \in 1..Len(ord) : i \notin 1..Len(order) => ord[i] = t /\ t \notin DOMAIN traces
           /\ Members(order) = DOMAIN traces
<1>1. order \in Seq(TraceIDs) /\ Members(order) = DOMAIN traces
  BY DEF Inv, RingOK, Lists, Listing
<1>2. Len(order) \in Nat /\ DOMAIN order = 1..Len(order)
  BY <1>1, Places
<1>3. CASE t \in DOMAIN traces
  BY <1>1, <1>2, <1>3 DEF OrderWith
<1>4. CASE t \notin DOMAIN traces
  <2>1. ord = Append(order, t)
    BY <1>4 DEF OrderWith
  <2>2. /\ ord \in Seq(TraceIDs) /\ DOMAIN ord = 1..(Len(order) + 1)
        /\ ord[Len(order) + 1] = t /\ \A i \in 1..Len(order) : ord[i] = order[i]
    BY <1>1, <2>1, AppendPlaces
  <2>3. Len(ord) = Len(order) + 1
    BY <1>1, <2>1
  <2>4. \A i \in 1..(Len(order) + 1) : i \notin 1..Len(order) => i = Len(order) + 1
    BY <1>2
  <2>5. QED
    BY <1>1, <1>2, <1>4, <2>2, <2>3, <2>4
<1>5. QED
  BY <1>3, <1>4

\* A trace an Insert forced out, although it was not stale, was at a place of
\* order that the eviction by time kept and the eviction by count took.
LEMMA ForcedOut ==
    ASSUME Inv, NEW t \in TraceIDs, NEW new \in SUBSET (Spans \ Buffered), Insert(t, new)
    PROVE  \E k, pos, ord2, tr2, n2 :
             /\ k \in Nat /\ RingOK(tr2, ord2, n2) /\ k = Surplus(tr2, ord2, n2) /\ k \in 0..Len(ord2)
             /\ count' = CountAfterSurplus(tr2, ord2, n2, k)
             /\ DOMAIN traces' = DOMAIN tr2 \ FirstIn(ord2, k)
             /\ DOMAIN tr2 = {u \in DOMAIN traces \cup {t} : u = t \/ ~Stale(traces[u])}
             /\ \A u \in DOMAIN tr2 : tr2[u].spans = (IF u = t THEN new ELSE {}) \cup SpansOf(traces, {u})
             /\ Picked(ord2, pos, OrderWith(t), Len(OrderWith(t)), DOMAIN tr2)
<1>1. PICK tr1, ord1, n1, tr2, ord2, n2, k :
           /\ tr1 = With(t, new) /\ ord1 = OrderWith(t) /\ n1 = count + Cardinality(new)
           /\ tr2 = Without(tr1, ExpiredIn(tr1, ord1))
           /\ ord2 = OrderAfterTime(tr1, ord1) /\ n2 = CountAfterTime(tr1, ord1, n1)
           /\ k = Surplus(tr2, ord2, n2)
           /\ traces' = Without(tr2, FirstIn(ord2, k))
           /\ order' = SubSeq(ord2, k + 1, Len(ord2))
           /\ count' = CountAfterSurplus(tr2, ord2, n2, k)
  BY InsertStages
<1>2. RingOK(tr1, ord1, n1)
  BY <1>1, WithOK
<1>3. RingOK(tr2, ord2, n2) /\ ExpiredIn(tr1, ord1) = {u \in DOMAIN tr1 : Stale(tr1[u])}
  BY <1>1, <1>2, ExpiredOK
<1>4. DOMAIN traces' = DOMAIN tr2 \ FirstIn(ord2, k)
  BY <1>1 DEF Without
<1>5. /\ DOMAIN tr2 = {u \in DOMAIN tr1 : ~Stale(tr1[u])} /\ DOMAIN tr2 = DOMAIN tr1 \ ExpiredIn(tr1, ord1)
      /\ \A u \in DOMAIN tr2 : u \in DOMAIN tr1 /\ tr2[u] = tr1[u]
  BY <1>1, <1>3 DEF Without
<1>6. /\ DOMAIN tr1 = DOMAIN traces \cup {t}
      /\ \A u \in DOMAIN traces : u # t => tr1[u] = traces[u]
      /\ tr1[t].age = 0 /\ tr1[t].spans = new \cup SpansOf(traces, {t})
  <2>1. tr1 = With(t, new)
    BY <1>1
  <2>2. Extended(tr1, t, new)
    BY <2>1, WithEntries
  <2>3. QED
    BY <2>2 DEF Extended
<1>7. ~Stale(tr1[t])
  BY <1>6, WindowAssumption DEF Stale
<1>8. DOMAIN tr2 = {u \in DOMAIN traces \cup {t} : u = t \/ ~Stale(traces[u])}
  BY <1>5, <1>6, <1>7
<1>9. \A u \in DOMAIN tr2 : tr2[u].spans = (IF u = t THEN new ELSE {}) \cup SpansOf(traces, {u})
  <2>1. SUFFICES ASSUME NEW u \in DOMAIN tr2
                 PROVE  tr2[u].spans = (IF u = t THEN new ELSE {}) \cup SpansOf(traces, {u})
    OBVIOUS
  <2>2. CASE u = t
    BY <1>5, <1>6, <2>2
  <2>3. CASE u # t
    <3>1. u \in DOMAIN traces /\ tr2[u] = traces[u]
      BY <1>5, <1>6, <2>3
    <3>2. QED
      BY <2>3, <3>1 DEF SpansOf
  <2>4. QED
    BY <2>2, <2>3
<1>10. ord1 \in Seq(TraceIDs) /\ ord2 \in Seq(TraceIDs)
  BY <1>2, <1>3 DEF RingOK, Lists, Listing
<1>11. ord2 = Filter(ord1, DOMAIN tr2)
  BY <1>1, <1>5 DEF OrderAfterTime
<1>12. PICK pos : Picked(ord2, pos, ord1, Len(ord1), DOMAIN tr2)
  BY <1>10, <1>11, FilterPicks
<1>13. k \in 0..Len(ord2)
  BY <1>1, <1>10, SurplusLeast
<1>14. k \in Nat
  BY <1>10, <1>13
<1>15. /\ RingOK(tr2, ord2, n2) /\ k = Surplus(tr2, ord2, n2) /\ count' = CountAfterSurplus(tr2, ord2, n2, k)
       /\ Picked(ord2, pos, OrderWith(t), Len(OrderWith(t)), DOMAIN tr2)
  BY <1>1, <1>3, <1>12
<1>16. QED
  BY <1>4, <1>8, <1>9, <1>13, <1>14, <1>15, Zenon

\* The traces an Insert forces out although they are not stale.
Forced(t) == {u \in DOMAIN traces \ DOMAIN traces' : u = t \/ ~Stale(traces[u])}

\* They are the first in order, and with the last one the cap would be exceeded.
LEMMA InsertEvicts ==
    ASSUME Inv, NEW t \in TraceIDs, NEW new \in SUBSET (Spans \ Buffered), Insert(t, new),
           NEW j \in DOMAIN order, order[j] \in Forced(t)
    PROVE  /\ \A i \in 1..(j - 1) : order[i] \notin DOMAIN traces'
           /\ t \in DOMAIN traces \cup DOMAIN traces' /\ (\A k \in (j + 1)..Len(order) : order[k] \notin Forced(t))
              => count' + Cardinality(traces[order[j]].spans \cup (IF order[j] = t THEN new ELSE {})) > MaxSpans
<1>1. PICK k, pos, ord2, tr2, n2 :
           /\ k \in Nat /\ RingOK(tr2, ord2, n2) /\ k = Surplus(tr2, ord2, n2) /\ k \in 0..Len(ord2)
           /\ count' = CountAfterSurplus(tr2, ord2, n2, k)
           /\ DOMAIN traces' = DOMAIN tr2 \ FirstIn(ord2, k)
           /\ DOMAIN tr2 = {u \in DOMAIN traces \cup {t} : u = t \/ ~Stale(traces[u])}
           /\ \A u \in DOMAIN tr2 : tr2[u].spans = (IF u = t THEN new ELSE {}) \cup SpansOf(traces, {u})
           /\ Picked(ord2, pos, OrderWith(t), Len(OrderWith(t)), DOMAIN tr2)
  BY ForcedOut, Zenon
<1>2. PICK ord1 : ord1 = OrderWith(t)
  OBVIOUS
<1>3. /\ Len(order) \in Nat /\ DOMAIN order = 1..Len(order)
      /\ Len(ord1) \in Nat /\ DOMAIN ord1 = 1..Len(ord1) /\ Len(order) <= Len(ord1)
      /\ \A i \in 1..Len(order) : ord1[i] = order[i]
      /\ \A i \in 1..Len(ord1) : i \notin 1..Len(order) => ord1[i] = t /\ t \notin DOMAIN traces
      /\ Members(order) = DOMAIN traces
  BY <1>2, OrderWithPlaces
<1>4. RingOK(With(t, new), ord1, count + Cardinality(new))
  BY <1>2, WithOK
<1>5. \A i, l \in 1..Len(ord1) : ord1[i] = ord1[l] => i = l
  BY <1>3, <1>4 DEF RingOK, Lists, Listing
<1>6. /\ pos \in [1..Len(ord2) -> 1..Len(ord1)]
      /\ \A i, l \in 1..Len(ord2) : i < l => pos[i] < pos[l]
      /\ \A i \in 1..Len(ord2) : ord2[i] = ord1[pos[i]] /\ ord1[pos[i]] \in DOMAIN tr2
      /\ \A i \in 1..Len(ord1) : ord1[i] \in DOMAIN tr2 => \E l \in 1..Len(ord2) : pos[l] = i
  BY <1>1, <1>2 DEF Picked
<1>7. k \in Nat /\ Len(ord2) \in Nat /\ \A i \in 1..k : i \in 1..Len(ord2)
  <2>1. ord2 \in Seq(TraceIDs)
    BY <1>1 DEF RingOK, Lists, Listing
  <2>2. Len(ord2) \in Nat
    BY <2>1, Places
  <2>3. QED
    BY <1>1, <2>2
<1>8. PICK u : u = order[j]
  OBVIOUS
<1>9. j \in 1..Len(order) /\ j \in 1..Len(ord1) /\ ord1[j] = u /\ j \in Nat
  BY <1>3, <1>8
<1>10. u \in DOMAIN traces /\ u \in DOMAIN tr2 /\ u \in FirstIn(ord2, k)
  BY <1>1, <1>8 DEF Forced
<1>11. PICK p \in 1..k : ord2[p] = u
  BY <1>10 DEF FirstIn
<1>12. p \in 1..Len(ord2) /\ pos[p] = j /\ p \in Nat
  <2>1. p \in 1..Len(ord2) /\ p \in Nat
    BY <1>7, <1>11
  <2>2. pos[p] \in 1..Len(ord1) /\ ord1[pos[p]] = ord1[j]
    BY <1>6, <1>9, <1>11, <2>1
  <2>3. QED
    BY <1>5, <1>9, <2>1, <2>2
<1>13. \A i \in 1..(j - 1) : order[i] \notin DOMAIN traces'
  <2>1. SUFFICES ASSUME NEW i \in 1..(j - 1), order[i] \in DOMAIN traces' PROVE FALSE
    OBVIOUS
  <2>2. i \in 1..Len(order) /\ i \in 1..Len(ord1) /\ i < j /\ ord1[i] = order[i]
    BY <1>3, <1>9
  <2>3. ord1[i] \in DOMAIN tr2 /\ ord1[i] \notin FirstIn(ord2, k)
    BY <1>1, <2>1, <2>2
  <2>4. PICK q \in 1..Len(ord2) : pos[q] = i
    BY <1>6, <2>2, <2>3
  <2>5. ord2[q] = ord1[i]
    BY <1>6, <2>4
  <2>6. q \notin 1..k
    BY <2>3, <2>5 DEF FirstIn
  <2>7. p < q
    BY <1>7, <1>11, <2>6
  <2>8. pos[p] < pos[q]
    BY <1>6, <1>12, <2>7
  <2>9. QED
    BY <1>9, <1>12, <2>2, <2>4, <2>8
<1>14. ASSUME t \in DOMAIN traces \cup DOMAIN traces', \A l \in (j + 1)..Len(order) : order[l] \notin Forced(t)
       PROVE  p = k
  <2>1. SUFFICES ASSUME p # k PROVE FALSE
    OBVIOUS
  <2>2. p < k /\ k \in 1..k /\ k \in 1..Len(ord2)
    BY <1>7, <1>11, <2>1
  <2>3. PICK m \in 1..Len(ord1) : m = pos[k] /\ j < m
    BY <1>6, <1>12, <2>2
  <2>4. ord1[m] \in DOMAIN tr2 /\ ord1[m] \in FirstIn(ord2, k) /\ ord1[m] \notin DOMAIN traces'
    <3>1. ord2[k] = ord1[m] /\ ord1[m] \in DOMAIN tr2
      BY <1>6, <2>2, <2>3
    <3>2. ord2[k] \in FirstIn(ord2, k)
      BY <2>2 DEF FirstIn
    <3>3. QED
      BY <1>1, <3>1, <3>2
  <2>5. CASE m \in 1..Len(order)
    <3>1. m \in (j + 1)..Len(order) /\ order[m] = ord1[m]
      BY <1>3, <1>9, <2>3, <2>5
    <3>2. order[m] \in DOMAIN traces
      BY <1>3, <2>5 DEF Members
    <3>3. order[m] = t \/ ~Stale(traces[order[m]])
      BY <1>1, <2>4, <3>1
    <3>4. order[m] \in Forced(t)
      BY <2>4, <3>1, <3>2, <3>3 DEF Forced
    <3>5. QED
      BY <1>14, <3>1, <3>4
  <2>6. CASE m \notin 1..Len(order)
    BY <1>3, <1>14, <2>4, <2>6
  <2>7. QED
    BY <2>5, <2>6
<1>15. ASSUME p = k
       PROVE  count' + Cardinality(traces[u].spans \cup (IF u = t THEN new ELSE {})) > MaxSpans
  <2>1. k # 0 /\ ord2[k] = u
    BY <1>11, <1>15
  <2>2. CountAfterSurplus(tr2, ord2, n2, k) + Cardinality(tr2[u].spans) > MaxSpans
    BY <1>1, <2>1, LastOut
  <2>3. tr2[u].spans = traces[u].spans \cup (IF u = t THEN new ELSE {})
    BY <1>1, <1>10 DEF SpansOf
  <2>4. QED
    BY <1>1, <2>2, <2>3
<1>16. QED
  BY <1>8, <1>13, <1>14, <1>15

\* A new trace that is forced out by its own Insert is larger than the cap: it is
\* the last in order, so all the others went before it.
LEMMA InsertEvictsItself ==
    ASSUME Inv, NEW t \in TraceIDs, NEW new \in SUBSET (Spans \ Buffered), Insert(t, new),
           t \notin DOMAIN traces \cup DOMAIN traces'
    PROVE  DOMAIN traces' = {} /\ Cardinality(new) > MaxSpans
<1>1. PICK k, pos, ord2, tr2, n2 :
           /\ k \in Nat /\ RingOK(tr2, ord2, n2) /\ k = Surplus(tr2, ord2, n2) /\ k \in 0..Len(ord2)
           /\ count' = CountAfterSurplus(tr2, ord2, n2, k)
           /\ DOMAIN traces' = DOMAIN tr2 \ FirstIn(ord2, k)
           /\ DOMAIN tr2 = {u \in DOMAIN traces \cup {t} : u = t \/ ~Stale(traces[u])}
           /\ \A u \in DOMAIN tr2 : tr2[u].spans = (IF u = t THEN new ELSE {}) \cup SpansOf(traces, {u})
           /\ Picked(ord2, pos, OrderWith(t), Len(OrderWith(t)), DOMAIN tr2)
  BY ForcedOut, Zenon
<1>2. PICK ord1 : ord1 = OrderWith(t)
  OBVIOUS
<1>3. /\ Len(order) \in Nat /\ Len(ord1) \in Nat
      /\ \A i \in 1..Len(order) : ord1[i] = order[i] /\ order[i] \in DOMAIN traces
  <2>1. /\ Len(order) \in Nat /\ DOMAIN order = 1..Len(order) /\ Len(ord1) \in Nat
        /\ \A i \in 1..Len(order) : ord1[i] = order[i]
        /\ Members(order) = DOMAIN traces
    BY <1>2, OrderWithPlaces
  <2>2. \A i \in 1..Len(order) : order[i] \in Members(order)
    BY <2>1 DEF Members
  <2>3. QED
    BY <2>1, <2>2
<1>4. Len(ord1) = Len(order) + 1
  <2>1. order \in Seq(TraceIDs)
    BY DEF Inv, RingOK, Lists, Listing
  <2>2. QED
    BY <1>2, <2>1 DEF OrderWith
<1>5. /\ pos \in [1..Len(ord2) -> 1..Len(ord1)]
      /\ \A i, l \in 1..Len(ord2) : i < l => pos[i] < pos[l]
      /\ \A i \in 1..Len(ord2) : ord2[i] = ord1[pos[i]]
  BY <1>1, <1>2 DEF Picked
<1>6. /\ Len(ord2) \in Nat /\ DOMAIN ord2 = 1..Len(ord2) /\ Members(ord2) = DOMAIN tr2
  <2>1. ord2 \in Seq(TraceIDs) /\ Members(ord2) = DOMAIN tr2
    BY <1>1 DEF RingOK, Lists, Listing
  <2>2. QED
    BY <2>1, Places
<1>7. t \in DOMAIN tr2 /\ t \in FirstIn(ord2, k)
  BY <1>1
<1>8. PICK p \in 1..k : ord2[p] = t
  BY <1>7 DEF FirstIn
<1>9. p \in 1..Len(ord2) /\ k \in 1..Len(ord2) /\ k # 0
  <2>1. Len(ord2) \in Nat /\ k \in 0..Len(ord2)
    BY <1>1, <1>6
  <2>2. QED
    BY <1>8, <2>1
<1>10. pos[p] = Len(ord1)
  <2>1. pos[p] \in 1..Len(ord1) /\ ord1[pos[p]] = t
    BY <1>5, <1>8, <1>9
  <2>2. pos[p] \notin 1..Len(order)
    BY <1>3, <2>1
  <2>3. QED
    BY <1>3, <1>4, <2>1, <2>2
<1>11. p = Len(ord2)
  <2>1. SUFFICES ASSUME p # Len(ord2) PROVE FALSE
    OBVIOUS
  <2>2. PICK last : last = Len(ord2)
    OBVIOUS
  <2>3. last \in Nat /\ p \in 1..last /\ p # last
    BY <1>6, <1>9, <2>1, <2>2
  <2>4. p < last /\ last \in 1..last
    BY <2>3
  <2>5. pos[last] \in 1..Len(ord1) /\ pos[p] < pos[last]
    BY <1>5, <2>2, <2>3, <2>4
  <2>6. Len(ord1) \in Nat
    BY <1>3
  <2>7. QED
    BY <1>10, <2>5, <2>6
<1>12. k = Len(ord2) /\ ord2[k] = t
  <2>1. Len(ord2) \in Nat
    BY <1>6
  <2>2. k = p
    BY <1>8, <1>9, <1>11, <2>1
  <2>3. QED
    BY <1>8, <1>11, <2>2
<1>13. DOMAIN traces' = {}
  <2>1. DOMAIN tr2 = FirstIn(ord2, k)
    BY <1>6, <1>12 DEF FirstIn, Members
  <2>2. QED
    BY <1>1, <2>1
<1>14. count' = 0
  <2>1. Inv'
    BY InsertKeepsInv
  <2>2. count' = Cardinality(All(traces'))
    BY <2>1 DEF Inv, RingOK, All
  <2>3. All(traces') = {}
    BY <1>13 DEF All
  <2>4. QED
    BY <2>2, <2>3, FS_EmptySet
<1>15. tr2[t].spans = new
  <2>1. SpansOf(traces, {t}) = {}
    BY DEF SpansOf
  <2>2. QED
    BY <1>1, <1>7, <2>1
<1>16. count' + Cardinality(new) > MaxSpans
  <2>1. CountAfterSurplus(tr2, ord2, n2, k) + Cardinality(tr2[ord2[k]].spans) > MaxSpans
    BY <1>1, <1>9, LastOut
  <2>2. QED
    BY <1>1, <1>12, <1>15, <2>1
<1>17. Cardinality(new) \in Nat
  BY SpansAssumption, FS_Subset, FS_CardinalityType
<1>18. QED
  BY <1>13, <1>14, <1>16, <1>17

\* What an Insert forces out is the oldest part of the buffer, and no more of it
\* than the cap demands.
THEOREM EvictionIsMinimal == Spec => EvictsNoMoreThanNeeded
<1> DEFINE Minimal ==
        \A t \in TraceIDs, new \in (SUBSET (Spans \ Buffered)) \ {{}} : Insert(t, new) =>
          LET forced   == {u \in DOMAIN traces \ DOMAIN traces' : u = t \/ ~Stale(traces[u])}
              size(u)  == Cardinality(traces[u].spans \cup (IF u = t THEN new ELSE {}))
              itself   == t \notin DOMAIN traces \cup DOMAIN traces'
          IN  /\ \A j \in DOMAIN order : order[j] \in forced =>
                    /\ \A i \in 1..(j - 1) : order[i] \notin DOMAIN traces'
                    /\ ~itself /\ (\A k \in (j + 1)..Len(order) : order[k] \notin forced)
                          => count' + size(order[j]) > MaxSpans
              /\ itself => DOMAIN traces' = {} /\ Cardinality(new) > MaxSpans
<1>1. Inv => Minimal
  <2>1. ASSUME Inv, NEW t \in TraceIDs, NEW new \in SUBSET (Spans \ Buffered), Insert(t, new),
               NEW j \in DOMAIN order, order[j] \in Forced(t)
        PROVE  /\ \A i \in 1..(j - 1) : order[i] \notin DOMAIN traces'
               /\ t \in DOMAIN traces \cup DOMAIN traces'
                  /\ (\A k \in (j + 1)..Len(order) : order[k] \notin Forced(t))
                  => count' + Cardinality(traces[order[j]].spans \cup (IF order[j] = t THEN new ELSE {}))
                     > MaxSpans
    BY <2>1, InsertEvicts, Zenon
  <2>2. ASSUME Inv, NEW t \in TraceIDs, NEW new \in SUBSET (Spans \ Buffered), Insert(t, new),
               t \notin DOMAIN traces \cup DOMAIN traces'
        PROVE  DOMAIN traces' = {} /\ Cardinality(new) > MaxSpans
    BY <2>2, InsertEvictsItself, Zenon
  <2>3. QED
    BY <2>1, <2>2, Zenon DEF Forced
<1>2. (Spec => [][Minimal]_vars) => (Spec => EvictsNoMoreThanNeeded)
  BY DEF EvictsNoMoreThanNeeded
<1> HIDE DEF Minimal
<1>3. Spec => [][Minimal]_vars
  BY <1>1, RingInvariant, PTL
<1>4. QED
  BY <1>2, <1>3
=============================================================================
