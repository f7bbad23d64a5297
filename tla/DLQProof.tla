------------------------------ MODULE DLQProof ------------------------------
(***************************************************************************)
(* Proofs about the dead-letter queue, for every capacity, every number of *)
(* attempts and every number of failed batches.                            *)
(***************************************************************************)
EXTENDS DLQ, FiniteSetTheorems, TLAPS

(***************************************************************************)
(* Sequences of entries.                                                   *)
(***************************************************************************)

\* The batches of an empty queue.
LEMMA IdsEmpty == Ids(<< >>) = {}
  BY DEF Ids

\* An entry carries a batch and has attempts left.
LEMMA EntryType ==
  /\ \A e \in Entries : e.batch \in Batches /\ e.attempts \in 0..(MaxAttempts - 1)
  /\ \A b \in Batches, n \in 0..(MaxAttempts - 1) : [batch |-> b, attempts |-> n] \in Entries
  BY DEF Entries

\* The batches of a queue of entries are batches, and finitely many.
LEMMA IdsFinite ==
  ASSUME NEW s \in Seq(Entries), NEW S \in SUBSET Ids(s)
  PROVE  /\ Ids(s) \subseteq Batches
         /\ Cardinality(S) \in Nat
  <1>1. Ids(s) \subseteq Batches
    BY EntryType DEF Ids
  <1>2. IsFiniteSet(Batches)
    BY FS_Interval, BatchesAssumption DEF Batches
  <1> QED
    BY <1>1, <1>2, FS_Subset, FS_CardinalityType

\* enqueueDLQ and the send loop append one entry.
LEMMA IdsAppend ==
  ASSUME NEW s \in Seq(Entries), NEW e \in Entries
  PROVE  /\ Append(s, e) \in Seq(Entries)
         /\ Ids(Append(s, e)) = Ids(s) \cup {e.batch}
  <1>1. Append(s, e) \in Seq(Entries) /\ Len(Append(s, e)) = Len(s) + 1
    OBVIOUS
  <1>2. \A i \in DOMAIN s : i \in DOMAIN Append(s, e) /\ Append(s, e)[i] = s[i]
    OBVIOUS
  <1>3. Len(s) + 1 \in DOMAIN Append(s, e) /\ Append(s, e)[Len(s) + 1] = e
    OBVIOUS
  <1>4. \A i \in DOMAIN Append(s, e) : i \in DOMAIN s \/ i = Len(s) + 1
    OBVIOUS
  <1> QED
    BY <1>1, <1>2, <1>3, <1>4 DEF Ids

\* The merge concatenates.
LEMMA IdsConcat ==
  ASSUME NEW s \in Seq(Entries), NEW t \in Seq(Entries)
  PROVE  /\ s \o t \in Seq(Entries)
         /\ Ids(s \o t) = Ids(s) \cup Ids(t)
  <1>1. s \o t \in Seq(Entries) /\ Len(s \o t) = Len(s) + Len(t)
    OBVIOUS
  <1>2. Ids(s \o t) \subseteq Ids(s) \cup Ids(t)
    BY DEF Ids
  <1>3. Ids(s) \subseteq Ids(s \o t)
    BY DEF Ids
  <1>4. \A i \in DOMAIN t : Len(s) + i \in DOMAIN (s \o t) /\ (s \o t)[Len(s) + i] = t[i]
    OBVIOUS
  <1>5. Ids(t) \subseteq Ids(s \o t)
    BY <1>4 DEF Ids
  <1> QED
    BY <1>1, <1>2, <1>3, <1>5

\* The send loop takes the head.
LEMMA IdsHeadTail ==
  ASSUME NEW s \in Seq(Entries), s # << >>
  PROVE  /\ Head(s) \in Entries
         /\ Tail(s) \in Seq(Entries)
         /\ Len(Tail(s)) = Len(s) - 1
         /\ Ids(s) = {Head(s).batch} \cup Ids(Tail(s))
  <1>1. Head(s) \in Entries /\ Tail(s) \in Seq(Entries) /\ Len(Tail(s)) = Len(s) - 1
    OBVIOUS
  <1>2. \A i \in DOMAIN Tail(s) : i + 1 \in DOMAIN s /\ Tail(s)[i] = s[i + 1]
    OBVIOUS
  <1>3. \A i \in DOMAIN s : i # 1 => i - 1 \in DOMAIN Tail(s) /\ Tail(s)[i - 1] = s[i]
    OBVIOUS
  <1>4. 1 \in DOMAIN s /\ Head(s) = s[1]
    OBVIOUS
  <1>5. Ids(s) \subseteq {Head(s).batch} \cup Ids(Tail(s))
    BY <1>3, <1>4 DEF Ids
  <1>6. Ids(Tail(s)) \subseteq Ids(s)
    BY <1>2 DEF Ids
  <1>7. Head(s).batch \in Ids(s)
    BY <1>4 DEF Ids
  <1> QED
    BY <1>1, <1>5, <1>6, <1>7

\* Start, the merge and a damaged file keep a part of a queue.
LEMMA IdsSubSeq ==
  ASSUME NEW s \in Seq(Entries), NEW m \in 1..(Len(s) + 1), NEW n \in 0..Len(s)
  PROVE  /\ SubSeq(s, m, n) \in Seq(Entries)
         /\ Len(SubSeq(s, m, n)) = IF m <= n THEN n - m + 1 ELSE 0
         /\ Ids(SubSeq(s, m, n)) \subseteq Ids(s)
         /\ \A i \in DOMAIN SubSeq(s, m, n) :
               m + i - 1 \in DOMAIN s /\ SubSeq(s, m, n)[i] = s[m + i - 1]
  <1>1. /\ SubSeq(s, m, n) \in Seq(Entries)
        /\ Len(SubSeq(s, m, n)) = IF m <= n THEN n - m + 1 ELSE 0
    OBVIOUS
  <1>2. \A i \in DOMAIN SubSeq(s, m, n) :
           m + i - 1 \in DOMAIN s /\ SubSeq(s, m, n)[i] = s[m + i - 1]
    OBVIOUS
  <1> QED
    BY <1>1, <1>2 DEF Ids

(***************************************************************************)
(* Ordered queues.                                                         *)
(***************************************************************************)

\* A concatenation is in order iff its parts are and the first part is older.
LEMMA OrderedConcat ==
  ASSUME NEW s \in Seq(Entries), NEW t \in Seq(Entries)
  PROVE  Ordered(s \o t) <=> /\ Ordered(s)
                             /\ Ordered(t)
                             /\ \A b \in Ids(s), c \in Ids(t) : b < c
  <1>1. s \o t \in Seq(Entries) /\ Len(s \o t) = Len(s) + Len(t)
    OBVIOUS
  <1>2. \A i \in DOMAIN s : i \in DOMAIN (s \o t) /\ (s \o t)[i] = s[i]
    OBVIOUS
  <1>3. \A i \in DOMAIN t : Len(s) + i \in DOMAIN (s \o t) /\ (s \o t)[Len(s) + i] = t[i]
    OBVIOUS
  <1>4. \A i \in DOMAIN (s \o t) :
           \/ i \in DOMAIN s /\ (s \o t)[i] = s[i]
           \/ i - Len(s) \in DOMAIN t /\ (s \o t)[i] = t[i - Len(s)]
    OBVIOUS
  <1>5. ASSUME Ordered(s \o t)
        PROVE  Ordered(s) /\ Ordered(t)
    <2>1. Ordered(s)
      BY <1>2, <1>5 DEF Ordered
    <2>2. \A i, j \in DOMAIN t : i < j => Len(s) + i < Len(s) + j
      OBVIOUS
    <2>3. Ordered(t)
      BY <1>3, <1>5, <2>2 DEF Ordered
    <2> QED
      BY <2>1, <2>3
  <1>6. ASSUME Ordered(s \o t), NEW b \in Ids(s), NEW c \in Ids(t)
        PROVE  b < c
    <2>1. PICK i \in DOMAIN s : b = s[i].batch
      BY DEF Ids
    <2>2. PICK j \in DOMAIN t : c = t[j].batch
      BY DEF Ids
    <2>3. i < Len(s) + j
      OBVIOUS
    <2> QED
      BY <1>2, <1>3, <1>6, <2>1, <2>2, <2>3 DEF Ordered
  <1>7. ASSUME Ordered(s), Ordered(t), \A b \in Ids(s), c \in Ids(t) : b < c,
               NEW i \in DOMAIN (s \o t), NEW j \in DOMAIN (s \o t), i < j
        PROVE  (s \o t)[i].batch < (s \o t)[j].batch
    <2>1. CASE i \in DOMAIN s /\ j \in DOMAIN s
      BY <1>2, <1>7, <2>1 DEF Ordered
    <2>2. CASE i \in DOMAIN s /\ j \notin DOMAIN s
      <3>1. s[i].batch \in Ids(s) /\ t[j - Len(s)].batch \in Ids(t)
        BY <1>4, <2>2 DEF Ids
      <3> QED
        BY <1>4, <1>2, <1>7, <2>2, <3>1
    <2>3. CASE i \notin DOMAIN s
      <3>1. i - Len(s) \in DOMAIN t /\ (s \o t)[i] = t[i - Len(s)]
        BY <1>4, <2>3
      <3>2. j \notin DOMAIN s
        BY <1>7, <2>3
      <3>3. j - Len(s) \in DOMAIN t /\ (s \o t)[j] = t[j - Len(s)]
        BY <1>4, <3>2
      <3>4. i - Len(s) < j - Len(s)
        BY <1>7
      <3> QED
        BY <1>7, <3>1, <3>3, <3>4 DEF Ordered
    <2> QED
      BY <2>1, <2>2, <2>3
  <1> QED
    BY <1>5, <1>6, <1>7 DEF Ordered

\* Taking the head leaves an ordered queue of younger entries.
LEMMA OrderedHeadTail ==
  ASSUME NEW s \in Seq(Entries), s # << >>, Ordered(s)
  PROVE  /\ Ordered(Tail(s))
         /\ \A b \in Ids(Tail(s)) : Head(s).batch < b
  <1>1. Tail(s) \in Seq(Entries) /\ Len(Tail(s)) = Len(s) - 1
    OBVIOUS
  <1>2. \A i \in DOMAIN Tail(s) : i + 1 \in DOMAIN s /\ Tail(s)[i] = s[i + 1] /\ i \in Nat /\ 1 < i + 1
    OBVIOUS
  <1>3. 1 \in DOMAIN s /\ Head(s) = s[1]
    OBVIOUS
  <1>4. Ordered(Tail(s))
    BY <1>2 DEF Ordered
  <1>5. \A i \in DOMAIN Tail(s) : Head(s).batch < Tail(s)[i].batch
    BY <1>2, <1>3 DEF Ordered
  <1> QED
    BY <1>4, <1>5 DEF Ids

\* Appending a younger entry keeps the order.
LEMMA OrderedAppend ==
  ASSUME NEW s \in Seq(Entries), NEW e \in Entries, Ordered(s),
         \A b \in Ids(s) : b < e.batch
  PROVE  Ordered(Append(s, e))
  <1>1. Append(s, e) \in Seq(Entries) /\ Len(Append(s, e)) = Len(s) + 1
    OBVIOUS
  <1>2. \A i \in DOMAIN Append(s, e) :
           \/ i \in DOMAIN s /\ Append(s, e)[i] = s[i]
           \/ i = Len(s) + 1 /\ Append(s, e)[i] = e
    OBVIOUS
  <1>3. \A i \in DOMAIN s : s[i].batch < e.batch
    BY DEF Ids
  <1>4. \A i, j \in DOMAIN Append(s, e) : i < j => i \in DOMAIN s
    BY <1>1
  <1> QED
    BY <1>2, <1>3, <1>4 DEF Ordered

\* A part of an ordered queue is ordered.
LEMMA OrderedSubSeq ==
  ASSUME NEW s \in Seq(Entries), Ordered(s), NEW m \in 1..(Len(s) + 1), NEW n \in 0..Len(s)
  PROVE  Ordered(SubSeq(s, m, n))
  <1>1. \A i \in DOMAIN SubSeq(s, m, n) :
           i \in Nat /\ m + i - 1 \in DOMAIN s /\ SubSeq(s, m, n)[i] = s[m + i - 1]
    OBVIOUS
  <1>2. \A i, j \in DOMAIN SubSeq(s, m, n) : i < j => m + i - 1 < m + j - 1
    BY <1>1
  <1> QED
    BY <1>1, <1>2 DEF Ordered

\* The eviction of the merge keeps the youngest entries, in order and within
\* the capacity; it evicts only if the queue stays full.
LEMMA NewestProperties ==
  ASSUME NEW q \in Seq(Entries), Ordered(q)
  PROVE  /\ Newest(q) \in Seq(Entries)
         /\ Len(Newest(q)) <= MaxEntries
         /\ Ordered(Newest(q))
         /\ Ids(Newest(q)) \subseteq Ids(q)
         /\ \A b \in Ids(q) \ Ids(Newest(q)) :
               Len(Newest(q)) = MaxEntries /\ \A c \in Ids(Newest(q)) : b < c
  <1>1. CASE Len(q) <= MaxEntries
    <2>1. Newest(q) = q
      BY <1>1, CapacityAssumption DEF Newest
    <2> QED
      BY <1>1, <2>1
  <1>2. CASE Len(q) > MaxEntries
    <2> DEFINE m == Len(q) - MaxEntries + 1
    <2>1. Newest(q) = SubSeq(q, m, Len(q))
      BY <1>2 DEF Newest
    <2>2. m \in 1..(Len(q) + 1) /\ m <= Len(q) /\ Len(q) \in 0..Len(q)
      BY <1>2, CapacityAssumption
    <2>3. /\ Newest(q) \in Seq(Entries)
          /\ Len(Newest(q)) = MaxEntries
          /\ Ids(Newest(q)) \subseteq Ids(q)
      <3>1. Len(q) - m + 1 = MaxEntries
        BY CapacityAssumption
      <3> HIDE DEF m
      <3> QED
        BY <2>1, <2>2, <3>1, IdsSubSeq
    <2>4. Ordered(Newest(q))
      BY <2>1, <2>2, OrderedSubSeq
    <2>5. \A i \in DOMAIN q : i >= m => q[i].batch \in Ids(Newest(q))
      <3>1. \A i \in DOMAIN q : i >= m =>
               i - m + 1 \in DOMAIN SubSeq(q, m, Len(q)) /\ SubSeq(q, m, Len(q))[i - m + 1] = q[i]
        BY <2>2
      <3> QED
        BY <2>1, <3>1 DEF Ids
    <2>6. ASSUME NEW b \in Ids(q) \ Ids(Newest(q)), NEW c \in Ids(Newest(q))
          PROVE  b < c
      <3>1. PICK i \in DOMAIN q : b = q[i].batch
        BY DEF Ids
      <3>2. i < m
        BY <2>2, <2>5, <3>1
      <3>3. PICK k \in DOMAIN SubSeq(q, m, Len(q)) : c = SubSeq(q, m, Len(q))[k].batch
        BY <2>1 DEF Ids
      <3>4. k \in Nat /\ k >= 1 /\ m + k - 1 \in DOMAIN q /\ SubSeq(q, m, Len(q))[k] = q[m + k - 1]
        BY <2>2
      <3> QED
        BY <2>2, <3>1, <3>2, <3>3, <3>4 DEF Ordered
    <2> QED
      BY <2>3, <2>4, <2>6, CapacityAssumption
  <1> QED
    BY <1>1, <1>2, CapacityAssumption

(***************************************************************************)
(* The operations on entries and queues.                                   *)
(***************************************************************************)

\* A retried entry that is not spent may wait for another retry.
LEMMA AttemptType ==
  ASSUME NEW e \in Entries, ~Spent(e)
  PROVE  Attempt(e) \in Entries /\ Attempt(e).batch = e.batch
  BY AttemptsAssumption DEF Entries, Spent, Attempt

\* enqueueDLQ makes room for one entry and evicts at most the oldest one.
LEMMA MakeRoomProperties ==
  ASSUME NEW q \in Seq(Entries), Ordered(q), Len(q) <= MaxEntries
  PROVE  /\ MakeRoom(q) \in Seq(Entries)
         /\ Len(MakeRoom(q)) < MaxEntries
         /\ Ordered(MakeRoom(q))
         /\ Ids(MakeRoom(q)) \subseteq Ids(q)
         /\ \A b \in Ids(q) \ Ids(MakeRoom(q)) :
               Len(MakeRoom(q)) = MaxEntries - 1 /\ \A c \in Ids(MakeRoom(q)) : b < c
  <1>1. CASE Len(q) < MaxEntries
    <2>1. MakeRoom(q) = q
      BY <1>1, CapacityAssumption DEF MakeRoom
    <2> QED
      BY <1>1, <2>1
  <1>2. CASE Len(q) = MaxEntries
    <2>1. MakeRoom(q) = Tail(q) /\ q # << >>
      BY <1>2, CapacityAssumption DEF MakeRoom
    <2> QED
      BY <1>2, <2>1, IdsHeadTail, OrderedHeadTail, CapacityAssumption
  <1> QED
    BY <1>1, <1>2, CapacityAssumption

\* Of what loadDLQ read of a file that fits into the empty queue, Start takes all.
LEMMA RestoreAll ==
  ASSUME NEW f, f.recs \in Seq(Entries), Len(f.recs) <= MaxEntries,
         NEW read \in 0..MaxEntries, read <= Len(f.recs)
  PROVE  /\ loadDLQ(f, read) \in Seq(Entries)
         /\ Restorable(loadDLQ(f, read), << >>) = loadDLQ(f, read)
  <1> DEFINE loaded == SubSeq(f.recs, 1, read)
  <1>1. loaded \in Seq(Entries) /\ Len(loaded) <= MaxEntries
    BY IdsSubSeq
  <1> HIDE DEF loaded
  <1>2. Restorable(loaded, << >>) = loaded
    BY <1>1, CapacityAssumption DEF Restorable
  <1> QED
    BY <1>1, <1>2 DEF loadDLQ, loaded

-----------------------------------------------------------------------------
(***************************************************************************)
(* Type correctness.                                                       *)
(***************************************************************************)

\* A step of the specification is a step of one of its actions.
LEMMA NextCases ==
  ASSUME [Next]_vars
  PROVE  \/ StartLoops \/ (\E read \in 0..MaxEntries : StartRestore(read)) \/ Enqueue \/ Tick
         \/ RetryWake \/ RetryExit \/ DrainTake
         \/ (\E acked \in BOOLEAN : DrainSend(acked)) \/ DrainMerge
         \/ ShutdownStop \/ ShutdownCopy
         \/ (\E removed \in BOOLEAN : SaveNothing(removed))
         \/ SaveRecord \/ SaveRename \/ SaveFail
         \/ ShutdownClose \/ Exit \/ Crash
         \/ (\E readable \in 0..(MaxEntries - 1) : Damage(readable))
         \/ UNCHANGED vars
  BY DEF Next, RetryLoop, Saving, Shutdown

\* The types hold of the initial state.
LEMMA TypeInit == Init => TypeOK
  <1> SUFFICES ASSUME Init
               PROVE  TypeOK
    OBVIOUS
  <1>1. file \in [count : Nat, recs : Seq(Entries)]
    BY DEF Init, NoFile
  <1>2. nextBatch \in 1..(MaxBatches + 1)
    BY BatchesAssumption DEF Init
  <1>3. tick \in BOOLEAN /\ saveFailed \in BOOLEAN /\ damaged \in BOOLEAN
    BY Zenon DEF Init
  <1> QED
    BY <1>1, <1>2, <1>3 DEF Init, TypeOK, Phases

\* Every action keeps the types.  drainDLQOnce returns to the queue only
\* entries that have attempts left.
LEMMA TypeStep == TypeOK /\ [Next]_vars => TypeOK'
  <1> SUFFICES ASSUME TypeOK, [Next]_vars
               PROVE  TypeOK'
    OBVIOUS
  <1> USE DEF TypeOK, main, loop, ledger, excuses
  <1>1. CASE StartLoops
    BY <1>1 DEF StartLoops, Phases
  <1>2. ASSUME NEW read \in 0..MaxEntries, StartRestore(read)
        PROVE  TypeOK'
    <2> DEFINE entries == Restorable(loadDLQ(file, read), dlq)
    <2>1. entries \in Seq(Entries)
      <3>1. PICK loaded : loaded = loadDLQ(file, read)
        OBVIOUS
      <3>2. loaded \in Seq(Entries)
        BY <1>2, <3>1, IdsSubSeq DEF StartRestore, loadDLQ
      <3> QED
        BY <3>1, <3>2, CapacityAssumption DEF Restorable
    <2>2. Ids(entries) \subseteq Batches
      BY <2>1, IdsFinite
    <2>3. dlq \o entries \in Seq(Entries)
      BY <2>1
    <2> HIDE DEF entries
    <2>4. /\ dlq' = dlq \o entries /\ entered' = entered \cup Ids(entries)
          /\ restored' = Ids(entries) /\ atRisk' = atRisk \cup (Ids(file.recs) \ Ids(entries))
      BY <1>2 DEF StartRestore, entries
    <2>5. Ids(file.recs) \subseteq Batches
      BY IdsFinite
    <2> QED
      BY <1>2, <2>2, <2>3, <2>4, <2>5 DEF StartRestore, FileAfterLoad, Phases
  <1>3. CASE Enqueue
    <2> DEFINE gone == Ids(dlq) \ Ids(MakeRoom(dlq))
    <2>1. MakeRoom(dlq) \in Seq(Entries)
      BY CapacityAssumption DEF MakeRoom
    <2>2. gone \subseteq Batches /\ Cardinality(gone) \in Nat
      BY IdsFinite
    <2>3. [batch |-> nextBatch, attempts |-> 0] \in Entries
      BY <1>3, EntryType, AttemptsAssumption DEF Enqueue
    <2>4. nextBatch + 1 \in 1..(MaxBatches + 1)
      BY <1>3, BatchesAssumption DEF Enqueue, Batches
    <2> HIDE DEF gone
    <2>5. /\ dlq' = Append(MakeRoom(dlq), [batch |-> nextBatch, attempts |-> 0])
          /\ evicted' = evicted \cup gone /\ settled' = settled \cup gone
          /\ droppedTotal' = droppedTotal + Cardinality(gone)
      BY <1>3 DEF Enqueue, gone
    <2>6. dlq' \in Seq(Entries)
      BY <2>1, <2>3, <2>5, IdsAppend
    <2> QED
      <3>1. evicted' \subseteq Batches /\ settled' \subseteq Batches /\ droppedTotal' \in Nat
        BY <2>2, <2>5
      <3>2. entered' \subseteq Batches /\ nextBatch' \in 1..(MaxBatches + 1)
        BY <1>3, <2>4 DEF Enqueue
      <3> QED
        BY <1>3, <2>6, <3>1, <3>2 DEF Enqueue
  <1>4. CASE Tick
    BY <1>4 DEF Tick
  <1>5. CASE RetryWake
    BY <1>5 DEF RetryWake
  <1>6. CASE RetryExit
    BY <1>6 DEF RetryExit
  <1>7. CASE DrainTake
    BY <1>7 DEF DrainTake
  <1>8. ASSUME NEW acked \in BOOLEAN, DrainSend(acked)
        PROVE  TypeOK'
    <2> DEFINE e == Head(pending)
    <2>1. e \in Entries /\ Tail(pending) \in Seq(Entries)
      BY <1>8 DEF DrainSend
    <2>2. e.batch \in Batches
      BY <2>1, EntryType
    <2>3. ~Spent(e) => Append(stillFailing, Attempt(e)) \in Seq(Entries)
      BY <2>1, AttemptType, IdsAppend
    <2> HIDE DEF e
    <2>4. /\ stillFailing' = IF acked \/ (~acked /\ Spent(e)) THEN stillFailing
                             ELSE Append(stillFailing, Attempt(e))
          /\ flushed' = flushed \cup (IF acked THEN {e.batch} ELSE {})
          /\ abandoned' = abandoned \cup (IF ~acked /\ Spent(e) THEN {e.batch} ELSE {})
          /\ settled' = settled \cup (IF acked \/ (~acked /\ Spent(e)) THEN {e.batch} ELSE {})
          /\ droppedTotal' = droppedTotal + (IF ~acked /\ Spent(e) THEN 1 ELSE 0)
      BY <1>8 DEF DrainSend, e
    <2>5. stillFailing' \in Seq(Entries)
      BY <2>3, <2>4
    <2>6. flushed' \subseteq Batches /\ abandoned' \subseteq Batches /\ settled' \subseteq Batches
      BY <2>2, <2>4
    <2>7. droppedTotal' \in Nat
      BY <2>4
    <2> QED
      BY <1>8, <2>1, <2>5, <2>6, <2>7 DEF DrainSend
  <1>9. CASE DrainMerge
    <2> DEFINE merged == Prepend(stillFailing, dlq)
    <2> DEFINE gone == Ids(merged) \ Ids(Newest(merged))
    <2>1. merged \in Seq(Entries)
      BY DEF Prepend
    <2>2. gone \subseteq Batches
      BY <2>1, IdsFinite
    <2>3. Newest(merged) \in Seq(Entries)
      BY <2>1, CapacityAssumption DEF Newest
    <2> HIDE DEF merged
    <2>4. dlq' = Newest(merged) /\ evicted' = evicted \cup gone /\ settled' = settled \cup gone
      BY <1>9 DEF DrainMerge, merged
    <2> QED
      BY <1>9, <2>2, <2>3, <2>4 DEF DrainMerge
  <1>10. CASE ShutdownStop
    BY <1>10 DEF ShutdownStop, Phases
  <1>11. CASE ShutdownCopy
    <2>1. InFlight \subseteq Batches
      BY IdsFinite DEF InFlight
    <2> QED
      BY <1>11, <2>1 DEF ShutdownCopy, Phases
  <1>12. ASSUME NEW removed \in BOOLEAN, SaveNothing(removed)
         PROVE  TypeOK'
    <2>1. NoFile \in [count : Nat, recs : Seq(Entries)]
      BY DEF NoFile
    <2> QED
      BY <1>12, <2>1 DEF SaveNothing, Phases
  <1>13. CASE SaveRecord
    <2>1. snapshot[Len(tmp) + 1] \in Entries
      BY <1>13 DEF SaveRecord
    <2> QED
      BY <1>13, <2>1 DEF SaveRecord, FileWhileSaving
  <1>14. CASE SaveRename
    <2>1. file' \in [count : Nat, recs : Seq(Entries)]
      BY <1>14 DEF SaveRename
    <2>2. damaged' \in BOOLEAN
      BY <1>14, Zenon DEF SaveRename
    <2> QED
      BY <1>14, <2>1, <2>2 DEF SaveRename, Phases
  <1>15. CASE SaveFail
    <2>1. Held \subseteq Batches
      BY IdsFinite DEF Held, InFlight
    <2> QED
      BY <1>15, <2>1 DEF SaveFail, Phases
  <1>16. CASE ShutdownClose
    BY <1>16 DEF ShutdownClose, MayClose, Phases
  <1>17. CASE Exit
    <2>1. tick' \in BOOLEAN
      BY <1>17, Zenon DEF Exit, ProcessGone
    <2> QED
      BY <1>17, <2>1 DEF Exit, ProcessGone, Phases
  <1>18. CASE Crash
    <2>1. Held \subseteq Batches
      BY IdsFinite DEF Held, InFlight
    <2>2. tick' \in BOOLEAN
      BY <1>18, Zenon DEF Crash, ProcessGone
    <2> QED
      BY <1>18, <2>1, <2>2 DEF Crash, ProcessGone, Phases
  <1>19. ASSUME NEW readable \in 0..(MaxEntries - 1), Damage(readable)
         PROVE  TypeOK'
    <2>1. SubSeq(file.recs, 1, readable) \in Seq(Entries)
      BY <1>19, CapacityAssumption DEF Damage
    <2>2. file' \in [count : Nat, recs : Seq(Entries)]
      BY <1>19, <2>1 DEF Damage
    <2>3. Ids(file.recs) \subseteq Batches
      BY IdsFinite
    <2> QED
      BY <1>19, <2>2, <2>3 DEF Damage
  <1>20. CASE UNCHANGED vars
    BY <1>20 DEF vars
  <1> QED
    BY NextCases, <1>1, <1>2, <1>3, <1>4, <1>5, <1>6, <1>7, <1>8, <1>9, <1>10, <1>11, <1>12,
       <1>13, <1>14, <1>15, <1>16, <1>17, <1>18, <1>19, <1>20

\* The types are an invariant: an entry that waits for a retry has attempts
\* left, for every capacity and every number of attempts.
THEOREM TypeCorrect == Spec => []TypeOK
  BY TypeInit, TypeStep, PTL DEF Spec

-----------------------------------------------------------------------------
(***************************************************************************)
(* The queue: bounds, order and accounting.                                *)
(***************************************************************************)

\* Which places are in use in which phase of the two goroutines.
Shape ==
    /\ phase = "down" => retry = "none"
    /\ phase \in {"down", "starting"} =>
          /\ dlq = << >> /\ entered = {} /\ restored = {}
          /\ flushed = {} /\ abandoned = {} /\ evicted = {}
    /\ retry # "sending" => pending = << >> /\ stillFailing = << >>
    /\ phase # "saving" => tmp = << >>
    /\ Len(tmp) <= Len(snapshot) /\ \A i \in DOMAIN tmp : tmp[i] = snapshot[i]

\* A batch is older than every batch that is still to fail.
Older == \A b \in entered \cup Ids(snapshot) \cup Ids(file.recs) : b < nextBatch

\* The induction hypothesis: Bounded, Fifo and Accounted need each other.
QueueInv == Shape /\ Older /\ Bounded /\ Fifo /\ Accounted

\* A collector that never ran has an empty queue and no file.
LEMMA QueueInit == Init => QueueInv
  <1> SUFFICES ASSUME Init
               PROVE  QueueInv
    OBVIOUS
  <1>1. Ordered(<< >>) /\ Ids(<< >>) = {} /\ << >> \o << >> = << >> /\ Len(<< >>) = 0
    BY DEF Ordered, Ids
  <1> QED
    BY <1>1, CapacityAssumption
    DEF Init, QueueInv, Shape, Older, Bounded, Fifo, Accounted, Held, InFlight, NoFile

\* Batches are numbers.
LEMMA BatchNumbers ==
  ASSUME TypeOK
  PROVE  /\ \A b \in Batches : b \in Nat
         /\ Held \subseteq Batches /\ InFlight \subseteq Batches
         /\ Ids(dlq) \subseteq Batches /\ Ids(pending) \subseteq Batches
         /\ Ids(stillFailing) \subseteq Batches
         /\ Ids(snapshot) \subseteq Batches /\ Ids(file.recs) \subseteq Batches
  <1>1. \A s \in Seq(Entries) : Ids(s) \subseteq Batches
    BY IdsFinite
  <1>2. \A b \in Batches : b \in Nat
    BY DEF Batches
  <1> QED
    BY <1>1, <1>2 DEF TypeOK, Held, InFlight

\* The order of the drain's two lists, spelled out.
LEMMA FifoInFlight ==
  ASSUME TypeOK
  PROVE  Fifo <=> /\ Ordered(stillFailing) /\ Ordered(pending)
                  /\ \A b \in Ids(stillFailing), c \in Ids(pending) : b < c
                  /\ Ordered(dlq)
                  /\ \A b \in InFlight, c \in Ids(dlq) : b < c
                  /\ Ordered(snapshot)
                  /\ Ordered(file.recs)
  BY OrderedConcat DEF TypeOK, Fifo

\* enqueueDLQ keeps the queue within its capacity, in order, and accounts for
\* the entry it evicts.
LEMMA QueueEnqueue == TypeOK /\ QueueInv /\ Enqueue => QueueInv'
  <1> SUFFICES ASSUME TypeOK, QueueInv, Enqueue
               PROVE  QueueInv'
    OBVIOUS
  <1> USE DEF main, loop, ledger, excuses
  <1> DEFINE room == MakeRoom(dlq)
             gone == Ids(dlq) \ Ids(room)
             e    == [batch |-> nextBatch, attempts |-> 0]
  <1>1. dlq \in Seq(Entries) /\ Ordered(dlq) /\ Len(dlq) <= MaxEntries
    BY DEF TypeOK, QueueInv, Fifo, Bounded
  <1>2. /\ room \in Seq(Entries) /\ Len(room) < MaxEntries /\ Ordered(room)
        /\ Ids(room) \subseteq Ids(dlq)
    BY <1>1, MakeRoomProperties
  <1>3. e \in Entries /\ e.batch = nextBatch
    BY EntryType, AttemptsAssumption DEF Enqueue
  <1>4. \A b \in entered : b < nextBatch
    BY DEF QueueInv, Older
  <1>5. Held \subseteq entered
    BY DEF QueueInv, Accounted
  <1>6. \A b \in Ids(room) : b < e.batch
    BY <1>2, <1>3, <1>4, <1>5 DEF Held
  <1> HIDE DEF e
  <1>7. /\ Append(room, e) \in Seq(Entries) /\ Ordered(Append(room, e))
        /\ Ids(Append(room, e)) = Ids(room) \cup {nextBatch}
        /\ Len(Append(room, e)) <= MaxEntries
    BY <1>2, <1>3, <1>6, IdsAppend, OrderedAppend, CapacityAssumption
  <1>8. /\ dlq' = Append(room, e) /\ evicted' = evicted \cup gone
    BY DEF Enqueue, e
  <1> HIDE DEF room
  <1>9. /\ UNCHANGED <<phase, retry, pending, stillFailing, snapshot, tmp, file, restored,
                       flushed, abandoned>>
        /\ phase = "running" /\ nextBatch' = nextBatch + 1 /\ entered' = entered \cup {nextBatch}
        /\ nextBatch \in Nat
    BY DEF Enqueue, TypeOK
  <1>10. Shape'
    BY <1>9 DEF QueueInv, Shape
  <1>11. \A b \in entered \cup Ids(snapshot) \cup Ids(file.recs) : b \in Nat /\ b < nextBatch
    BY BatchNumbers DEF QueueInv, Older, TypeOK
  <1>12. Older'
    BY <1>9, <1>11 DEF Older
  <1>13. Bounded'
    BY <1>7, <1>8, <1>9 DEF QueueInv, Bounded
  <1>14. InFlight' = InFlight /\ Held' = (Held \ gone) \cup {nextBatch}
    <2>1. InFlight \cap Ids(dlq) = {}
      <3>1. \A b \in InFlight, c \in Ids(dlq) : b \in Nat /\ b < c
        BY BatchNumbers DEF QueueInv, Fifo
      <3> QED
        BY <3>1
    <2> QED
      BY <1>2, <1>7, <1>8, <1>9, <2>1 DEF InFlight, Held
  <1>15. Fifo'
    <2>1. \A b \in InFlight, c \in Ids(dlq') : b < c
      BY <1>2, <1>4, <1>5, <1>7, <1>8 DEF QueueInv, Fifo, Held
    <2> QED
      BY <1>7, <1>8, <1>9, <1>14, <2>1 DEF QueueInv, Fifo
  <1>16. Accounted'
    <2>1. nextBatch \notin entered
      BY <1>4, <1>9
    <2>2. gone \subseteq Held
      BY DEF Held
    <2> QED
      BY <1>8, <1>9, <1>14, <2>1, <2>2 DEF QueueInv, Accounted
  <1> QED
    BY <1>10, <1>12, <1>13, <1>15, <1>16 DEF QueueInv

\* What Start restores into the empty queue is a prefix of the file's records.
LEMMA RestoredPrefix ==
  ASSUME TypeOK, QueueInv, NEW read \in 0..MaxEntries, StartRestore(read)
  PROVE  /\ dlq' = SubSeq(file.recs, 1, read)
         /\ dlq' \in Seq(Entries) /\ Len(dlq') <= MaxEntries /\ Ordered(dlq')
         /\ Ids(dlq') \subseteq Ids(file.recs)
         /\ entered' = Ids(dlq') /\ restored' = Ids(dlq')
         /\ atRisk' = atRisk \cup (Ids(file.recs) \ Ids(dlq'))
  <1>1. file.recs \in Seq(Entries) /\ Len(file.recs) <= MaxEntries /\ Ordered(file.recs)
    BY DEF TypeOK, QueueInv, Fifo, Bounded
  <1>2. dlq = << >> /\ entered = {} /\ read <= Len(file.recs)
    BY DEF StartRestore, QueueInv, Shape
  <1>3. PICK loaded : loaded = loadDLQ(file, read)
    OBVIOUS
  <1>4. loaded \in Seq(Entries) /\ Restorable(loaded, << >>) = loaded
    BY <1>1, <1>2, <1>3, RestoreAll
  <1>5. << >> \o loaded = loaded
    BY <1>4
  <1>6. /\ dlq' = loaded /\ entered' = Ids(loaded) /\ restored' = Ids(loaded)
        /\ atRisk' = atRisk \cup (Ids(file.recs) \ Ids(loaded))
    BY <1>2, <1>3, <1>4, <1>5 DEF StartRestore
  <1>7. loaded = SubSeq(file.recs, 1, read)
    BY <1>3 DEF loadDLQ
  <1>8. Len(loaded) <= MaxEntries /\ Ids(loaded) \subseteq Ids(file.recs) /\ Ordered(loaded)
    BY <1>1, <1>2, <1>7, IdsSubSeq, OrderedSubSeq, CapacityAssumption
  <1> QED
    BY <1>4, <1>6, <1>7, <1>8

\* Start restores what it can read of the file into the empty queue.
LEMMA QueueRestore ==
  ASSUME TypeOK, QueueInv, NEW read \in 0..MaxEntries, StartRestore(read)
  PROVE  QueueInv'
  <1> USE DEF main, loop, ledger, excuses
  <1>1. phase = "starting" /\ phase' = "running"
    BY DEF StartRestore
  <1>2. /\ dlq = << >> /\ entered = {} /\ flushed = {} /\ abandoned = {} /\ evicted = {}
    BY <1>1 DEF QueueInv, Shape
  <1>3. InFlight = {}
    BY <1>2 DEF QueueInv, Accounted, Held
  <1>4. /\ Len(dlq') <= MaxEntries /\ Ordered(dlq') /\ Ids(dlq') \subseteq Ids(file.recs)
        /\ entered' = Ids(dlq')
    BY RestoredPrefix
  <1>5. UNCHANGED <<retry, pending, stillFailing, snapshot, tmp, file, flushed, abandoned,
                    evicted, nextBatch>>
    BY DEF StartRestore, FileAfterLoad
  <1>6. InFlight' = {} /\ Held' = Ids(dlq')
    BY <1>3, <1>5 DEF InFlight, Held, Ids
  <1>7. Shape'
    BY <1>1, <1>5 DEF QueueInv, Shape
  <1>8. Older'
    BY <1>4, <1>5 DEF QueueInv, Older
  <1>9. Bounded'
    BY <1>4, <1>5 DEF QueueInv, Bounded
  <1>10. Fifo'
    BY <1>4, <1>5, <1>6 DEF QueueInv, Fifo
  <1>11. Accounted'
    BY <1>2, <1>4, <1>5, <1>6 DEF Accounted
  <1> QED
    BY <1>7, <1>8, <1>9, <1>10, <1>11 DEF QueueInv

\* A drain takes the whole queue: nothing is in flight before it does.
LEMMA QueueTake == TypeOK /\ QueueInv /\ DrainTake => QueueInv'
  <1> SUFFICES ASSUME TypeOK, QueueInv, DrainTake
               PROVE  QueueInv'
    OBVIOUS
  <1> USE DEF main, loop, ledger, excuses
  <1>1. pending = << >> /\ stillFailing = << >>
    BY DEF DrainTake, QueueInv, Shape
  <1>2. /\ dlq' = << >> /\ pending' = dlq
        /\ retry' = (IF dlq = << >> THEN "wait" ELSE "sending")
        /\ UNCHANGED <<phase, stillFailing, snapshot, tmp, file, nextBatch, entered, restored,
                       flushed, abandoned, evicted>>
    BY DEF DrainTake
  <1>3. phase # "down"
    BY DEF DrainTake, QueueInv, Shape
  <1>4. Held' = Held
    BY <1>1, <1>2, IdsEmpty DEF Held, InFlight
  <1>5. Shape'
    BY <1>1, <1>2, <1>3 DEF QueueInv, Shape
  <1>6. Older'
    BY <1>2 DEF QueueInv, Older
  <1>7. Bounded'
    BY <1>1, <1>2, CapacityAssumption DEF QueueInv, Bounded, TypeOK
  <1>8. Fifo'
    <2>1. << >> \o dlq = dlq
      BY DEF TypeOK
    <2>2. Ordered(<< >>)
      BY DEF Ordered
    <2> QED
      BY <1>1, <1>2, <2>1, <2>2, IdsEmpty DEF QueueInv, Fifo
  <1>9. Accounted'
    BY <1>2, <1>4 DEF QueueInv, Accounted
  <1> QED
    BY <1>5, <1>6, <1>7, <1>8, <1>9 DEF QueueInv

\* One retry moves the oldest pending entry behind the ones that still fail,
\* or out of the queue.
LEMMA QueueSend ==
  ASSUME TypeOK, QueueInv, NEW acked \in BOOLEAN, DrainSend(acked)
  PROVE  QueueInv'
  <1> USE DEF main, loop, ledger, excuses
  <1> DEFINE e == Head(pending)
             b == e.batch
             out == acked \/ Spent(e)
  <1>1. retry = "sending" /\ pending # << >> /\ pending \in Seq(Entries)
    BY DEF DrainSend, TypeOK
  <1>2. /\ e \in Entries /\ Tail(pending) \in Seq(Entries)
        /\ Len(Tail(pending)) = Len(pending) - 1
        /\ Ids(pending) = {b} \cup Ids(Tail(pending))
    BY <1>1, IdsHeadTail
  <1>3. /\ Ordered(stillFailing) /\ Ordered(pending) /\ Ordered(dlq)
        /\ \A x \in Ids(stillFailing), y \in Ids(pending) : x < y
        /\ \A x \in InFlight, y \in Ids(dlq) : x < y
        /\ stillFailing \in Seq(Entries)
    BY FifoInFlight DEF QueueInv, TypeOK
  <1>4. Ordered(Tail(pending)) /\ \A y \in Ids(Tail(pending)) : b < y
    BY <1>1, <1>3, OrderedHeadTail
  <1>5. b \in InFlight /\ b \in Nat /\ b \in Ids(pending)
    BY <1>2, BatchNumbers DEF InFlight
  <1>6. /\ b \notin Ids(stillFailing) /\ b \notin Ids(Tail(pending)) /\ b \notin Ids(dlq)
    BY <1>3, <1>4, <1>5, BatchNumbers
  <1> HIDE DEF e
  <1>7. /\ pending' = Tail(pending)
        /\ stillFailing' = IF out THEN stillFailing ELSE Append(stillFailing, Attempt(e))
        /\ flushed' = flushed \cup (IF acked THEN {b} ELSE {})
        /\ abandoned' = abandoned \cup (IF ~acked /\ Spent(e) THEN {b} ELSE {})
        /\ UNCHANGED <<phase, retry, dlq, snapshot, tmp, file, nextBatch, entered, restored, evicted>>
    BY DEF DrainSend, e
  <1>8. Shape'
    <2>1. b \in entered
      BY <1>5 DEF QueueInv, Accounted, Held
    <2>2. phase \notin {"down", "starting"}
      BY <2>1 DEF QueueInv, Shape
    <2> QED
      BY <1>1, <1>7, <2>2 DEF QueueInv, Shape
  <1>9. Older'
    BY <1>7 DEF QueueInv, Older
  <1>10. CASE out
    <2>1. stillFailing' = stillFailing
      BY <1>7, <1>10
    <2>2. Held' = Held \ {b} /\ InFlight' \subseteq InFlight
      BY <1>2, <1>6, <1>7, <2>1 DEF Held, InFlight
    <2>3. Bounded'
      <3>1. Len(stillFailing) + Len(Tail(pending)) <= MaxEntries
        BY <1>1, <1>2, <1>3, CapacityAssumption DEF QueueInv, Bounded
      <3> QED
        BY <1>7, <2>1, <3>1 DEF QueueInv, Bounded
    <2>4. Fifo'
      <3>1. Ordered(stillFailing \o Tail(pending))
        BY <1>2, <1>3, <1>4, OrderedConcat
      <3> QED
        BY <1>3, <1>7, <2>1, <2>2, <3>1 DEF QueueInv, Fifo
    <2>5. b \in Held
      BY <1>5 DEF Held
    <2>6. \/ flushed' = flushed \cup {b} /\ abandoned' = abandoned
          \/ flushed' = flushed /\ abandoned' = abandoned \cup {b}
      BY <1>7, <1>10
    <2>7. Accounted'
      BY <1>7, <2>2, <2>5, <2>6 DEF QueueInv, Accounted
    <2> QED
      BY <1>8, <1>9, <2>3, <2>4, <2>7 DEF QueueInv
  <1>11. CASE ~out
    <2>1. Attempt(e) \in Entries /\ Attempt(e).batch = b
      BY <1>2, <1>11, AttemptType
    <2>2. stillFailing' = Append(stillFailing, Attempt(e))
      BY <1>7, <1>11
    <2>3. /\ stillFailing' \in Seq(Entries) /\ Len(stillFailing') = Len(stillFailing) + 1
          /\ Ids(stillFailing') = Ids(stillFailing) \cup {b}
      BY <1>3, <2>1, <2>2, IdsAppend
    <2>4. Held' = Held /\ InFlight' = InFlight
      BY <1>2, <1>7, <2>3 DEF Held, InFlight
    <2>5. Bounded'
      BY <1>1, <1>2, <1>3, <1>7, <2>3 DEF QueueInv, Bounded
    <2>6. Fifo'
      <3>1. Ordered(stillFailing')
        BY <1>3, <1>5, <2>1, <2>2, OrderedAppend
      <3>2. \A x \in Ids(stillFailing'), y \in Ids(Tail(pending)) : x < y
        BY <1>2, <1>3, <1>4, <2>3
      <3>3. Ordered(stillFailing' \o Tail(pending))
        BY <1>2, <1>4, <2>3, <3>1, <3>2, OrderedConcat
      <3> QED
        BY <1>3, <1>7, <2>4, <3>3 DEF QueueInv, Fifo
    <2>7. Accounted'
      BY <1>7, <1>11, <2>4 DEF QueueInv, Accounted
    <2> QED
      BY <1>8, <1>9, <2>5, <2>6, <2>7 DEF QueueInv
  <1> QED
    BY <1>10, <1>11

\* The merge puts back what still fails, in front, and evicts the oldest
\* entries down to the capacity.
LEMMA QueueMerge == TypeOK /\ QueueInv /\ DrainMerge => QueueInv'
  <1> SUFFICES ASSUME TypeOK, QueueInv, DrainMerge
               PROVE  QueueInv'
    OBVIOUS
  <1> USE DEF main, loop, ledger, excuses
  <1> DEFINE merged == stillFailing \o dlq
             gone   == Ids(merged) \ Ids(Newest(merged))
  <1>1. pending = << >> /\ retry = "sending" /\ retry' = "wait"
    BY DEF DrainMerge
  <1>2. stillFailing \in Seq(Entries) /\ dlq \in Seq(Entries)
    BY DEF TypeOK
  <1>3. InFlight = Ids(stillFailing) /\ Held = Ids(stillFailing) \cup Ids(dlq)
    BY <1>1, IdsEmpty DEF InFlight, Held
  <1>4. Ordered(merged)
    BY <1>2, <1>3, FifoInFlight, OrderedConcat DEF QueueInv
  <1>5. merged \in Seq(Entries) /\ Ids(merged) = Held
    BY <1>2, <1>3, IdsConcat
  <1> HIDE DEF merged
  <1>6. /\ Newest(merged) \in Seq(Entries) /\ Len(Newest(merged)) <= MaxEntries
        /\ Ordered(Newest(merged)) /\ Ids(Newest(merged)) \subseteq Ids(merged)
    BY <1>4, <1>5, NewestProperties
  <1>7. /\ dlq' = Newest(merged) /\ stillFailing' = << >> /\ pending' = << >>
        /\ evicted' = evicted \cup gone
        /\ UNCHANGED <<phase, snapshot, tmp, file, nextBatch, entered, restored, flushed, abandoned>>
    BY <1>1 DEF DrainMerge, Prepend, merged
  <1>8. InFlight' = {} /\ Held' = Held \ gone
    BY <1>5, <1>6, <1>7, IdsEmpty DEF InFlight, Held
  <1>9. Shape'
    <2>1. CASE phase = "starting"
      <3>1. Held = {} /\ evicted = {}
        BY <2>1 DEF QueueInv, Shape, Accounted
      <3>2. Ids(merged) = {} /\ gone = {}
        BY <1>5, <3>1
      <3>3. Newest(merged) = << >>
        <4>1. ASSUME Newest(merged) # << >>
              PROVE  FALSE
          BY <1>6, <3>2, <4>1, IdsHeadTail
        <4> QED
          BY <4>1
      <3> QED
        BY <1>1, <1>7, <2>1, <3>1, <3>2, <3>3 DEF QueueInv, Shape
    <2>2. CASE phase # "starting"
      <3>1. phase # "down"
        BY <1>1 DEF QueueInv, Shape
      <3> QED
        BY <1>1, <1>7, <2>2, <3>1 DEF QueueInv, Shape
    <2> QED
      BY <2>1, <2>2
  <1>10. Older'
    BY <1>7 DEF QueueInv, Older
  <1>11. Bounded'
    BY <1>6, <1>7, CapacityAssumption DEF QueueInv, Bounded
  <1>12. Fifo'
    <2>1. Ordered(<< >> \o << >>)
      BY DEF Ordered
    <2> QED
      BY <1>6, <1>7, <1>8, <2>1 DEF QueueInv, Fifo
  <1>13. Accounted'
    BY <1>5, <1>7, <1>8 DEF QueueInv, Accounted
  <1> QED
    BY <1>9, <1>10, <1>11, <1>12, <1>13 DEF QueueInv

\* saveDLQ writes what Shutdown copied, record by record.
LEMMA QueueSave == TypeOK /\ QueueInv /\ (SaveRecord \/ SaveRename) => QueueInv'
  <1> SUFFICES ASSUME TypeOK, QueueInv, SaveRecord \/ SaveRename
               PROVE  QueueInv'
    OBVIOUS
  <1> USE DEF main, loop, ledger, excuses
  <1>1. UNCHANGED <<dlq, retry, pending, stillFailing, snapshot, nextBatch, entered, restored,
                    flushed, abandoned, evicted>>
    BY DEF SaveRecord, SaveRename
  <1>2. phase = "saving" /\ tmp \in Seq(Entries) /\ snapshot \in Seq(Entries)
    BY DEF SaveRecord, SaveRename, TypeOK
  <1>3. InFlight' = InFlight /\ Held' = Held
    BY <1>1 DEF InFlight, Held
  <1>4. Accounted'
    BY <1>1, <1>3 DEF QueueInv, Accounted
  <1>5. CASE SaveRecord
    <2>1. tmp' = Append(tmp, snapshot[Len(tmp) + 1]) /\ Len(tmp) < Len(snapshot)
          /\ UNCHANGED <<phase, file>>
      BY <1>5 DEF SaveRecord, FileWhileSaving
    <2>2. snapshot[Len(tmp) + 1] \in Entries
      BY <1>2, <2>1
    <2>3. Len(tmp') <= Len(snapshot) /\ \A i \in DOMAIN tmp' : tmp'[i] = snapshot[i]
      BY <1>2, <2>1, <2>2 DEF QueueInv, Shape
    <2> QED
      BY <1>1, <1>2, <1>3, <1>4, <2>1, <2>3 DEF QueueInv, Shape, Older, Bounded, Fifo
  <1>6. CASE SaveRename
    <2>1. tmp' = << >> /\ file' = [count |-> Len(snapshot), recs |-> tmp] /\ phase' = "saved"
          /\ Len(tmp) = Len(snapshot)
      BY <1>6 DEF SaveRename
    <2>2. tmp = snapshot
      BY <1>2, <2>1 DEF QueueInv, Shape
    <2>3. file'.recs = snapshot
      BY <2>1, <2>2
    <2>4. Shape'
      BY <1>1, <1>2, <2>1 DEF QueueInv, Shape
    <2> QED
      BY <1>1, <1>3, <1>4, <2>3, <2>4 DEF QueueInv, Older, Bounded, Fifo
  <1> QED
    BY <1>5, <1>6

\* The process is gone; only the file remains.
LEMMA QueueGone == TypeOK /\ QueueInv /\ ProcessGone => QueueInv'
  <1> SUFFICES ASSUME TypeOK, QueueInv, ProcessGone
               PROVE  QueueInv'
    OBVIOUS
  <1>1. Ordered(<< >>) /\ Ordered(<< >> \o << >>) /\ Len(<< >>) = 0
    BY DEF Ordered
  <1>2. InFlight' = {} /\ Held' = {}
    BY IdsEmpty DEF ProcessGone, InFlight, Held
  <1> QED
    BY <1>1, <1>2, IdsEmpty, CapacityAssumption
    DEF ProcessGone, QueueInv, Shape, Older, Bounded, Fifo, Accounted

\* A damaged file is a prefix of the file.
LEMMA QueueDamage ==
  ASSUME TypeOK, QueueInv, NEW readable \in 0..(MaxEntries - 1), Damage(readable)
  PROVE  QueueInv'
  <1> USE DEF main, loop, ledger, excuses
  <1>1. file.recs \in Seq(Entries) /\ Len(file.recs) <= MaxEntries /\ Ordered(file.recs)
    BY DEF TypeOK, QueueInv, Bounded, Fifo
  <1>2. readable \in Nat /\ readable < Len(file.recs) /\ Len(file.recs) \in Nat
    BY <1>1, CapacityAssumption DEF Damage
  <1>3. 1 \in 1..(Len(file.recs) + 1) /\ readable \in 0..Len(file.recs)
    BY <1>2
  <1>4. file'.recs = SubSeq(file.recs, 1, readable)
    BY DEF Damage
  <1>5. /\ Ids(file'.recs) \subseteq Ids(file.recs)
        /\ Len(file'.recs) <= MaxEntries
        /\ Ordered(file'.recs)
    BY <1>1, <1>2, <1>3, <1>4, IdsSubSeq, OrderedSubSeq, CapacityAssumption
  <1>6. UNCHANGED <<phase, dlq, retry, pending, stillFailing, snapshot, tmp, nextBatch, entered,
                    restored, flushed, abandoned, evicted>>
    BY DEF Damage
  <1>7. InFlight' = InFlight /\ Held' = Held
    BY <1>6 DEF InFlight, Held
  <1> QED
    BY <1>5, <1>6, <1>7 DEF QueueInv, Shape, Older, Bounded, Fifo, Accounted

\* Every step keeps the induction hypothesis.
LEMMA QueueStep == TypeOK /\ QueueInv /\ [Next]_vars => QueueInv'
  <1> SUFFICES ASSUME TypeOK, QueueInv, [Next]_vars
               PROVE  QueueInv'
    OBVIOUS
  <1> USE DEF main, loop, ledger, excuses
  <1> DEFINE places == <<dlq, pending, stillFailing, entered, restored, flushed, abandoned,
                         evicted, nextBatch, file, tmp>>
  <1>1. ASSUME UNCHANGED places, UNCHANGED snapshot, Shape'
        PROVE  QueueInv'
    <2>1. InFlight' = InFlight /\ Held' = Held
      BY <1>1 DEF InFlight, Held
    <2> QED
      BY <1>1, <2>1 DEF QueueInv, Older, Bounded, Fifo, Accounted
  <1>2. CASE StartLoops
    BY <1>1, <1>2 DEF StartLoops, QueueInv, Shape
  <1>3. CASE Tick \/ RetryWake \/ ShutdownStop \/ ShutdownClose
    BY <1>1, <1>3 DEF Tick, RetryWake, ShutdownStop, ShutdownClose, MayClose, QueueInv, Shape
  <1>4. CASE RetryExit
    BY <1>1, <1>4 DEF RetryExit, QueueInv, Shape
  <1>5. CASE ShutdownCopy
    <2>1. /\ snapshot' = dlq /\ UNCHANGED places /\ UNCHANGED retry
          /\ phase = "stopping" /\ phase' = "saving"
      BY <1>5 DEF ShutdownCopy
    <2>2. InFlight' = InFlight /\ Held' = Held
      BY <2>1 DEF InFlight, Held
    <2>3. Ids(dlq) \subseteq entered
      BY DEF QueueInv, Accounted, Held
    <2>4. tmp = << >>
      BY <2>1 DEF QueueInv, Shape
    <2>5. Shape'
      BY <2>1, <2>4 DEF QueueInv, Shape, TypeOK
    <2> QED
      BY <2>1, <2>2, <2>3, <2>5 DEF QueueInv, Older, Bounded, Fifo, Accounted
  <1>6. ASSUME NEW removed \in BOOLEAN, SaveNothing(removed)
        PROVE  QueueInv'
    <2>1. /\ UNCHANGED <<dlq, retry, pending, stillFailing, snapshot, tmp, nextBatch, entered,
                         restored, flushed, abandoned, evicted>>
          /\ file' = file \/ file' = NoFile
          /\ phase = "saving" /\ phase' = "saved" /\ snapshot = << >>
      BY <1>6 DEF SaveNothing
    <2>2. InFlight' = InFlight /\ Held' = Held
      BY <2>1 DEF InFlight, Held
    <2>3. tmp = << >>
      BY <2>1 DEF QueueInv, Shape, TypeOK
    <2>4. Shape'
      BY <2>1, <2>3 DEF QueueInv, Shape
    <2>5. NoFile.recs = << >> /\ Ordered(<< >>)
      BY DEF NoFile, Ordered
    <2> QED
      BY <2>1, <2>2, <2>4, <2>5, IdsEmpty, CapacityAssumption
      DEF QueueInv, Older, Bounded, Fifo, Accounted
  <1>7. CASE SaveFail
    <2>1. /\ UNCHANGED <<dlq, retry, pending, stillFailing, snapshot, file, nextBatch, entered,
                         restored, flushed, abandoned, evicted>>
          /\ tmp' = << >> /\ phase = "saving" /\ phase' = "saved"
      BY <1>7 DEF SaveFail
    <2>2. InFlight' = InFlight /\ Held' = Held
      BY <2>1 DEF InFlight, Held
    <2>3. Shape'
      BY <2>1 DEF QueueInv, Shape, TypeOK
    <2> QED
      BY <2>1, <2>2, <2>3 DEF QueueInv, Older, Bounded, Fifo, Accounted
  <1>8. CASE UNCHANGED vars
    BY <1>1, <1>8 DEF vars, QueueInv, Shape
  <1>9. CASE Exit \/ Crash
    BY <1>9, QueueGone DEF Exit, Crash
  <1> QED
    BY NextCases, <1>2, <1>3, <1>4, <1>5, <1>6, <1>7, <1>8, <1>9, QueueRestore, QueueEnqueue,
       QueueTake, QueueSend, QueueMerge, QueueSave, QueueDamage

\* Bounded, Fifo and Accounted are invariants for every capacity, every number
\* of attempts and every number of batches, with any number of crashes and
\* restarts.
THEOREM QueueCorrect == Spec => [](Bounded /\ Fifo /\ Accounted)
  <1>1. QueueInv => Bounded /\ Fifo /\ Accounted
    BY DEF QueueInv
  <1> QED
    BY TypeInit, TypeStep, QueueInit, QueueStep, <1>1, PTL DEF Spec

\* Only enqueueDLQ and the merge evict, and both keep what is younger.
LEMMA EvictsStep ==
  ASSUME TypeOK, QueueInv, [Next]_vars, NEW b \in evicted' \ evicted
  PROVE  Len(dlq') = MaxEntries /\ \A c \in Ids(dlq') : b < c
  <1> USE DEF main, loop, ledger, excuses
  <1>1. CASE Enqueue
    <2> DEFINE room == MakeRoom(dlq)
               e    == [batch |-> nextBatch, attempts |-> 0]
    <2>1. dlq \in Seq(Entries) /\ Ordered(dlq) /\ Len(dlq) <= MaxEntries
      BY DEF TypeOK, QueueInv, Fifo, Bounded
    <2>2. e \in Entries /\ e.batch = nextBatch
      BY <1>1, EntryType, AttemptsAssumption DEF Enqueue
    <2> HIDE DEF e
    <2>3. b \in Ids(dlq) \ Ids(room) /\ dlq' = Append(room, e)
      BY <1>1 DEF Enqueue, e
    <2>4. /\ room \in Seq(Entries) /\ Len(room) = MaxEntries - 1
          /\ \A c \in Ids(room) : b < c
      BY <2>1, <2>3, MakeRoomProperties
    <2>5. b < nextBatch
      BY <2>3 DEF QueueInv, Older, Accounted, Held
    <2> HIDE DEF room
    <2> QED
      BY <2>2, <2>3, <2>4, <2>5, IdsAppend, CapacityAssumption
  <1>2. CASE DrainMerge
    <2> DEFINE merged == stillFailing \o dlq
    <2>1. pending = << >> /\ stillFailing \in Seq(Entries) /\ dlq \in Seq(Entries)
      BY <1>2 DEF DrainMerge, TypeOK
    <2>2. InFlight = Ids(stillFailing)
      BY <2>1, IdsEmpty DEF InFlight
    <2>3. Ordered(merged) /\ merged \in Seq(Entries)
      BY <2>1, <2>2, FifoInFlight, OrderedConcat, IdsConcat DEF QueueInv
    <2> HIDE DEF merged
    <2>4. b \in Ids(merged) \ Ids(Newest(merged)) /\ dlq' = Newest(merged)
      BY <1>2 DEF DrainMerge, Prepend, merged
    <2> QED
      BY <2>3, <2>4, NewestProperties
  <1>3. ASSUME NEW acked \in BOOLEAN, DrainSend(acked)
        PROVE  FALSE
    BY <1>3 DEF DrainSend
  <1>4. ASSUME NEW removed \in BOOLEAN, SaveNothing(removed)
        PROVE  FALSE
    BY <1>4 DEF SaveNothing
  <1>5. ASSUME NEW readable \in 0..(MaxEntries - 1), Damage(readable)
        PROVE  FALSE
    BY <1>5 DEF Damage
  <1>6. ASSUME NEW read \in 0..MaxEntries, StartRestore(read)
        PROVE  FALSE
    BY <1>6 DEF StartRestore
  <1>7. ASSUME \/ StartLoops \/ Tick \/ RetryWake \/ RetryExit \/ DrainTake
               \/ ShutdownStop \/ ShutdownCopy \/ SaveRecord \/ SaveRename \/ SaveFail
               \/ ShutdownClose \/ Exit \/ Crash \/ UNCHANGED vars
        PROVE  FALSE
    BY <1>7 DEF StartLoops, Tick, RetryWake, RetryExit, DrainTake, ShutdownStop,
                ShutdownCopy, SaveRecord, SaveRename, SaveFail, ShutdownClose, Exit, Crash,
                ProcessGone, vars
  <1> QED
    BY NextCases, <1>1, <1>2, <1>3, <1>4, <1>5, <1>6, <1>7

\* The queue evicts only when it is full, and only what is older than all it
\* keeps: the action property EvictsOldest.
THEOREM EvictionCorrect == Spec => EvictsOldest
  <1>1. TypeOK /\ QueueInv /\ [Next]_vars =>
           [\A b \in evicted' \ evicted :
               Len(dlq') = MaxEntries /\ \A c \in Ids(dlq') : b < c]_vars
    BY EvictsStep
  <1> QED
    BY TypeInit, TypeStep, QueueInit, QueueStep, <1>1, PTL DEF Spec, EvictsOldest

-----------------------------------------------------------------------------
(***************************************************************************)
(* Restarts: the file and the batches it owes.                             *)
(***************************************************************************)

\* While Shutdown has not saved, the file still has what Start restored; once
\* it has copied the queue, what is held is in the copy or was in flight; once
\* it has saved, what is held is in the file or its loss has a reason.
Covered ==
    /\ flushed \cup abandoned \cup evicted \subseteq settled
    /\ phase \in {"running", "stopping", "saving"} => restored \subseteq Ids(file.recs)
    /\ phase = "saving" => Held \subseteq Ids(snapshot) \cup cutOff
    /\ phase \in {"saved", "closed"} => Held \subseteq Ids(file.recs) \cup cutOff \cup atRisk

LossInv == Covered /\ NoUnexplainedLoss /\ WholeFile

\* Before the first Start nothing has failed to be forwarded.
LEMMA LossInit == Init => LossInv
  BY IdsEmpty DEF Init, LossInv, Covered, NoUnexplainedLoss, WholeFile, Safe, Held, InFlight, NoFile

\* Where the accounts of this process only grow, what it held is held still or
\* is settled, and with nothing new it holds nothing new.
LEMMA HeldOrSettled ==
  ASSUME QueueInv, QueueInv', entered \subseteq entered', settled \subseteq settled',
         flushed \subseteq flushed', abandoned \subseteq abandoned', evicted \subseteq evicted',
         flushed' \cup abandoned' \cup evicted' \subseteq settled'
  PROVE  /\ Held \cup settled \subseteq Held' \cup settled'
         /\ entered' = entered => Held' \subseteq Held
  <1>1. /\ entered = Held \cup flushed \cup abandoned \cup evicted
        /\ entered' = Held' \cup flushed' \cup abandoned' \cup evicted'
        /\ Held' \cap (flushed' \cup abandoned' \cup evicted') = {}
    BY DEF QueueInv, Accounted
  <1> QED
    BY <1>1

\* The steps of the retry goroutine and of the ticker.
LEMMA LossRetry ==
  ASSUME TypeOK, QueueInv, QueueInv', LossInv,
         \/ Tick \/ RetryWake \/ RetryExit \/ DrainTake \/ DrainMerge
         \/ \E acked \in BOOLEAN : DrainSend(acked)
  PROVE  LossInv'
  <1> USE DEF main, loop, ledger, excuses
  <1> DEFINE grows ==
               /\ UNCHANGED <<phase, file, snapshot, entered, restored, cutOff, atRisk, damaged,
                              nextBatch>>
               /\ flushed \subseteq flushed' /\ abandoned \subseteq abandoned'
               /\ evicted \subseteq evicted' /\ settled \subseteq settled'
               /\ (flushed' \cup abandoned' \cup evicted') \ (flushed \cup abandoned \cup evicted)
                     \subseteq settled'
  <1>1. grows
    <2>1. CASE Tick \/ RetryWake \/ RetryExit \/ DrainTake
      BY <2>1 DEF Tick, RetryWake, RetryExit, DrainTake
    <2>2. CASE DrainMerge
      BY <2>2 DEF DrainMerge
    <2>3. ASSUME NEW acked \in BOOLEAN, DrainSend(acked)
          PROVE  grows
      BY <2>3 DEF DrainSend
    <2> QED
      BY <2>1, <2>2, <2>3
  <1>2. flushed' \cup abandoned' \cup evicted' \subseteq settled'
    BY <1>1 DEF LossInv, Covered
  <1>3. Held \cup settled \subseteq Held' \cup settled' /\ Held' \subseteq Held
    BY <1>1, <1>2, HeldOrSettled
  <1>4. Covered'
    BY <1>1, <1>2, <1>3 DEF LossInv, Covered
  <1>5. NoUnexplainedLoss'
    BY <1>1, <1>3 DEF LossInv, NoUnexplainedLoss, Safe
  <1> QED
    BY <1>1, <1>4, <1>5 DEF LossInv, WholeFile

\* enqueueDLQ.
LEMMA LossEnqueue ==
  ASSUME TypeOK, QueueInv, QueueInv', LossInv, Enqueue
  PROVE  LossInv'
  <1> USE DEF main, loop, ledger, excuses
  <1>1. /\ UNCHANGED <<phase, file, restored, cutOff, atRisk, damaged, flushed, abandoned>>
        /\ phase = "running" /\ nextBatch' = nextBatch + 1 /\ nextBatch \in Nat
        /\ entered' = entered \cup {nextBatch}
    BY DEF Enqueue, TypeOK
  <1>2. PICK gone : evicted' = evicted \cup gone /\ settled' = settled \cup gone
    BY DEF Enqueue
  <1>3. flushed' \cup abandoned' \cup evicted' \subseteq settled'
    BY <1>1, <1>2 DEF LossInv, Covered
  <1>4. Held \cup settled \subseteq Held' \cup settled'
    BY <1>1, <1>2, <1>3, HeldOrSettled
  <1>5. nextBatch \in Held' \cup settled'
    BY <1>1, <1>3 DEF QueueInv, Accounted
  <1>6. 1..(nextBatch' - 1) = 1..(nextBatch - 1) \cup {nextBatch}
    BY <1>1 DEF TypeOK
  <1>7. NoUnexplainedLoss'
    BY <1>1, <1>4, <1>5, <1>6 DEF LossInv, NoUnexplainedLoss, Safe
  <1>8. Covered'
    BY <1>1, <1>3 DEF LossInv, Covered
  <1> QED
    BY <1>1, <1>7, <1>8 DEF LossInv, WholeFile

\* Start: the batches of the file are now in the queue, or were not read.
LEMMA LossRestore ==
  ASSUME TypeOK, QueueInv, QueueInv', LossInv, NEW read \in 0..MaxEntries, StartRestore(read)
  PROVE  LossInv'
  <1> USE DEF main, loop, ledger, excuses
  <1>1. phase = "starting" /\ phase' = "running"
        /\ flushed = {} /\ abandoned = {} /\ evicted = {}
    BY DEF StartRestore, QueueInv, Shape
  <1>2. /\ entered' = Ids(dlq') /\ restored' = Ids(dlq') /\ Ids(dlq') \subseteq Ids(file.recs)
        /\ atRisk' = atRisk \cup (Ids(file.recs) \ Ids(dlq'))
    BY RestoredPrefix
  <1>3. UNCHANGED <<file, flushed, abandoned, evicted, settled, cutOff, damaged, nextBatch>>
    BY DEF StartRestore, FileAfterLoad
  <1>4. Held' = Ids(dlq')
    BY <1>1, <1>2, <1>3 DEF QueueInv, Accounted
  <1> QED
    BY <1>1, <1>2, <1>3, <1>4 DEF LossInv, Covered, NoUnexplainedLoss, Safe, WholeFile

\* Shutdown and saveDLQ.
LEMMA LossShutdown ==
  ASSUME TypeOK, QueueInv, QueueInv', LossInv,
         \/ ShutdownStop \/ ShutdownCopy \/ ShutdownClose
         \/ SaveRecord \/ SaveRename \/ SaveFail
         \/ \E removed \in BOOLEAN : SaveNothing(removed)
  PROVE  LossInv'
  <1> USE DEF main, loop, ledger, excuses
  <1>1. UNCHANGED <<dlq, pending, stillFailing, entered, restored, flushed, abandoned, evicted,
                    settled, nextBatch>>
    BY DEF ShutdownStop, ShutdownCopy, ShutdownClose, SaveRecord, SaveRename, SaveFail, SaveNothing
  <1>2. Held' = Held /\ InFlight' = InFlight
    BY <1>1 DEF Held, InFlight
  <1>3. CASE ShutdownStop \/ ShutdownClose
    <2>1. UNCHANGED <<file, cutOff, atRisk, damaged>>
          /\ \/ phase = "running" /\ phase' = "stopping"
             \/ phase = "saved" /\ phase' = "closed"
      BY <1>3 DEF ShutdownStop, ShutdownClose, MayClose
    <2> QED
      BY <1>1, <1>2, <2>1 DEF LossInv, Covered, NoUnexplainedLoss, Safe, WholeFile
  <1>4. CASE ShutdownCopy
    <2>1. /\ UNCHANGED <<file, atRisk, damaged>> /\ cutOff' = cutOff \cup InFlight
          /\ snapshot' = dlq /\ phase = "stopping" /\ phase' = "saving"
      BY <1>4 DEF ShutdownCopy
    <2>2. Held \subseteq Ids(snapshot') \cup cutOff'
      BY <2>1 DEF Held
    <2> QED
      BY <1>1, <1>2, <2>1, <2>2 DEF LossInv, Covered, NoUnexplainedLoss, Safe, WholeFile
  <1>5. CASE SaveRecord
    <2>1. UNCHANGED <<file, snapshot, phase, cutOff, atRisk, damaged>>
      BY <1>5 DEF SaveRecord, FileWhileSaving
    <2> QED
      BY <1>1, <1>2, <2>1 DEF LossInv, Covered, NoUnexplainedLoss, Safe, WholeFile
  <1>6. CASE SaveRename
    <2>1. /\ file' = [count |-> Len(snapshot), recs |-> tmp] /\ Len(tmp) = Len(snapshot)
          /\ phase = "saving" /\ phase' = "saved" /\ UNCHANGED <<cutOff, atRisk>>
      BY <1>6 DEF SaveRename
    <2>2. tmp = snapshot
      <3>1. tmp \in Seq(Entries) /\ snapshot \in Seq(Entries)
        BY DEF TypeOK
      <3> QED
        BY <2>1, <3>1 DEF QueueInv, Shape
    <2>3. file'.recs = snapshot /\ file'.count = Len(snapshot)
      BY <2>1, <2>2
    <2> QED
      BY <1>1, <1>2, <2>1, <2>3 DEF LossInv, Covered, NoUnexplainedLoss, Safe, WholeFile
  <1>7. CASE SaveFail
    <2>1. /\ UNCHANGED <<file, cutOff, damaged>> /\ atRisk' = atRisk \cup (Held \ restored)
          /\ phase = "saving" /\ phase' = "saved"
      BY <1>7 DEF SaveFail
    <2> QED
      BY <1>1, <1>2, <2>1 DEF LossInv, Covered, NoUnexplainedLoss, Safe, WholeFile
  <1>8. ASSUME NEW removed \in BOOLEAN, SaveNothing(removed)
        PROVE  LossInv'
    <2>1. /\ UNCHANGED <<cutOff, atRisk>> /\ snapshot = << >>
          /\ phase = "saving" /\ phase' = "saved"
      BY <1>8 DEF SaveNothing
    <2>2. Held \subseteq cutOff
      BY <2>1, IdsEmpty DEF LossInv, Covered
    <2>3. WholeFile'
      <3>1. CASE removed
        BY <1>8, <3>1 DEF SaveNothing, WholeFile, NoFile
      <3>2. CASE ~removed
        BY <1>8, <3>2 DEF SaveNothing, WholeFile, LossInv
      <3> QED
        BY <3>1, <3>2
    <2> QED
      BY <1>1, <1>2, <2>1, <2>2, <2>3 DEF LossInv, Covered, NoUnexplainedLoss, Safe
  <1> QED
    BY <1>3, <1>4, <1>5, <1>6, <1>7, <1>8

\* The process ends, by itself or by a crash.
LEMMA LossGone ==
  ASSUME TypeOK, QueueInv, QueueInv', LossInv, Exit \/ Crash
  PROVE  LossInv'
  <1> USE DEF main, loop, ledger, excuses
  <1>1. /\ phase' = "down" /\ UNCHANGED <<file, nextBatch, settled, cutOff, damaged>>
        /\ flushed' = {} /\ abandoned' = {} /\ evicted' = {}
    BY DEF Exit, Crash, ProcessGone
  <1>2. atRisk \subseteq atRisk'
    BY DEF Exit, Crash
  <1>3. Safe \subseteq Ids(file.recs) \cup cutOff \cup atRisk'
    <2>1. CASE Exit
      BY <2>1, <1>2 DEF Exit, Safe, LossInv, Covered
    <2>2. CASE Crash
      <3>1. atRisk' = atRisk \cup (Held \ restored) /\ phase # "down"
        BY <2>2 DEF Crash
      <3>2. phase \in {"starting", "running", "stopping", "saving", "saved", "closed"}
        BY <3>1 DEF TypeOK, Phases
      <3> QED
        BY <3>1, <3>2 DEF Safe, LossInv, Covered
    <2> QED
      BY <2>1, <2>2
  <1>4. NoUnexplainedLoss'
    BY <1>1, <1>2, <1>3 DEF LossInv, NoUnexplainedLoss, Safe
  <1> QED
    BY <1>1, <1>4 DEF LossInv, Covered, WholeFile

\* Every step keeps the induction hypothesis.
LEMMA LossStep == TypeOK /\ QueueInv /\ QueueInv' /\ LossInv /\ [Next]_vars => LossInv'
  <1> SUFFICES ASSUME TypeOK, QueueInv, QueueInv', LossInv, [Next]_vars
               PROVE  LossInv'
    OBVIOUS
  <1> USE DEF main, loop, ledger, excuses
  <1>1. CASE StartLoops
    <2>1. /\ UNCHANGED <<file, nextBatch, settled, cutOff, atRisk, damaged, flushed, abandoned, evicted>>
          /\ phase = "down" /\ phase' = "starting"
      BY <1>1 DEF StartLoops
    <2> QED
      BY <2>1 DEF LossInv, Covered, NoUnexplainedLoss, Safe, WholeFile
  <1>2. ASSUME NEW readable \in 0..(MaxEntries - 1), Damage(readable)
        PROVE  LossInv'
    <2>1. /\ UNCHANGED <<phase, nextBatch, settled, cutOff, flushed, abandoned, evicted>>
          /\ phase = "down" /\ damaged' = TRUE
          /\ atRisk' = atRisk \cup (Ids(file.recs) \ Ids(file'.recs))
      BY <1>2 DEF Damage
    <2> QED
      BY <2>1 DEF LossInv, Covered, NoUnexplainedLoss, Safe, WholeFile
  <1>3. CASE UNCHANGED vars
    <2>1. Held' = Held
      BY <1>3 DEF vars, Held, InFlight
    <2> QED
      BY <1>3, <2>1 DEF vars, LossInv, Covered, NoUnexplainedLoss, Safe, WholeFile
  <1> QED
    BY NextCases, <1>1, <1>2, <1>3, LossRetry, LossEnqueue, LossRestore, LossShutdown, LossGone

\* Over any number of restarts, crashes and failed saves a batch is lost only
\* for a reason the code accepts, and the file is never half written.
THEOREM RestartCorrect == Spec => [](NoUnexplainedLoss /\ WholeFile)
  <1>1. LossInv => NoUnexplainedLoss /\ WholeFile
    BY DEF LossInv
  <1> QED
    BY TypeInit, TypeStep, QueueInit, QueueStep, LossInit, LossStep, <1>1, PTL DEF Spec

-----------------------------------------------------------------------------
(***************************************************************************)
(* The dead-letter queue implements the store of module RetryStore: every  *)
(* step of DLQ is a step of the store or leaves the store as it is.        *)
(***************************************************************************)

(***************************************************************************)
(* The entries of a queue as a set.                                        *)
(***************************************************************************)

\* The batches of a queue are the numbers of its entries.
LEMMA ElementsIds ==
  ASSUME NEW s \in Seq(Entries)
  PROVE  /\ Elements(s) \in SUBSET Entries
         /\ \A e \in Elements(s) : e.batch \in Ids(s)
         /\ Ids(s) = Store!Numbers(Elements(s))
  BY DEF Elements, Ids, Store!Numbers

\* An empty queue has no entries.
LEMMA ElementsEmpty == Elements(<< >>) = {}
  BY DEF Elements

\* enqueueDLQ and the send loop append one entry.
LEMMA ElementsAppend ==
  ASSUME NEW s \in Seq(Entries), NEW e \in Entries
  PROVE  Elements(Append(s, e)) = Elements(s) \cup {e}
  <1>1. \A i \in DOMAIN s : i \in DOMAIN Append(s, e) /\ Append(s, e)[i] = s[i]
    OBVIOUS
  <1>2. Len(s) + 1 \in DOMAIN Append(s, e) /\ Append(s, e)[Len(s) + 1] = e
    OBVIOUS
  <1>3. \A i \in DOMAIN Append(s, e) : i \in DOMAIN s \/ i = Len(s) + 1
    OBVIOUS
  <1> QED
    BY <1>1, <1>2, <1>3 DEF Elements

\* The merge concatenates.
LEMMA ElementsConcat ==
  ASSUME NEW s \in Seq(Entries), NEW t \in Seq(Entries)
  PROVE  Elements(s \o t) = Elements(s) \cup Elements(t)
  <1>1. \A i \in DOMAIN s : i \in DOMAIN (s \o t) /\ (s \o t)[i] = s[i]
    OBVIOUS
  <1>2. \A i \in DOMAIN t : Len(s) + i \in DOMAIN (s \o t) /\ (s \o t)[Len(s) + i] = t[i]
    OBVIOUS
  <1>3. \A i \in DOMAIN (s \o t) :
           \/ i \in DOMAIN s
           \/ i - Len(s) \in DOMAIN t /\ (s \o t)[i] = t[i - Len(s)]
    OBVIOUS
  <1>4. Elements(s \o t) \subseteq Elements(s) \cup Elements(t)
    BY <1>1, <1>3 DEF Elements
  <1>5. Elements(s) \subseteq Elements(s \o t) /\ Elements(t) \subseteq Elements(s \o t)
    BY <1>1, <1>2 DEF Elements
  <1> QED
    BY <1>4, <1>5

\* The send loop takes the head.
LEMMA ElementsHeadTail ==
  ASSUME NEW s \in Seq(Entries), s # << >>
  PROVE  Elements(s) = {Head(s)} \cup Elements(Tail(s))
  <1>1. \A i \in DOMAIN Tail(s) : i + 1 \in DOMAIN s /\ Tail(s)[i] = s[i + 1]
    OBVIOUS
  <1>2. \A i \in DOMAIN s : i # 1 => i - 1 \in DOMAIN Tail(s) /\ Tail(s)[i - 1] = s[i]
    OBVIOUS
  <1>3. 1 \in DOMAIN s /\ Head(s) = s[1]
    OBVIOUS
  <1>4. Elements(s) \subseteq {Head(s)} \cup Elements(Tail(s))
    BY <1>2, <1>3 DEF Elements
  <1>5. Elements(Tail(s)) \subseteq Elements(s) /\ Head(s) \in Elements(s)
    BY <1>1, <1>3 DEF Elements
  <1> QED
    BY <1>4, <1>5

\* A part of a queue has some of its entries.
LEMMA ElementsSubSeq ==
  ASSUME NEW s \in Seq(Entries), NEW m \in 1..(Len(s) + 1), NEW n \in 0..Len(s)
  PROVE  Elements(SubSeq(s, m, n)) \subseteq Elements(s)
  BY IdsSubSeq DEF Elements

\* What MakeRoom and Newest leave was there before.
LEMMA ElementsKept ==
  ASSUME NEW q \in Seq(Entries)
  PROVE  /\ Len(q) <= MaxEntries => Elements(MakeRoom(q)) \subseteq Elements(q)
         /\ Elements(Newest(q)) \subseteq Elements(q)
  <1>1. ASSUME Len(q) <= MaxEntries
        PROVE  Elements(MakeRoom(q)) \subseteq Elements(q)
    <2>1. CASE Len(q) >= MaxEntries
      BY <2>1, ElementsHeadTail, CapacityAssumption DEF MakeRoom
    <2>2. CASE ~(Len(q) >= MaxEntries)
      BY <2>2 DEF MakeRoom
    <2> QED
      BY <2>1, <2>2
  <1>2. CASE Len(q) > MaxEntries
    <2> DEFINE m == Len(q) - MaxEntries + 1
    <2>1. m \in 1..(Len(q) + 1) /\ Len(q) \in 0..Len(q)
      BY <1>2, CapacityAssumption
    <2>2. Newest(q) = SubSeq(q, m, Len(q))
      BY <1>2 DEF Newest
    <2> HIDE DEF m
    <2> QED
      BY <1>1, <2>1, <2>2, ElementsSubSeq
  <1>3. CASE ~(Len(q) > MaxEntries)
    BY <1>1, <1>3 DEF Newest
  <1> QED
    BY <1>2, <1>3

\* In an ordered queue a batch has one entry.
LEMMA OneEntry ==
  ASSUME NEW s \in Seq(Entries), Ordered(s), NEW e \in Elements(s), NEW f \in Elements(s),
         e.batch = f.batch
  PROVE  e = f
  <1>1. PICK i \in DOMAIN s : e = s[i]
    BY DEF Elements
  <1>2. PICK j \in DOMAIN s : f = s[j]
    BY DEF Elements
  <1>3. i \in Nat /\ j \in Nat /\ e.batch \in Nat
    BY <1>1, EntryType DEF Batches
  <1>4. ~(i < j) /\ ~(j < i)
    BY <1>1, <1>2, <1>3 DEF Ordered
  <1> QED
    BY <1>1, <1>2, <1>3, <1>4

\* The batches of an ordered queue, one after the other, are all different.
LEMMA OrderedDistinct ==
  ASSUME NEW s \in Seq(Entries), Ordered(s), NEW i \in 1..Len(s), NEW j \in 1..Len(s), i # j
  PROVE  s[i].batch # s[j].batch
  <1>1. DOMAIN s = 1..Len(s) /\ s[i].batch \in Nat /\ s[j].batch \in Nat
    BY EntryType DEF Batches
  <1>2. i < j \/ j < i
    OBVIOUS
  <1> QED
    BY <1>1, <1>2 DEF Ordered

\* Queue r is what is left of queue q: the youngest entries, and a full queue
\* if any are gone; more are entries held elsewhere.
KeepsYoungest(q, r, more) ==
    /\ q \in Seq(Entries) /\ Ordered(q) /\ r \in Seq(Entries) /\ Ordered(r)
    /\ Elements(r) \subseteq Elements(q)
    /\ \A b \in Ids(q) \ Ids(r) : Len(r) = MaxEntries /\ \A c \in Ids(r) : b < c
    /\ more \in SUBSET Entries /\ \A e \in more : e.batch \notin Ids(q) \ Ids(r)

Gone(q, r) == Elements(q) \ Elements(r)

\* The others were displaced as the store allows.
LEMMA Displaced ==
  ASSUME NEW q, NEW r, NEW more, KeepsYoungest(q, r, more)
  PROVE  /\ Store!Numbers(Gone(q, r)) = Ids(q) \ Ids(r)
         /\ Store!MayDisplace(Elements(q) \cup more, Gone(q, r))
         /\ \A e \in more : e \notin Gone(q, r)
  <1> USE DEF KeepsYoungest
  <1> DEFINE gone == Gone(q, r)
  <1>0. gone = Elements(q) \ Elements(r)
    BY DEF Gone
  <1> HIDE DEF gone
  <1>1. /\ Ids(q) = Store!Numbers(Elements(q)) /\ Ids(r) = Store!Numbers(Elements(r))
        /\ Elements(q) \subseteq Entries /\ Elements(r) \subseteq Entries
    BY ElementsIds
  <1>2. \A e, f \in Elements(q) : e.batch = f.batch => e = f
    BY OneEntry
  <1>3. Store!Numbers(gone) = Ids(q) \ Ids(r)
    BY <1>0, <1>1, <1>2 DEF Store!Numbers
  <1>4. \A e \in more : e \notin gone
    BY <1>3 DEF Store!Numbers
  <1>6. Ids(r) \subseteq Store!Numbers(Elements(q) \cup more) \ Store!Numbers(gone)
    BY <1>1, <1>3 DEF Store!Numbers
  <1>7. ASSUME NEW e \in gone
        PROVE  \E young \in [1..MaxEntries ->
                              Store!Numbers(Elements(q) \cup more) \ Store!Numbers(gone)] :
                  \A i \in 1..MaxEntries :
                     e.batch < young[i] /\ \A j \in 1..MaxEntries : i # j => young[i] # young[j]
    <2> DEFINE young == [i \in 1..MaxEntries |-> r[i].batch]
    <2>1. e.batch \in Ids(q) \ Ids(r)
      BY <1>3 DEF Store!Numbers
    <2>2. Len(r) = MaxEntries /\ \A c \in Ids(r) : e.batch < c
      BY <2>1
    <2>3. \A i \in 1..MaxEntries : r[i].batch \in Ids(r)
      BY <2>2 DEF Ids
    <2>4. young \in [1..MaxEntries -> Store!Numbers(Elements(q) \cup more) \ Store!Numbers(gone)]
      BY <1>6, <2>3
    <2>5. \A i \in 1..MaxEntries :
             e.batch < young[i] /\ \A j \in 1..MaxEntries : i # j => young[i] # young[j]
      BY <2>2, <2>3, OrderedDistinct
    <2> HIDE DEF young
    <2> QED
      BY <2>4, <2>5
  <1>8. Store!MayDisplace(Elements(q) \cup more, gone)
    BY <1>7 DEF Store!MayDisplace
  <1> QED
    BY <1>3, <1>4, <1>8 DEF gone

-----------------------------------------------------------------------------
(***************************************************************************)
(* The steps.                                                              *)
(***************************************************************************)

\* The first process finds an empty store.
LEMMA StoreInit == Init => Store!Init
  BY ElementsEmpty DEF Init, Store!Init, StoreUp, StoreHeld, NoFile

\* What the steps of the goroutines that are not about entries leave alone.
LEMMA StoreStutter ==
  ASSUME StoreUp' = StoreUp, StoreHeld' = StoreHeld, UNCHANGED <<nextBatch, flushed, abandoned,
         evicted>>, Elements(snapshot)' = Elements(snapshot), Elements(file.recs)' = Elements(file.recs)
  PROVE  UNCHANGED Store!vars
  BY DEF Store!vars

\* enqueueDLQ is Accept: the batch that gives way has a capacity of younger ones.
LEMMA StoreEnqueue ==
  ASSUME TypeOK, QueueInv, Enqueue
  PROVE  Store!Accept
  <1> USE DEF main, loop, ledger, excuses
  <1> DEFINE room == MakeRoom(dlq)
             e    == [batch |-> nextBatch, attempts |-> 0]
             flying == Elements(pending) \cup Elements(stillFailing)
  <1>1. /\ dlq \in Seq(Entries) /\ Ordered(dlq) /\ Len(dlq) <= MaxEntries
        /\ pending \in Seq(Entries) /\ stillFailing \in Seq(Entries)
    BY DEF TypeOK, QueueInv, Fifo, Bounded
  <1>2. /\ room \in Seq(Entries) /\ Len(room) < MaxEntries /\ Ordered(room)
        /\ Ids(room) \subseteq Ids(dlq) /\ Elements(room) \subseteq Elements(dlq)
        /\ \A b \in Ids(dlq) \ Ids(room) :
              Len(room) = MaxEntries - 1 /\ \A c \in Ids(room) : b < c
    BY <1>1, MakeRoomProperties, ElementsKept
  <1>3. e \in Entries /\ e.batch = nextBatch
    BY EntryType, AttemptsAssumption DEF Enqueue
  <1>4. \A b \in Held : b < nextBatch
    BY DEF QueueInv, Older, Accounted
  <1> HIDE DEF e
  <1>5. /\ dlq' = Append(room, e) /\ evicted' = evicted \cup (Ids(dlq) \ Ids(room))
        /\ nextBatch' = nextBatch + 1 /\ phase = "running"
        /\ UNCHANGED <<phase, pending, stillFailing, flushed, abandoned, snapshot, file>>
    BY DEF Enqueue, e
  <1> HIDE DEF room
  <1> DEFINE q == Append(dlq, e)
             r == Append(room, e)
             gone == Gone(q, r)
  <1>6. /\ q \in Seq(Entries) /\ Ordered(q) /\ Ids(q) = Ids(dlq) \cup {nextBatch}
        /\ Elements(q) = Elements(dlq) \cup {e}
    BY <1>1, <1>3, <1>4, IdsAppend, OrderedAppend, ElementsAppend DEF Held
  <1>7. /\ r \in Seq(Entries) /\ Ordered(r) /\ Ids(r) = Ids(room) \cup {nextBatch}
        /\ Elements(r) = Elements(room) \cup {e} /\ Len(r) = Len(room) + 1
    BY <1>2, <1>3, <1>4, IdsAppend, OrderedAppend, ElementsAppend DEF Held
  <1>8. Ids(q) \ Ids(r) = Ids(dlq) \ Ids(room)
    <2>1. nextBatch \notin Ids(dlq)
      BY <1>4, BatchNumbers DEF Held
    <2> QED
      BY <1>6, <1>7, <2>1
  <1>9. \A b \in Ids(q) \ Ids(r) : Len(r) = MaxEntries /\ \A c \in Ids(r) : b < c
    BY <1>2, <1>4, <1>7, <1>8, CapacityAssumption DEF Held
  <1>10. flying \in SUBSET Entries /\ \A f \in flying : f.batch \notin Ids(q) \ Ids(r)
    <2>1. flying \in SUBSET Entries /\ \A f \in flying : f.batch \in InFlight
      BY <1>1, ElementsIds DEF InFlight
    <2>2. \A b \in InFlight : b \notin Ids(dlq)
      BY BatchNumbers DEF QueueInv, Fifo
    <2> QED
      BY <1>8, <2>1, <2>2
  <1> HIDE DEF q, r, flying
  <1>11. /\ Store!Numbers(gone) = Ids(q) \ Ids(r)
         /\ Store!MayDisplace(Elements(q) \cup flying, gone)
         /\ (Elements(q) \cup flying) \ gone = Elements(r) \cup flying
    <2>1. Elements(r) \subseteq Elements(q)
      BY <1>2, <1>6, <1>7
    <2>2. KeepsYoungest(q, r, flying)
      BY <2>1, <1>6, <1>7, <1>9, <1>10 DEF KeepsYoungest
    <2>3. Store!Numbers(gone) = Ids(q) \ Ids(r)
      BY <2>2, Displaced
    <2>4. Store!MayDisplace(Elements(q) \cup flying, gone)
      BY <2>2, Displaced
    <2>5. \A f \in flying : f \notin gone
      BY <2>2, Displaced
    <2>6. (Elements(q) \cup flying) \ gone = Elements(r) \cup flying
      BY <2>1, <2>5 DEF Gone
    <2> QED
      BY <2>3, <2>4, <2>6
  <1>12. /\ StoreHeld \cup {e} = Elements(q) \cup flying
         /\ StoreHeld' = Elements(r) \cup flying
    BY <1>5, <1>6 DEF StoreHeld, flying, r
  <1>13. Store!Displace(StoreHeld \cup {e})
    <2>1. gone \in SUBSET (StoreHeld \cup {e})
      BY <1>12 DEF Gone
    <2>2. evicted' = evicted \cup Store!Numbers(gone)
      BY <1>5, <1>8, <1>11
    <2> HIDE DEF gone
    <2> QED
      BY <1>11, <1>12, <2>1, <2>2 DEF Store!Displace
  <1> QED
    BY <1>5, <1>13 DEF Store!Accept, StoreUp, e

\* The merge is MakeRoom.
LEMMA StoreMerge ==
  ASSUME TypeOK, QueueInv, DrainMerge
  PROVE  Store!MakeRoom
  <1> USE DEF main, loop, ledger, excuses
  <1> DEFINE merged == stillFailing \o dlq
             gone   == Gone(merged, Newest(merged))
  <1>1. pending = << >> /\ stillFailing \in Seq(Entries) /\ dlq \in Seq(Entries)
    BY DEF DrainMerge, TypeOK
  <1>2. InFlight = Ids(stillFailing)
    BY <1>1, IdsEmpty DEF InFlight
  <1>3. Ordered(merged) /\ merged \in Seq(Entries)
    BY <1>1, <1>2, FifoInFlight, OrderedConcat, IdsConcat DEF QueueInv
  <1>4. Elements(merged) = StoreHeld
    BY <1>1, ElementsConcat, ElementsEmpty DEF StoreHeld
  <1>5. /\ dlq' = Newest(merged) /\ stillFailing' = << >> /\ pending' = << >>
        /\ evicted' = evicted \cup (Ids(merged) \ Ids(Newest(merged)))
        /\ UNCHANGED <<phase, nextBatch, flushed, abandoned, snapshot, file>>
    BY <1>1 DEF DrainMerge, Prepend
  <1> HIDE DEF merged
  <1>6. StoreHeld' = Elements(Newest(merged))
    BY <1>5, ElementsEmpty DEF StoreHeld
  <1>7. /\ Newest(merged) \in Seq(Entries) /\ Ordered(Newest(merged))
        /\ Elements(Newest(merged)) \subseteq Elements(merged)
        /\ \A b \in Ids(merged) \ Ids(Newest(merged)) :
              Len(Newest(merged)) = MaxEntries /\ \A c \in Ids(Newest(merged)) : b < c
    BY <1>3, NewestProperties, ElementsKept
  <1>8. /\ Store!Numbers(gone) = Ids(merged) \ Ids(Newest(merged))
        /\ Store!MayDisplace(Elements(merged) \cup {}, gone)
    <2>1. KeepsYoungest(merged, Newest(merged), {})
      BY <1>3, <1>7 DEF KeepsYoungest
    <2> QED
      BY <2>1, Displaced
  <1>9. Elements(merged) \cup {} = StoreHeld /\ StoreHeld \ gone = StoreHeld'
        /\ gone \in SUBSET StoreHeld
    BY <1>4, <1>6, <1>7 DEF Gone
  <1> HIDE DEF gone
  <1>10. Store!Displace(StoreHeld)
    BY <1>5, <1>8, <1>9 DEF Store!Displace
  <1> QED
    BY <1>5, <1>10 DEF Store!MakeRoom, StoreUp

\* An iteration of the send loop is a Retry.
LEMMA StoreSend ==
  ASSUME TypeOK, QueueInv, NEW acked \in BOOLEAN, DrainSend(acked)
  PROVE  Store!Retry
  <1> USE DEF main, loop, ledger, excuses
  <1> DEFINE e == Head(pending)
             others == Elements(dlq) \cup Elements(Tail(pending)) \cup Elements(stillFailing)
  <1>1. /\ pending # << >> /\ pending \in Seq(Entries) /\ dlq \in Seq(Entries)
        /\ stillFailing \in Seq(Entries)
    BY DEF DrainSend, TypeOK
  <1>2. /\ Ordered(pending) /\ \A b \in Ids(stillFailing), c \in Ids(pending) : b < c
        /\ \A b \in InFlight, c \in Ids(dlq) : b < c
    BY FifoInFlight DEF QueueInv
  <1>3. /\ e \in Entries /\ Tail(pending) \in Seq(Entries)
        /\ Ids(pending) = {e.batch} \cup Ids(Tail(pending))
        /\ \A b \in Ids(Tail(pending)) : e.batch < b
        /\ Elements(pending) = {e} \cup Elements(Tail(pending))
    BY <1>1, <1>2, IdsHeadTail, OrderedHeadTail, ElementsHeadTail
  <1>4. e \notin others
    <2>1. e.batch \in Nat /\ e.batch \in InFlight
      BY <1>3, EntryType DEF Batches, InFlight
    <2>2. ~(e.batch < e.batch)
      BY <2>1
    <2>3. e.batch \notin Ids(dlq)
      BY <1>2, <2>1, <2>2
    <2>4. e.batch \notin Ids(Tail(pending))
      BY <1>3, <2>2
    <2>5. e.batch \notin Ids(stillFailing)
      BY <1>2, <1>3, <2>2
    <2> QED
      BY <1>1, <1>3, <2>3, <2>4, <2>5, ElementsIds
  <1>5. StoreHeld = others \cup {e} /\ StoreHeld \ {e} = others
    BY <1>3, <1>4 DEF StoreHeld
  <1>6. UNCHANGED <<dlq, phase, nextBatch, evicted, snapshot, file>> /\ pending' = Tail(pending)
    BY DEF DrainSend
  <1>7. UNCHANGED <<StoreUp, nextBatch, evicted, Elements(snapshot), Elements(file.recs)>>
    BY <1>6 DEF StoreUp
  <1>8. e.attempts \in 0..(MaxAttempts - 1) /\ Attempt(e).attempts = e.attempts + 1
    BY <1>3, EntryType DEF Attempt
  <1>9. CASE acked
    <2>1. stillFailing' = stillFailing /\ flushed' = flushed \cup {e.batch} /\ abandoned' = abandoned
      BY <1>9 DEF DrainSend
    <2>2. StoreHeld' = others
      BY <1>6, <2>1 DEF StoreHeld
    <2>3. Store!Deliver(e)
      BY <1>5, <2>1, <2>2 DEF Store!Deliver
    <2> HIDE DEF e
    <2> QED
      BY <1>5, <1>7, <2>3 DEF Store!Retry
  <1>10. CASE ~acked /\ Spent(e)
    <2>1. stillFailing' = stillFailing /\ flushed' = flushed /\ abandoned' = abandoned \cup {e.batch}
      BY <1>10 DEF DrainSend
    <2>2. StoreHeld' = others
      BY <1>6, <2>1 DEF StoreHeld
    <2>3. e.attempts + 1 = MaxAttempts
      BY <1>8, <1>10, AttemptsAssumption DEF Spent
    <2>4. Store!Abandon(e)
      BY <1>5, <2>1, <2>2, <2>3 DEF Store!Abandon
    <2> HIDE DEF e
    <2> QED
      BY <1>5, <1>7, <2>4 DEF Store!Retry
  <1>11. CASE ~acked /\ ~Spent(e)
    <2>1. /\ stillFailing' = Append(stillFailing, Attempt(e)) /\ flushed' = flushed
          /\ abandoned' = abandoned
      BY <1>11 DEF DrainSend
    <2>2. Attempt(e) \in Entries
      BY <1>3, <1>11, AttemptType
    <2>3. Elements(stillFailing') = Elements(stillFailing) \cup {Attempt(e)}
      BY <1>1, <2>1, <2>2, ElementsAppend
    <2>4. StoreHeld' = others \cup {Attempt(e)}
      BY <1>6, <2>3 DEF StoreHeld
    <2>5. e.attempts + 1 < MaxAttempts
      BY <1>8, <1>11, AttemptsAssumption DEF Spent
    <2>6. Attempt(e) = [batch |-> e.batch, attempts |-> e.attempts + 1]
      BY DEF Attempt
    <2>7. Store!Fail(e)
      BY <1>5, <2>1, <2>4, <2>5, <2>6 DEF Store!Fail
    <2> HIDE DEF e
    <2> QED
      BY <1>5, <1>7, <2>7 DEF Store!Retry
  <1> QED
    BY <1>9, <1>10, <1>11

\* Start is Restore: it holds what it read of the file.
LEMMA StoreRestore ==
  ASSUME TypeOK, QueueInv, NEW read \in 0..MaxEntries, StartRestore(read)
  PROVE  Store!Restore
  <1> USE DEF main, loop, ledger, excuses
  <1>1. phase = "starting" /\ phase' = "running" /\ Held = {} /\ read <= Len(file.recs)
    BY DEF StartRestore, QueueInv, Shape, Accounted
  <1>2. file.recs \in Seq(Entries) /\ dlq' = SubSeq(file.recs, 1, read)
    BY RestoredPrefix DEF TypeOK
  <1>3. Elements(dlq') \subseteq Elements(file.recs)
    BY <1>1, <1>2, ElementsSubSeq
  <1>4. UNCHANGED <<pending, stillFailing, nextBatch, flushed, abandoned, evicted, snapshot, file>>
    BY DEF StartRestore, FileAfterLoad
  <1>5. Elements(pending) = {} /\ Elements(stillFailing) = {}
    <2>1. Ids(pending) = {} /\ Ids(stillFailing) = {}
      BY <1>1 DEF Held, InFlight
    <2> QED
      BY <2>1 DEF Ids, Elements
  <1>6. StoreHeld' \in SUBSET Elements(file.recs)
    <2>1. Elements(pending)' = {} /\ Elements(stillFailing)' = {}
      BY <1>4, <1>5 DEF Elements
    <2> QED
      BY <1>3, <2>1 DEF StoreHeld
  <1>7. StoreUp = FALSE /\ StoreUp' = TRUE
    BY <1>1, Zenon DEF StoreUp
  <1> QED
    BY <1>4, <1>6, <1>7 DEF Store!Restore

\* The copy Shutdown makes is of entries the store holds, and a file that replaces
\* the old one has exactly that copy.
LEMMA StoreSaves ==
  ASSUME TypeOK, QueueInv
  PROVE  /\ ShutdownCopy => Store!Copy
         /\ SaveRename => Store!Save
         /\ \A removed \in BOOLEAN : SaveNothing(removed) => Store!Save \/ UNCHANGED Store!vars
  <1> USE DEF main, loop, ledger, excuses
  <1>1. ASSUME ShutdownCopy
        PROVE  Store!Copy
    <2>1. /\ phase = "stopping" /\ phase' = "saving" /\ snapshot' = dlq
          /\ UNCHANGED <<dlq, pending, stillFailing, nextBatch, flushed, abandoned, evicted, file>>
      BY <1>1 DEF ShutdownCopy
    <2> QED
      BY <2>1 DEF Store!Copy, StoreUp, StoreHeld
  <1>2. ASSUME SaveRename
        PROVE  Store!Save
    <2>1. /\ phase = "saving" /\ phase' = "saved" /\ Len(tmp) = Len(snapshot)
          /\ file' = [count |-> Len(snapshot), recs |-> tmp]
          /\ UNCHANGED <<dlq, pending, stillFailing, nextBatch, flushed, abandoned, evicted, snapshot>>
      BY <1>2 DEF SaveRename
    <2>2. tmp = snapshot
      <3>1. tmp \in Seq(Entries) /\ snapshot \in Seq(Entries)
        BY DEF TypeOK
      <3> QED
        BY <2>1, <3>1 DEF QueueInv, Shape
    <2>3. file'.recs = snapshot
      BY <2>1, <2>2
    <2> QED
      BY <2>1, <2>3 DEF Store!Save, StoreUp, StoreHeld
  <1>3. ASSUME NEW removed \in BOOLEAN, SaveNothing(removed)
        PROVE  Store!Save \/ UNCHANGED Store!vars
    <2>1. /\ phase = "saving" /\ phase' = "saved" /\ snapshot = << >>
          /\ file' = IF removed THEN NoFile ELSE file
          /\ UNCHANGED <<dlq, pending, stillFailing, nextBatch, flushed, abandoned, evicted, snapshot>>
      BY <1>3 DEF SaveNothing
    <2>2. Elements(snapshot) = {}
      BY <2>1, ElementsEmpty
    <2>3. CASE removed
      <3>1. Elements(file'.recs) = {}
        BY <2>1, <2>3, ElementsEmpty DEF NoFile
      <3> QED
        BY <2>1, <2>2, <3>1 DEF Store!Save, StoreUp, StoreHeld
    <2>4. CASE ~removed
      BY <2>1, <2>4, StoreStutter DEF StoreUp, StoreHeld
    <2> QED
      BY <2>3, <2>4
  <1> QED
    BY <1>1, <1>2, <1>3

\* The end of the process is Stop, a disk fault is Damage.
LEMMA StoreEnds ==
  ASSUME TypeOK
  PROVE  /\ ProcessGone => Store!Stop
         /\ \A readable \in 0..(MaxEntries - 1) : Damage(readable) => Store!Damage
  <1> USE DEF main, loop, ledger, excuses
  <1>1. ASSUME ProcessGone
        PROVE  Store!Stop
    <2>1. /\ phase' = "down" /\ dlq' = << >> /\ pending' = << >> /\ stillFailing' = << >>
          /\ snapshot' = << >> /\ flushed' = {} /\ abandoned' = {} /\ evicted' = {}
          /\ UNCHANGED <<file, nextBatch>>
      BY <1>1 DEF ProcessGone
    <2>2. StoreHeld' = {} /\ Elements(snapshot') = {}
      BY <2>1, ElementsEmpty DEF StoreHeld
    <2>3. StoreUp' = FALSE
      BY <2>1, Zenon DEF StoreUp
    <2> QED
      BY <2>1, <2>2, <2>3 DEF Store!Stop
  <1>2. ASSUME NEW readable \in 0..(MaxEntries - 1), Damage(readable)
        PROVE  Store!Damage
    <2>1. /\ phase = "down" /\ readable < Len(file.recs)
          /\ file' = [count |-> file.count, recs |-> SubSeq(file.recs, 1, readable)]
          /\ UNCHANGED <<phase, dlq, pending, stillFailing, nextBatch, flushed, abandoned, evicted,
                         snapshot>>
      BY <1>2 DEF Damage
    <2>2. file.recs \in Seq(Entries) /\ readable \in 0..Len(file.recs) /\ 1 \in 1..(Len(file.recs) + 1)
      BY <2>1, CapacityAssumption DEF TypeOK
    <2>3. Elements(file'.recs) \subseteq Elements(file.recs)
      BY <2>1, <2>2, ElementsSubSeq
    <2> QED
      BY <2>1, <2>3 DEF Store!Damage, StoreUp, StoreHeld
  <1> QED
    BY <1>1, <1>2

\* The other steps do not change what the store can tell.
LEMMA StoreUnseen ==
  ASSUME TypeOK, QueueInv,
         \/ StartLoops \/ Tick \/ RetryWake \/ RetryExit \/ DrainTake
         \/ ShutdownStop \/ SaveRecord \/ SaveFail \/ ShutdownClose \/ UNCHANGED vars
  PROVE  UNCHANGED Store!vars
  <1> USE DEF main, loop, ledger, excuses
  <1>1. UNCHANGED <<nextBatch, flushed, abandoned, evicted, snapshot, file>>
    BY DEF StartLoops, Tick, RetryWake, RetryExit, DrainTake, ShutdownStop, SaveRecord, SaveFail,
           ShutdownClose, FileWhileSaving, vars
  <1>2. StoreUp' = StoreUp
    <2>1. \/ phase' = phase
          \/ phase = "down" /\ phase' = "starting"
          \/ phase \in {"running", "saving", "saved"} /\ phase' \in {"stopping", "saved", "closed"}
      BY DEF StartLoops, Tick, RetryWake, RetryExit, DrainTake, ShutdownStop, SaveRecord, SaveFail,
             ShutdownClose, MayClose, vars
    <2> QED
      BY <2>1 DEF StoreUp
  <1>3. StoreHeld' = StoreHeld
    <2>1. CASE DrainTake
      <3>1. /\ pending = << >> /\ stillFailing' = stillFailing
            /\ pending' = dlq /\ dlq' = << >>
        BY <2>1 DEF DrainTake, QueueInv, Shape
      <3> QED
        BY <3>1, ElementsEmpty DEF StoreHeld
    <2>2. CASE ~DrainTake
      <3>1. UNCHANGED <<dlq, pending, stillFailing>>
        BY <2>2 DEF StartLoops, Tick, RetryWake, RetryExit, ShutdownStop, SaveRecord, SaveFail,
                    ShutdownClose, vars
      <3> QED
        BY <3>1 DEF StoreHeld
    <2> QED
      BY <2>1, <2>2
  <1> QED
    BY <1>1, <1>2, <1>3, StoreStutter

\* Every step of the queue is one of the store's.
LEMMA StoreStep == TypeOK /\ QueueInv /\ [Next]_vars => [Store!Next]_(Store!vars)
  <1> SUFFICES ASSUME TypeOK, QueueInv, [Next]_vars
               PROVE  Store!Next \/ UNCHANGED Store!vars
    OBVIOUS
  <1>1. ASSUME \/ Enqueue \/ DrainMerge \/ ShutdownCopy \/ SaveRename
               \/ \E read \in 0..MaxEntries : StartRestore(read)
               \/ \E acked \in BOOLEAN : DrainSend(acked)
               \/ \E readable \in 0..(MaxEntries - 1) : Damage(readable)
        PROVE  Store!Next
    BY <1>1, StoreRestore, StoreEnqueue, StoreMerge, StoreSaves, StoreSend, StoreEnds DEF Store!Next
  <1>2. ASSUME Exit \/ Crash
        PROVE  Store!Next
    BY <1>2, StoreEnds DEF Exit, Crash, Store!Next
  <1>3. ASSUME NEW removed \in BOOLEAN, SaveNothing(removed)
        PROVE  Store!Next \/ UNCHANGED Store!vars
    BY <1>3, StoreSaves DEF Store!Next
  <1> QED
    BY NextCases, <1>1, <1>2, <1>3, StoreUnseen

\* The dead-letter queue, with its unlocked drain, its merge, its file and its
\* restarts, implements the retry store.
THEOREM StoreImplemented == Spec => ImplementsStore
  <1>1. Init => Store!Init
    BY StoreInit
  <1>2. TypeOK /\ QueueInv /\ [Next]_vars => [Store!Next]_(Store!vars)
    BY StoreStep
  <1> QED
    BY TypeInit, TypeStep, QueueInit, QueueStep, <1>1, <1>2, PTL DEF Spec, ImplementsStore, Store!Spec
=============================================================================
