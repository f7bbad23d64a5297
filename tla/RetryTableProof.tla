-------------------------- MODULE RetryTableProof --------------------------
(***************************************************************************)
(* Proofs about RetryTable, for every table size, probe limit, window and  *)
(* clock skew.                                                             *)
(*                                                                         *)
(* The properties speak of the table and of the answers; what makes them   *)
(* inductive is how the table and the history of the calls hang together:  *)
(* a key is where its probe sequence leads (Reachable), once (Unique), and *)
(* with the second of its last call (Stamped); a key that was seen is in   *)
(* the table or lost (Present), and never both (NotLost).                  *)
(***************************************************************************)
EXTENDS RetryTable, OrdersProof

\* Offset o leads key k to its own slot, past slots that hold other keys.
LeadsTo(k, o) ==
    hash[At(k, o)] = k /\ \A p \in 0..(o - 1) : hash[At(k, p)] \notin {NoKey, k}

Reachable ==
    \A i \in Slots : hash[i] # NoKey =>
        \E o \in 0..(Probes - 1) : At(hash[i], o) = i /\ LeadsTo(hash[i], o)

Unique == \A i, j \in Slots : hash[i] # NoKey /\ hash[j] = hash[i] => j = i

Stamped ==
    \A i \in Slots : hash[i] # NoKey =>
        last[hash[i]] # Never /\ lastSec[i] = last[hash[i]] \div PerSec

Present == \A k \in Keys : last[k] # Never => k \in lost \/ \E i \in Slots : hash[i] = k

NotLost == \A i \in Slots : hash[i] \notin lost

Inv ==
    /\ TypeOK
    /\ Reachable /\ Unique
    /\ Stamped /\ Present /\ NotLost
    /\ NoFalseRetry /\ NoMissedRetry /\ KeepsUntilCrowded

-----------------------------------------------------------------------------
(***************************************************************************)
(* Arithmetic.                                                             *)
(***************************************************************************)

\* Min, as FiniteSetsExt defines it, of a set of naturals.
LEMMA MinNat ==
    ASSUME NEW T \in SUBSET Nat, T # {}
    PROVE  Min(T) \in T /\ \A y \in T : Min(T) <= y
<1>1. \E x \in T : \A y \in T : x <= y
  BY LeastNumber
<1>2. QED
  BY <1>1, Zenon DEF Min

\* A whole second is at most PerSec - 1 ticks before the time it was taken from.
LEMMA WholeSeconds ==
    ASSUME NEW t \in Nat
    PROVE  /\ t \div PerSec \in Nat
           /\ (t \div PerSec) * PerSec \in Nat
           /\ (t \div PerSec) * PerSec <= t
           /\ t <= (t \div PerSec) * PerSec + (PerSec - 1)
BY TimeAssumption

\* The probe sequence of a key stays in the table.
LEMMA AtType ==
    ASSUME NEW k \in Nat, NEW o \in Nat
    PROVE  At(k, o) \in Slots
BY TableAssumption DEF At, Slots

\* The probe sequence of a key does not come to a slot twice.
LEMMA AtInjective ==
    ASSUME NEW k \in Nat, NEW o \in 0..(Probes - 1), NEW p \in 0..(Probes - 1),
           At(k, o) = At(k, p)
    PROVE  o = p
<1>1. PICK h \in 0..(Size - 1) : h = k % Size
  BY TableAssumption
<1>2. Size \in Nat \ {0} /\ o \in 0..(Size - 1) /\ p \in 0..(Size - 1)
  BY TableAssumption
<1>3. (h + o) % Size = (h + p) % Size
  BY <1>1 DEF At
<1>4. \A q \in 0..(Size - 1) : (h + q) % Size = IF h + q < Size THEN h + q ELSE h + q - Size
  BY <1>2
<1>5. QED
  BY <1>2, <1>3, <1>4

-----------------------------------------------------------------------------
(***************************************************************************)
(* Where a key goes.                                                       *)
(***************************************************************************)

\* The offset of the slot isRetry settles on: the first that is empty or holds
\* the key, or zero when all slots of the probe sequence hold other keys.
LEMMA SlotOffset ==
    ASSUME NEW k \in Keys
    PROVE  \/ \E o \in 0..(Probes - 1) :
                /\ Slot(k) = At(k, o)
                /\ hash[At(k, o)] \in {NoKey, k}
                /\ \A p \in 0..(o - 1) : hash[At(k, p)] \notin {NoKey, k}
           \/ /\ Slot(k) = At(k, 0)
              /\ \A p \in 0..(Probes - 1) : hash[At(k, p)] \notin {NoKey, k}
<1>1. CASE Fitting(k) = {}
  <2>1. Slot(k) = At(k, 0)
    BY <1>1 DEF Slot
  <2>2. \A p \in 0..(Probes - 1) : hash[At(k, p)] \notin {NoKey, k}
    BY <1>1 DEF Fitting
  <2>3. QED
    BY <2>1, <2>2
<1>2. CASE Fitting(k) # {}
  <2>1. Fitting(k) \in SUBSET Nat
    BY TableAssumption DEF Fitting
  <2>2. PICK o : o = Min(Fitting(k))
    OBVIOUS
  <2>3. o \in Fitting(k) /\ \A y \in Fitting(k) : o <= y
    BY <1>2, <2>1, <2>2, MinNat
  <2>4. Slot(k) = At(k, o)
    BY <1>2, <2>2 DEF Slot
  <2>5. o \in 0..(Probes - 1) /\ hash[At(k, o)] \in {NoKey, k}
    BY <2>3 DEF Fitting
  <2>6. \A p \in 0..(o - 1) : hash[At(k, p)] \notin {NoKey, k}
    <3>1. SUFFICES ASSUME NEW p \in 0..(o - 1), hash[At(k, p)] \in {NoKey, k}
                   PROVE  FALSE
      OBVIOUS
    <3>2. p \in 0..(Probes - 1)
      BY <2>5, TableAssumption
    <3>3. p \in Fitting(k)
      BY <3>1, <3>2 DEF Fitting
    <3>4. QED
      BY <2>3, <2>5, <3>3, TableAssumption
  <2>7. QED
    BY <2>4, <2>5, <2>6
<1>3. QED
  BY <1>1, <1>2

\* The slot is one of the probe sequence, and so of the table.
LEMMA SlotType ==
    ASSUME NEW k \in Keys
    PROVE  Slot(k) \in Slots /\ Slot(k) \in Run(k)
<1>1. k \in Nat /\ 0 \in 0..(Probes - 1)
  BY KeysAssumption, TableAssumption
<1>2. PICK o \in 0..(Probes - 1) : Slot(k) = At(k, o)
  BY <1>1, SlotOffset
<1>3. QED
  BY <1>1, <1>2, AtType, TableAssumption DEF Run

\* A key that is in the table where its probe sequence leads is found there.
LEMMA SlotFound ==
    ASSUME NEW k \in Keys, NEW o \in 0..(Probes - 1), LeadsTo(k, o)
    PROVE  Slot(k) = At(k, o)
<1>1. hash[At(k, o)] = k /\ \A p \in 0..(o - 1) : hash[At(k, p)] \notin {NoKey, k}
  BY DEF LeadsTo
<1>2. PICK q \in 0..(Probes - 1) :
           /\ Slot(k) = At(k, q)
           /\ hash[At(k, q)] \in {NoKey, k}
           /\ \A p \in 0..(q - 1) : hash[At(k, p)] \notin {NoKey, k}
  BY <1>1, SlotOffset
<1>3. ~(q < o) /\ ~(o < q)
  BY <1>1, <1>2, TableAssumption
<1>4. q = o
  BY <1>3, TableAssumption
<1>5. QED
  BY <1>2, <1>4

\* So isRetry finds every key that is in the table.
LEMMA TableFound ==
    ASSUME TypeOK, Reachable, NEW i \in Slots, hash[i] # NoKey
    PROVE  hash[i] \in Keys /\ Slot(hash[i]) = i
<1>1. hash[i] \in Keys
  BY DEF TypeOK
<1>2. PICK o \in 0..(Probes - 1) : At(hash[i], o) = i /\ LeadsTo(hash[i], o)
  BY DEF Reachable
<1>3. QED
  BY <1>1, <1>2, SlotFound

\* A key in the table, and the slot isRetry settles on for it, go together.
LEMMA FoundIffThere ==
    ASSUME TypeOK, Reachable, NEW k \in Keys, NEW j \in Slots, hash[j] = k
    PROVE  j = Slot(k) /\ hash[Slot(k)] = k
<1>1. k # NoKey
  BY KeysAssumption DEF NoKey
<1>2. QED
  BY <1>1, TableFound

-----------------------------------------------------------------------------
(***************************************************************************)
(* The calls.  i is the slot of the call, and old what the slot held.      *)
(***************************************************************************)

\* What a call of isRetry does, with its slot named.
LEMMA CallEffect ==
    ASSUME Inv, NEW k \in Keys, NEW t \in Times, isRetry(k, t)
    PROVE  \E i \in Slots :
             /\ i = Slot(k)
             /\ hash' = [hash EXCEPT ![i] = k]
             /\ lastSec' = [lastSec EXCEPT ![i] = t \div PerSec]
             /\ last' = [last EXCEPT ![k] = t]
             /\ lost' = (lost \cup ({hash[i]} \ {NoKey})) \ {k}
             /\ newest' = IF t > newest THEN t ELSE newest
             /\ answer' = [key |-> k, at |-> t, before |-> last[k], lost |-> k \in lost,
                           retry |-> hash[i] = k /\ t - lastSec[i] * PerSec <= Window]
<1>1. Slot(k) \in Slots
  BY SlotType
<1>2. QED
  BY <1>1 DEF isRetry, Stamp, Recent

\* No other slot holds the key.
LEMMA OnlyThere ==
    ASSUME Inv, NEW k \in Keys, NEW j \in Slots, j # Slot(k)
    PROVE  hash[j] # k
BY FoundIffThere DEF Inv

\* A call keeps the types.
LEMMA CallType ==
    ASSUME Inv, NEW k \in Keys, NEW t \in Times, isRetry(k, t)
    PROVE  TypeOK'
<1>1. PICK i \in Slots :
           /\ hash' = [hash EXCEPT ![i] = k]
           /\ lastSec' = [lastSec EXCEPT ![i] = t \div PerSec]
           /\ last' = [last EXCEPT ![k] = t]
           /\ lost' = (lost \cup ({hash[i]} \ {NoKey})) \ {k}
           /\ newest' = IF t > newest THEN t ELSE newest
  BY CallEffect
<1>2. TypeOK /\ k # NoKey /\ t \in Nat
  BY KeysAssumption, TimeAssumption DEF Inv, NoKey, Times
<1>3. t \div PerSec \in Nat
  BY <1>2, WholeSeconds
<1>4. hash' \in [Slots -> Keys \cup {NoKey}] /\ lastSec' \in [Slots -> Nat]
  BY <1>1, <1>2, <1>3 DEF TypeOK
<1>5. \A j \in Slots : hash'[j] = NoKey => lastSec'[j] = 0
  BY <1>1, <1>2 DEF TypeOK
<1>6. last' \in [Keys -> Times \cup {Never}] /\ newest' \in Times /\ lost' \subseteq Keys
  BY <1>1, <1>2 DEF TypeOK
<1>7. QED
  BY <1>4, <1>5, <1>6 DEF TypeOK

\* A call leaves every key in one slot at most: the slot it writes is the only one
\* that may hold the key.
LEMMA CallUnique ==
    ASSUME Inv, NEW k \in Keys, NEW t \in Times, isRetry(k, t)
    PROVE  Unique'
<1>1. PICK i \in Slots : i = Slot(k) /\ hash' = [hash EXCEPT ![i] = k]
  BY CallEffect
<1>2. \A j \in Slots : j # i => hash[j] # k
  BY <1>1, OnlyThere
<1>3. hash \in [Slots -> Keys \cup {NoKey}] /\ Unique
  BY DEF Inv, TypeOK
<1>4. QED
  BY <1>1, <1>2, <1>3 DEF Unique

\* A key that stays is still reached: the slot that changed held the key itself
\* or, on the way to it, held another key and holds another key again.
LEMMA CallReachable ==
    ASSUME Inv, NEW k \in Keys, NEW t \in Times, isRetry(k, t)
    PROVE  Reachable'
<1>1. PICK i \in Slots : i = Slot(k) /\ hash' = [hash EXCEPT ![i] = k]
  BY CallEffect
<1>2. hash \in [Slots -> Keys \cup {NoKey}] /\ Reachable /\ k \in Nat /\ k # NoKey
  BY KeysAssumption DEF Inv, TypeOK, NoKey
<1>3. \A x \in Keys \cup {NoKey}, o \in 0..(Probes - 1) : At(x, o) \in Slots
  BY AtType, KeysAssumption, TableAssumption DEF NoKey
<1>4. SUFFICES ASSUME NEW j \in Slots, hash'[j] # NoKey
               PROVE  \E o \in 0..(Probes - 1) :
                         /\ At(hash'[j], o) = j /\ hash'[At(hash'[j], o)] = hash'[j]
                         /\ \A p \in 0..(o - 1) : hash'[At(hash'[j], p)] \notin {NoKey, hash'[j]}
  BY DEF Reachable, LeadsTo, At
<1>5. CASE j = i
  <2>1. PICK o \in 0..(Probes - 1) :
             i = At(k, o) /\ \A p \in 0..(o - 1) : hash[At(k, p)] \notin {NoKey, k}
    BY <1>1, SlotOffset, TableAssumption
  <2>2. \A p \in 0..(o - 1) : p \in 0..(Probes - 1) /\ p # o
    BY TableAssumption
  <2>3. \A p \in 0..(o - 1) : At(k, p) # i
    BY <1>2, <2>1, <2>2, AtInjective
  <2>4. hash'[i] = k /\ \A p \in 0..(o - 1) : hash'[At(k, p)] = hash[At(k, p)]
    BY <1>1, <1>2, <1>3, <2>2, <2>3
  <2>5. QED
    BY <1>5, <2>1, <2>4
<1>6. CASE j # i
  <2>1. hash'[j] = hash[j] /\ hash[j] # k
    BY <1>1, <1>2, <1>6, OnlyThere
  <2>2. PICK x \in Keys : x = hash[j]
    BY <1>2, <1>4, <2>1
  <2>3. PICK o \in 0..(Probes - 1) :
             At(x, o) = j /\ \A p \in 0..(o - 1) : hash[At(x, p)] \notin {NoKey, x}
    BY <1>2, <1>4, <2>1, <2>2 DEF Reachable, LeadsTo
  <2>4. \A p \in 0..(o - 1) : At(x, p) \in Slots
    BY <1>3, TableAssumption
  <2>5. \A p \in 0..(o - 1) : hash'[At(x, p)] \notin {NoKey, x}
    BY <1>1, <1>2, <2>1, <2>2, <2>3, <2>4
  <2>6. QED
    BY <2>1, <2>2, <2>3, <2>5
<1>7. QED
  BY <1>5, <1>6

\* A call leaves every key in the table with the second of its last call.
LEMMA CallStamped ==
    ASSUME Inv, NEW k \in Keys, NEW t \in Times, isRetry(k, t)
    PROVE  Stamped'
<1>1. PICK i \in Slots :
           /\ i = Slot(k) /\ hash' = [hash EXCEPT ![i] = k]
           /\ lastSec' = [lastSec EXCEPT ![i] = t \div PerSec]
           /\ last' = [last EXCEPT ![k] = t]
  BY CallEffect
<1>2. TypeOK /\ Stamped /\ t # Never
  BY TimeAssumption DEF Inv, Times, Never
<1>3. \A j \in Slots : j # i => hash[j] # k
  BY <1>1, OnlyThere
<1>4. SUFFICES ASSUME NEW j \in Slots, hash'[j] # NoKey
               PROVE  last'[hash'[j]] # Never /\ lastSec'[j] = last'[hash'[j]] \div PerSec
  BY DEF Stamped
<1>5. CASE j = i
  <2>1. hash'[j] = k /\ lastSec'[j] = t \div PerSec /\ last'[k] = t
    BY <1>1, <1>2, <1>5 DEF TypeOK
  <2>2. QED
    BY <1>2, <2>1
<1>6. CASE j # i
  <2>1. hash'[j] = hash[j] /\ lastSec'[j] = lastSec[j] /\ hash[j] \in Keys
    BY <1>1, <1>2, <1>4, <1>6 DEF TypeOK
  <2>2. last'[hash[j]] = last[hash[j]]
    BY <1>1, <1>2, <1>3, <1>6, <2>1 DEF TypeOK
  <2>3. QED
    BY <1>2, <1>4, <2>1, <2>2 DEF Stamped
<1>7. QED
  BY <1>5, <1>6

\* The only key a call takes out of the table is the one it overwrites, and that
\* one is then lost.
LEMMA CallPresent ==
    ASSUME Inv, NEW k \in Keys, NEW t \in Times, isRetry(k, t)
    PROVE  Present' /\ NotLost'
<1>1. PICK i \in Slots :
           /\ i = Slot(k) /\ hash' = [hash EXCEPT ![i] = k]
           /\ last' = [last EXCEPT ![k] = t]
           /\ lost' = (lost \cup ({hash[i]} \ {NoKey})) \ {k}
  BY CallEffect
<1>2. TypeOK /\ Present /\ NotLost /\ Unique /\ k # NoKey
  BY KeysAssumption DEF Inv, NoKey
<1>3. \A j \in Slots : j # i => hash[j] # k
  BY <1>1, OnlyThere
<1>4. hash \in [Slots -> Keys \cup {NoKey}] /\ last \in [Keys -> Times \cup {Never}] /\ lost \subseteq Keys
  BY <1>2 DEF TypeOK
<1>5. Present'
  <2>1. SUFFICES ASSUME NEW x \in Keys, last'[x] # Never
                 PROVE  x \in lost' \/ \E j \in Slots : hash'[j] = x
    BY DEF Present
  <2>2. CASE x = k
    BY <1>1, <1>4, <2>2
  <2>3. CASE x # k
    <3>1. x \in lost \/ \E j \in Slots : hash[j] = x
      BY <1>1, <1>2, <1>4, <2>1, <2>3 DEF Present
    <3>2. x # NoKey
      BY KeysAssumption DEF NoKey
    <3>3. QED
      BY <1>1, <1>4, <2>3, <3>1, <3>2
  <2>4. QED
    BY <2>2, <2>3
<1>6. NotLost'
  <2>1. SUFFICES ASSUME NEW j \in Slots
                 PROVE  hash'[j] \notin lost'
    BY DEF NotLost
  <2>2. CASE j = i
    BY <1>1, <1>4, <2>2
  <2>3. CASE j # i
    <3>1. hash'[j] = hash[j] /\ hash[j] # k /\ hash[j] \notin lost
      BY <1>1, <1>2, <1>3, <1>4, <2>3 DEF NotLost
    <3>2. hash[i] # NoKey => hash[j] # hash[i]
      BY <1>2, <2>3 DEF Unique
    <3>3. QED
      BY <1>1, <3>1, <3>2
  <2>4. QED
    BY <2>2, <2>3
<1>7. QED
  BY <1>5, <1>6

\* The answer.  A key in the slot was stamped by its own last call; a key that
\* was seen and not lost is in the slot.
LEMMA CallAnswer ==
    ASSUME Inv, NEW k \in Keys, NEW t \in Times, isRetry(k, t)
    PROVE  NoFalseRetry' /\ NoMissedRetry'
<1>1. PICK i \in Slots :
           /\ i = Slot(k)
           /\ answer' = [key |-> k, at |-> t, before |-> last[k], lost |-> k \in lost,
                         retry |-> hash[i] = k /\ t - lastSec[i] * PerSec <= Window]
  BY CallEffect
<1>2. TypeOK /\ Reachable /\ Stamped /\ Present /\ k # NoKey
  BY KeysAssumption DEF Inv, NoKey
<1>3. /\ answer'.at = t /\ answer'.before = last[k] /\ answer'.lost = (k \in lost)
      /\ answer'.retry = (hash[i] = k /\ t - lastSec[i] * PerSec <= Window)
  BY <1>1
<1>4. t \in Nat /\ last[k] \in Nat \cup {Never} /\ PerSec \in Nat \ {0} /\ Window \in Nat
  BY <1>2, TimeAssumption DEF TypeOK, Times
<1>5. ASSUME hash[i] = k
      PROVE  /\ last[k] \in Nat /\ lastSec[i] * PerSec \in Nat
             /\ lastSec[i] * PerSec <= last[k] /\ last[k] <= lastSec[i] * PerSec + (PerSec - 1)
  <2>1. last[k] # Never /\ lastSec[i] = last[k] \div PerSec
    BY <1>2, <1>5 DEF Stamped
  <2>2. QED
    BY <1>4, <2>1, WholeSeconds
<1>6. NoFalseRetry'
  <2>1. SUFFICES ASSUME hash[i] = k, t - lastSec[i] * PerSec <= Window
                 PROVE  last[k] # Never /\ t - last[k] <= Window
    BY <1>3 DEF NoFalseRetry
  <2>2. QED
    BY <1>4, <1>5, <2>1 DEF Never
<1>7. NoMissedRetry'
  <2>1. SUFFICES ASSUME last[k] # Never, t - last[k] <= Window - (PerSec - 1), k \notin lost
                 PROVE  hash[i] = k /\ t - lastSec[i] * PerSec <= Window
    BY <1>3 DEF NoMissedRetry
  <2>2. PICK j \in Slots : hash[j] = k
    BY <1>2, <2>1 DEF Present
  <2>3. hash[i] = k
    BY <1>1, <1>2, <2>2, FoundIffThere
  <2>4. QED
    BY <1>4, <1>5, <2>1, <2>3
<1>8. QED
  BY <1>6, <1>7

\* When a call costs a key, the slots of its probe sequence held as many
\* different keys as there are slots, and none of them is the key of the call:
\* with it, more keys were seen than a probe sequence has slots.
LEMMA CallKeeps ==
    ASSUME Inv, NEW k \in Keys, NEW t \in Times, isRetry(k, t)
    PROVE  KeepsUntilCrowded'
<1> DEFINE S1 == {x \in Keys : last[x] # Never}
           S2 == {x \in Keys : last'[x] # Never}
<1>1. PICK i \in Slots :
           /\ i = Slot(k) /\ hash' = [hash EXCEPT ![i] = k]
           /\ last' = [last EXCEPT ![k] = t]
           /\ lost' = (lost \cup ({hash[i]} \ {NoKey})) \ {k}
  BY CallEffect
<1>2. TypeOK /\ Unique /\ Stamped /\ KeepsUntilCrowded /\ t # Never /\ k \in Nat
  BY TimeAssumption, KeysAssumption DEF Inv, Times, Never
<1>3. hash \in [Slots -> Keys \cup {NoKey}] /\ last \in [Keys -> Times \cup {Never}]
  BY <1>2 DEF TypeOK
<1>4. S1 \subseteq S2 /\ k \in S2 /\ S2 \subseteq Keys
  BY <1>1, <1>2, <1>3
<1>5. IsFiniteSet(S2) /\ IsFiniteSet(S1) /\ IsFiniteSet(S2 \ {k})
  BY <1>4, KeysAssumption, FS_Subset
<1>6. /\ Cardinality(S1) \in Nat /\ Cardinality(S2) \in Nat
      /\ Cardinality(S1) <= Cardinality(S2)
      /\ Cardinality(S2 \ {k}) = Cardinality(S2) - 1
  <2>1. Cardinality(S1) \in Nat /\ Cardinality(S2) \in Nat
    BY <1>5, FS_CardinalityType
  <2>2. Cardinality(S1) <= Cardinality(S2)
    BY <1>4, <1>5, FS_Subset
  <2>3. Cardinality(S2 \ {k}) = Cardinality(S2) - 1
    BY <1>4, <1>5, FS_RemoveElement
  <2>4. QED
    BY <2>1, <2>2, <2>3
<1> HIDE DEF S1, S2
<1>7. Probes \in Nat
  BY TableAssumption
<1>8. SUFFICES ASSUME Cardinality(S2) <= Probes
               PROVE  lost' = {}
  BY DEF KeepsUntilCrowded, S2
<1>9. lost = {}
  BY <1>2, <1>6, <1>7, <1>8 DEF KeepsUntilCrowded, S1
<1>10. hash[i] \in {NoKey, k}
  <2>1. SUFFICES ASSUME hash[i] \notin {NoKey, k}
                 PROVE  FALSE
    OBVIOUS
  <2> DEFINE f == [p \in 0..(Probes - 1) |-> hash[At(k, p)]]
  <2>2. \A p \in 0..(Probes - 1) : hash[At(k, p)] \notin {NoKey, k}
    BY <1>1, <2>1, SlotOffset
  <2>3. \A p \in 0..(Probes - 1) : At(k, p) \in Slots
    BY <1>2, AtType, TableAssumption
  <2>4. \A p \in 0..(Probes - 1) : hash[At(k, p)] \in S2 \ {k}
    <3>1. \A p \in 0..(Probes - 1) : hash[At(k, p)] \in S1
      BY <1>2, <1>3, <2>2, <2>3 DEF Stamped, S1
    <3>2. QED
      BY <1>4, <2>2, <3>1
  <2>5. \A p, q \in 0..(Probes - 1) : hash[At(k, p)] = hash[At(k, q)] => p = q
    <3>1. \A p, q \in 0..(Probes - 1) : hash[At(k, p)] = hash[At(k, q)] => At(k, p) = At(k, q)
      BY <1>2, <2>2, <2>3 DEF Unique
    <3>2. QED
      BY <1>2, <3>1, AtInjective
  <2>6. f \in Injection(0..(Probes - 1), S2 \ {k})
    BY <2>4, <2>5 DEF Injection, IsInjective
  <2>7. Cardinality(0..(Probes - 1)) <= Cardinality(S2 \ {k})
    BY <1>5, <2>6, FS_Injection
  <2>8. Cardinality(0..(Probes - 1)) = Probes
    BY FS_Interval, TableAssumption
  <2>9. QED
    BY <1>6, <1>7, <1>8, <2>7, <2>8
<1>11. QED
  BY <1>1, <1>9, <1>10

\* A call with a key keeps the invariant.
LEMMA CallKeepsInv ==
    ASSUME Inv, NEW k \in Keys, NEW t \in Times, isRetry(k, t)
    PROVE  Inv'
BY CallType, CallUnique, CallReachable, CallStamped, CallPresent, CallAnswer, CallKeeps DEF Inv

\* A span without a key touches neither the table nor what it knows.
LEMMA KeylessKeepsInv ==
    ASSUME Inv, NEW t \in Times, Keyless(t)
    PROVE  Inv'
<1>1. UNCHANGED <<hash, lastSec, last, lost>> /\ newest' = IF t > newest THEN t ELSE newest
  BY DEF Keyless
<1>2. answer' = [key |-> NoKey, at |-> t, before |-> Never, lost |-> FALSE, retry |-> FALSE]
  BY DEF Keyless
<1>3. TypeOK'
  BY <1>1 DEF Inv, TypeOK
<1>4. Reachable' /\ Unique'
  BY <1>1 DEF Inv, Reachable, LeadsTo, Unique
<1>5. Stamped' /\ Present' /\ NotLost' /\ KeepsUntilCrowded'
  BY <1>1 DEF Inv, Stamped, Present, NotLost, KeepsUntilCrowded
<1>6. NoFalseRetry' /\ NoMissedRetry'
  BY <1>2 DEF NoFalseRetry, NoMissedRetry
<1>7. QED
  BY <1>3, <1>4, <1>5, <1>6 DEF Inv

\* The empty table.
LEMMA InitInv == Init => Inv
<1>1. SUFFICES ASSUME Init PROVE Inv
  OBVIOUS
<1>2. \A i \in Slots : hash[i] = NoKey /\ lastSec[i] = 0
  BY <1>1 DEF Init
<1>3. TypeOK
  BY <1>1, TimeAssumption DEF Init, TypeOK, Times
<1>4. Reachable /\ Unique /\ Stamped
  BY <1>2 DEF Reachable, Unique, Stamped
<1>5. Present /\ NotLost /\ KeepsUntilCrowded
  BY <1>1 DEF Init, Present, NotLost, KeepsUntilCrowded
<1>6. NoFalseRetry /\ NoMissedRetry
  BY <1>1 DEF Init, NoFalseRetry, NoMissedRetry
<1>7. QED
  BY <1>3, <1>4, <1>5, <1>6 DEF Inv

\* The invariant is inductive.
THEOREM TableInvariant == Spec => []Inv
<1>1. Init => Inv
  BY InitInv
<1>2. Inv /\ [Next]_vars => Inv'
  <2>1. SUFFICES ASSUME Inv, [Next]_vars PROVE Inv'
    OBVIOUS
  <2>2. CASE Next
    BY <2>1, <2>2, CallKeepsInv, KeylessKeepsInv DEF Next
  <2>3. CASE UNCHANGED vars
    <3>1. UNCHANGED <<hash, lastSec, last, newest, lost, answer>>
      BY <2>3 DEF vars
    <3>2. TypeOK' /\ Reachable' /\ Unique'
      BY <2>1, <3>1 DEF Inv, TypeOK, Reachable, LeadsTo, Unique
    <3>3. Stamped' /\ Present' /\ NotLost'
      BY <2>1, <3>1 DEF Inv, Stamped, Present, NotLost
    <3>4. NoFalseRetry' /\ NoMissedRetry' /\ KeepsUntilCrowded'
      BY <2>1, <3>1 DEF Inv, NoFalseRetry, NoMissedRetry, KeepsUntilCrowded
    <3>5. QED
      BY <3>2, <3>3, <3>4 DEF Inv
  <2>4. QED
    BY <2>1, <2>2, <2>3
<1>3. QED
  BY <1>1, <1>2, PTL DEF Spec

\* Whatever the calls, the table keeps its types and a slot that is empty has
\* no time.
THEOREM TableTypes == Spec => []TypeOK
<1>1. Inv => TypeOK
  BY DEF Inv
<1>2. QED
  BY <1>1, TableInvariant, PTL

\* isRetry finds every key that is in the table, and a key is there once: for
\* every hash, table size and probe limit, and any sequence of overwrites.
THEOREM KeysAreFound == Spec => []ProbeFinds
<1>1. Inv => ProbeFinds
  <2>1. SUFFICES ASSUME Inv, NEW i \in Slots, hash[i] # NoKey
                 PROVE  /\ i \in Run(hash[i]) /\ Slot(hash[i]) = i
                        /\ \A j \in Slots : hash[j] = hash[i] => j = i
    BY DEF ProbeFinds
  <2>2. hash[i] \in Keys /\ Slot(hash[i]) = i
    BY <2>1, TableFound DEF Inv
  <2>3. i \in Run(hash[i])
    BY <2>2, SlotType
  <2>4. QED
    BY <2>1, <2>2, <2>3 DEF Inv, Unique
<1>2. QED
  BY <1>1, TableInvariant, PTL

\* A request is called a retry only if its key was seen within the window.
THEOREM NoRetryIsMadeUp == Spec => []NoFalseRetry
<1>1. Inv => NoFalseRetry
  BY DEF Inv
<1>2. QED
  BY <1>1, TableInvariant, PTL

\* A repetition within the window, less the last second of it, is called a retry
\* unless the key was overwritten.
THEOREM NoRetryIsMissed == Spec => []NoMissedRetry
<1>1. Inv => NoMissedRetry
  BY DEF Inv
<1>2. QED
  BY <1>1, TableInvariant, PTL

\* Up to as many keys as a probe sequence has slots, no key is overwritten.
THEOREM CollisionsCostNothing == Spec => []KeepsUntilCrowded
<1>1. Inv => KeepsUntilCrowded
  BY DEF Inv
<1>2. QED
  BY <1>1, TableInvariant, PTL
=============================================================================
