--------------------------- MODULE EvaluatorProof ---------------------------
(***************************************************************************)
(* Proofs about the table of services, the in-flight count and the         *)
(* in-flight trigger, for every number of services and of concurrent       *)
(* calls, every size of the table and every accepted configuration of the  *)
(* trigger; and about what configurations are accepted.                    *)
(*                                                                         *)
(* Two invariants: Inv, about each entry and the calls that are open, to   *)
(* which the orders of services do not matter, and TableInv, about the     *)
(* orders.                                                                 *)
(***************************************************************************)
EXTENDS Evaluator, OrdersProof

EntryType ==
    [age : 0..OldAge, inFlight : Nat, peak : Nat, base : Int, held : Int, sev : Severities]
CallType == [svc : Services, lag : 0..Skew]

\* The types of everything but the two orders of services.
Typed ==
    /\ DOMAIN services \subseteq Services
    /\ \A s \in DOMAIN services : services[s] \in EntryType
    /\ call \in [Callers -> CallType \cup {Idle}]
    /\ calm \in [DOMAIN services -> 0..SevereHold]

(***************************************************************************)
(* The operations on an entry.                                             *)
(***************************************************************************)

\* The constants are numbers.
LEMMA Numbers ==
  /\ TTL \in Nat /\ Skew \in Nat /\ MinAbsolute \in Nat /\ Multiplier \in Nat
  /\ SevereHold \in Nat /\ MildHold \in Nat /\ SevereHold >= MildHold
  BY TableAssumption, InFlightAssumption DEF PileupFits

\* The entry touch returns is the one in the table, but for its time, or is empty.
LEMMA EntryFacts ==
  ASSUME Typed, NEW s \in Services
  PROVE  /\ Entry(s) \in EntryType /\ Entry(s).age = 0
         /\ s \in DOMAIN services => /\ Entry(s).inFlight = services[s].inFlight
                                     /\ Entry(s).held = services[s].held
                                     /\ Entry(s).sev = services[s].sev
         /\ s \notin DOMAIN services => /\ Entry(s).inFlight = 0
                                        /\ Entry(s).held = Unset /\ Entry(s).sev = "none"
  <1>1. 0 \in 0..OldAge
    BY Numbers DEF OldAge
  <1>2. CASE s \in DOMAIN services
    BY <1>1, <1>2 DEF Typed, EntryType, Entry
  <1>3. CASE s \notin DOMAIN services
    BY <1>1, <1>3 DEF EntryType, Entry, newServiceState, Unset, Severities
  <1> QED
    BY <1>2, <1>3

\* A start adds one to the count, a completion takes one away if there is one, and
\* both leave the trigger alone.
LEMMA CountFacts ==
  ASSUME NEW e \in EntryType
  PROVE  /\ Started(e) \in EntryType /\ Completed(e) \in EntryType
         /\ Started(e).inFlight = e.inFlight + 1
         /\ Completed(e).inFlight = IF e.inFlight > 0 THEN e.inFlight - 1 ELSE 0
         /\ Started(e).held = e.held /\ Started(e).sev = e.sev /\ Started(e).age = e.age
         /\ Completed(e).held = e.held /\ Completed(e).sev = e.sev /\ Completed(e).age = e.age
  <1>1. /\ Started(e) \in EntryType /\ Started(e).inFlight = e.inFlight + 1
        /\ Started(e).held = e.held /\ Started(e).sev = e.sev /\ Started(e).age = e.age
    <2>1. (IF e.peak > e.inFlight THEN e.peak ELSE e.inFlight + 1) \in Nat /\ e.inFlight + 1 \in Nat
      BY DEF EntryType
    <2> QED
      BY <2>1 DEF EntryType, Started
  <1>2. /\ Completed(e) \in EntryType
        /\ Completed(e).inFlight = IF e.inFlight > 0 THEN e.inFlight - 1 ELSE 0
        /\ Completed(e).held = e.held /\ Completed(e).sev = e.sev /\ Completed(e).age = e.age
    <2>1. (IF e.inFlight > 0 THEN e.inFlight - 1 ELSE 0) \in Nat
      BY DEF EntryType
    <2> QED
      BY <2>1 DEF EntryType, Completed
  <1> QED
    BY <1>1, <1>2

\* An evaluation of the trigger leaves the count alone.
LEMMA EvaluationFacts ==
  ASSUME NEW e \in EntryType, NEW lag \in 0..Skew, NEW base \in BasesAfter(e)
  PROVE  /\ evaluateInFlight(e, lag, base) \in EntryType
         /\ evaluateInFlight(e, lag, base).inFlight = e.inFlight
         /\ evaluateInFlight(e, lag, base).age = e.age
         /\ evaluateInFlight(e, lag, base).held = HeldAfter(e, lag)
         /\ evaluateInFlight(e, lag, base).sev = SeverityAfter(e, lag)
  <1>1. base \in Int
    <2>1. \A n \in Nat : Scaled(n) \in Int
      BY Numbers, OneAssumption DEF Scaled
    <2> QED
      BY <2>1 DEF BasesAfter, EntryType
  <1>2. HeldAfter(e, lag) \in Int
    BY Numbers DEF HeldAfter, EntryType, Unset
  <1>3. SeverityAfter(e, lag) \in Severities
    BY DEF SeverityAfter, Severities
  <1> QED
    BY <1>1, <1>2, <1>3 DEF evaluateInFlight, EntryType

-----------------------------------------------------------------------------
(***************************************************************************)
(* The invariants, as what they say of one entry.                          *)
(***************************************************************************)

\* The time since the condition was first met is not longer than the calm before
\* it, up to the age of the timestamp with which it was met.
HoldOK(e, quiet) ==
    /\ e.held # Unset => e.held >= 0 /\ quiet >= e.held - Skew
    /\ e.sev = "severe" => quiet >= SevereHold - Skew
    /\ e.sev = "mild" => quiet >= MildHold - Skew

HoldInv == \A s \in DOMAIN services : HoldOK(services[s], calm[s])

\* A completion that evaluates the trigger keeps the relation, on an entry that
\* has it or is new.
LEMMA HoldEvaluated ==
  ASSUME NEW e \in EntryType, NEW lag \in 0..Skew, NEW base \in BasesAfter(e),
         NEW quiet \in 0..SevereHold, HoldOK(e, quiet)
  PROVE  HoldOK(evaluateInFlight(e, lag, base), IF ~Met(e) THEN 0 ELSE quiet)
  <1>1. /\ evaluateInFlight(e, lag, base).held = HeldAfter(e, lag)
        /\ evaluateInFlight(e, lag, base).sev = SeverityAfter(e, lag)
    BY EvaluationFacts
  <1>2. CASE Met(e)
    <2>1. HeldAfter(e, lag) = IF e.held = Unset THEN lag ELSE e.held
      BY <1>2 DEF HeldAfter
    <2>2. /\ HeldAfter(e, lag) >= 0 /\ HeldAfter(e, lag) \in Int
          /\ quiet >= HeldAfter(e, lag) - Skew
      BY <2>1, Numbers DEF HoldOK, EntryType
    <2>3. /\ SeverityAfter(e, lag) = "severe" => HeldAfter(e, lag) - lag >= SevereHold
          /\ SeverityAfter(e, lag) = "mild" => HeldAfter(e, lag) - lag >= MildHold
      BY DEF SeverityAfter
    <2> QED
      BY <1>1, <1>2, <2>2, <2>3, Numbers DEF HoldOK
  <1>3. CASE ~Met(e)
    <2>1. HeldAfter(e, lag) = Unset /\ SeverityAfter(e, lag) = "none"
      BY <1>3 DEF HeldAfter, SeverityAfter
    <2> QED
      BY <1>1, <2>1 DEF HoldOK
  <1> QED
    BY <1>2, <1>3

(***************************************************************************)
(* The actions.                                                            *)
(***************************************************************************)

\* The calm of an entry when touch returns it.
Quiet(s) == IF s \in DOMAIN services THEN calm[s] ELSE 0

\* What touch and the update of its entry do to the table: the other entries that
\* stay are as they were.
LEMMA StoreFacts ==
  ASSUME Typed, NEW s \in Services, NEW e \in EntryType, NEW below \in BOOLEAN, Store(s, e, below)
  PROVE  /\ DOMAIN services' \subseteq DOMAIN services \cup {s} /\ s \in DOMAIN services'
         /\ DOMAIN services' \subseteq Services /\ calm' \in [DOMAIN services' -> 0..SevereHold]
         /\ services'[s] = e /\ calm'[s] = IF below THEN 0 ELSE Quiet(s)
         /\ \A x \in DOMAIN services' : x # s => services'[x] = services[x] /\ calm'[x] = calm[x]
         /\ \A x \in DOMAIN services' : services'[x] \in EntryType /\ calm'[x] \in 0..SevereHold
  <1>1. /\ services' = [x \in Kept(s) |-> IF x = s THEN e ELSE services[x]]
        /\ calm' = [x \in Kept(s) |-> IF x \notin DOMAIN services \/ (x = s /\ below)
                                       THEN 0 ELSE calm[x]]
    BY DEF Store
  <1>2. s \in Kept(s) /\ Kept(s) \subseteq DOMAIN services \cup {s}
    BY DEF Kept
  <1>3. 0 \in 0..SevereHold
    BY Numbers
  <1>4. calm' \in [Kept(s) -> 0..SevereHold]
    BY <1>1, <1>2, <1>3 DEF Typed
  <1> QED
    BY <1>1, <1>2, <1>3, <1>4 DEF Typed, Quiet

\* The entry that a completion stores, and whether the trigger found no pile-up.
LEMMA CompleteFacts ==
  ASSUME Typed, HoldInv, NEW s \in Services, NEW lag \in 0..Skew, OnRequestComplete(s, lag)
  PROVE  \E e \in EntryType, below \in BOOLEAN :
            /\ Store(s, e, below) /\ e.age = 0
            /\ e.inFlight = IF Entry(s).inFlight > 0 THEN Entry(s).inFlight - 1 ELSE 0
            /\ HoldOK(e, IF below THEN 0 ELSE Quiet(s))
  <1> DEFINE e == Completed(Entry(s))
  <1>1. Entry(s) \in EntryType /\ Entry(s).age = 0
    BY EntryFacts
  <1>2. /\ e \in EntryType /\ e.age = 0 /\ e.held = Entry(s).held /\ e.sev = Entry(s).sev
        /\ e.inFlight = IF Entry(s).inFlight > 0 THEN Entry(s).inFlight - 1 ELSE 0
    BY <1>1, CountFacts
  <1>3. HoldOK(e, Quiet(s)) /\ Quiet(s) \in 0..SevereHold
    <2>1. CASE s \in DOMAIN services
      BY <1>2, <2>1, EntryFacts DEF HoldInv, HoldOK, Quiet, Typed
    <2>2. CASE s \notin DOMAIN services
      BY <1>2, <2>2, EntryFacts, Numbers DEF HoldOK, Quiet
    <2> QED
      BY <2>1, <2>2
  <1>4. \/ Store(s, e, FALSE)
        \/ \E base \in BasesAfter(e) : Store(s, evaluateInFlight(e, lag, base), ~Met(e))
    BY DEF OnRequestComplete
  <1> HIDE DEF e
  <1>5. CASE Store(s, e, FALSE)
    <2>1. HoldOK(e, IF FALSE THEN 0 ELSE Quiet(s))
      BY <1>3
    <2> QED
      BY <1>2, <1>5, <2>1
  <1>6. ASSUME NEW base \in BasesAfter(e), Store(s, evaluateInFlight(e, lag, base), ~Met(e))
        PROVE  \E f \in EntryType, below \in BOOLEAN :
                  /\ Store(s, f, below) /\ f.age = 0
                  /\ f.inFlight = IF Entry(s).inFlight > 0 THEN Entry(s).inFlight - 1 ELSE 0
                  /\ HoldOK(f, IF below THEN 0 ELSE Quiet(s))
    <2> DEFINE f == evaluateInFlight(e, lag, base)
    <2>1. f \in EntryType /\ f.inFlight = e.inFlight /\ f.age = 0
      BY <1>2, EvaluationFacts
    <2>2. HoldOK(f, IF ~Met(e) THEN 0 ELSE Quiet(s))
      BY <1>2, <1>3, HoldEvaluated
    <2>3. (~Met(e)) \in BOOLEAN
      BY Zenon DEF Met
    <2>4. Store(s, f, ~Met(e))
      BY <1>6
    <2> HIDE DEF f
    <2> QED
      BY <1>2, <2>1, <2>2, <2>3, <2>4
  <1> QED
    BY <1>4, <1>5, <1>6

\* The calls that have started a request of a service are finitely many.
LEMMA OpenFinite ==
  ASSUME NEW s
  PROVE  IsFiniteSet(Open(s)) /\ Cardinality(Open(s)) \in Nat
  BY SetsAssumption, FS_Subset, FS_CardinalityType DEF Open

Inv == Typed /\ HoldInv /\ InFlightNeverOver

\* The first states have no entries.
LEMMA InitInv == Init => Inv
  <1> SUFFICES ASSUME Init PROVE Inv
    OBVIOUS
  <1>1. DOMAIN services = {} /\ calm \in [{} -> 0..SevereHold] /\ call \in [Callers -> CallType \cup {Idle}]
    BY DEF Init
  <1> QED
    BY <1>1 DEF Inv, Typed, HoldInv, InFlightNeverOver

\* A touch whose entry fits the calls that are open after it.
LEMMA StoreInv ==
  ASSUME Inv, NEW s \in Services, NEW e \in EntryType, NEW below \in BOOLEAN, Store(s, e, below),
         HoldOK(e, IF below THEN 0 ELSE Quiet(s)),
         call' \in [Callers -> CallType \cup {Idle}],
         e.inFlight <= Cardinality(Open(s)'),
         \A x \in Services : x # s => Open(x)' = Open(x)
  PROVE  Inv'
  <1>1. /\ DOMAIN services' \subseteq DOMAIN services \cup {s} /\ s \in DOMAIN services'
        /\ DOMAIN services' \subseteq Services /\ calm' \in [DOMAIN services' -> 0..SevereHold]
        /\ services'[s] = e /\ calm'[s] = IF below THEN 0 ELSE Quiet(s)
        /\ \A x \in DOMAIN services' : x # s => services'[x] = services[x] /\ calm'[x] = calm[x]
        /\ \A x \in DOMAIN services' : services'[x] \in EntryType /\ calm'[x] \in 0..SevereHold
    BY StoreFacts DEF Inv
  <1>2. Typed'
    BY <1>1 DEF Typed
  <1>3. HoldInv'
    <2> SUFFICES ASSUME NEW x \in DOMAIN services' PROVE HoldOK(services'[x], calm'[x])
      BY DEF HoldInv, HoldOK
    <2> QED
      BY <1>1 DEF Inv, HoldInv
  <1>4. InFlightNeverOver'
    <2> SUFFICES ASSUME NEW x \in DOMAIN services'
                 PROVE  services'[x].inFlight <= Cardinality(Open(x)')
      BY DEF InFlightNeverOver
    <2>1. CASE x = s
      BY <1>1, <2>1
    <2>2. CASE x # s
      BY <1>1, <2>2 DEF Inv, InFlightNeverOver
    <2> QED
      BY <2>1, <2>2
  <1> QED
    BY <1>2, <1>3, <1>4 DEF Inv

\* The count in the entry touch returns is covered by the open calls.
LEMMA EntryCovered ==
  ASSUME Inv, NEW s \in Services
  PROVE  Entry(s).inFlight \in Nat /\ Entry(s).inFlight <= Cardinality(Open(s))
  <1>1. Entry(s) \in EntryType
    BY EntryFacts DEF Inv
  <1>2. Cardinality(Open(s)) \in Nat
    BY OpenFinite
  <1> QED
    BY <1>1, <1>2, EntryFacts DEF Inv, InFlightNeverOver, EntryType

\* A request that starts is one more in the count and one more open call.
LEMMA StartInv ==
  ASSUME Inv, NEW c \in Callers, NEW s \in Services, NEW lag \in 0..Skew, OnRequestStart(c, s, lag)
  PROVE  Inv'
  <1> DEFINE e == Started(Entry(s))
  <1>1. Entry(s) \in EntryType
    BY EntryFacts DEF Inv
  <1>2. /\ e \in EntryType /\ e.inFlight = Entry(s).inFlight + 1
        /\ e.held = Entry(s).held /\ e.sev = Entry(s).sev
    BY <1>1, CountFacts
  <1>3. /\ call[c] = Idle /\ call \in [Callers -> CallType \cup {Idle}]
        /\ call' = [call EXCEPT ![c] = [svc |-> s, lag |-> lag]]
    BY DEF OnRequestStart, Inv, Typed
  <1>4. [svc |-> s, lag |-> lag] \in CallType /\ [svc |-> s, lag |-> lag] # Idle
    BY SetsAssumption DEF CallType
  <1>5. call' \in [Callers -> CallType \cup {Idle}]
    BY <1>3, <1>4
  <1>6. Open(s)' = Open(s) \cup {c} /\ c \notin Open(s)
    BY <1>3, <1>4 DEF Open
  <1>7. \A x \in Services : x # s => Open(x)' = Open(x)
    BY <1>3, <1>4 DEF Open
  <1>8. Cardinality(Open(s) \cup {c}) = Cardinality(Open(s)) + 1
    BY <1>6, OpenFinite, FS_AddElement
  <1>9. e.inFlight <= Cardinality(Open(s)')
    BY <1>2, <1>6, <1>8, EntryCovered, OpenFinite
  <1>10. HoldOK(e, Quiet(s))
    <2>1. CASE s \in DOMAIN services
      BY <1>2, <2>1, EntryFacts DEF Inv, HoldInv, HoldOK, Quiet
    <2>2. CASE s \notin DOMAIN services
      BY <1>2, <2>2, EntryFacts DEF Inv, HoldOK
    <2> QED
      BY <2>1, <2>2
  <1>11. Store(s, e, FALSE)
    BY DEF OnRequestStart
  <1> HIDE DEF e
  <1>12. HoldOK(e, IF FALSE THEN 0 ELSE Quiet(s))
    BY <1>10
  <1> QED
    BY <1>2, <1>5, <1>7, <1>9, <1>11, <1>12, StoreInv

\* A completion without a call of its own only takes a count down.
LEMMA ClientInv ==
  ASSUME Inv, NEW s \in Services, NEW lag \in 0..Skew, ClientComplete(s, lag)
  PROVE  Inv'
  <1>1. OnRequestComplete(s, lag) /\ call' = call
    BY DEF ClientComplete
  <1>2. PICK e \in EntryType, below \in BOOLEAN :
            /\ Store(s, e, below)
            /\ e.inFlight = IF Entry(s).inFlight > 0 THEN Entry(s).inFlight - 1 ELSE 0
            /\ HoldOK(e, IF below THEN 0 ELSE Quiet(s))
    BY <1>1, CompleteFacts DEF Inv
  <1>3. \A x : Open(x)' = Open(x)
    BY <1>1 DEF Open
  <1>4. e.inFlight <= Cardinality(Open(s)')
    BY <1>2, <1>3, EntryCovered, OpenFinite
  <1>5. call' \in [Callers -> CallType \cup {Idle}]
    BY <1>1 DEF Inv, Typed
  <1> QED
    BY <1>2, <1>3, <1>4, <1>5, StoreInv

\* A completion closes its call and takes the count down by as much, or the count
\* was zero.
LEMMA ServerInv ==
  ASSUME Inv, NEW c \in Callers, ServerComplete(c)
  PROVE  Inv'
  <1>1. /\ call[c] # Idle /\ call \in [Callers -> CallType \cup {Idle}]
        /\ call' = [call EXCEPT ![c] = Idle]
    BY DEF ServerComplete, Inv, Typed
  <1>2. PICK s \in Services, lag \in 0..Skew : s = call[c].svc /\ lag = call[c].lag
    BY <1>1 DEF CallType
  <1>3. OnRequestComplete(s, lag)
    BY <1>2 DEF ServerComplete
  <1>4. call' \in [Callers -> CallType \cup {Idle}]
    BY <1>1
  <1>5. Open(s)' = Open(s) \ {c} /\ c \in Open(s)
    BY <1>1, <1>2 DEF Open
  <1>6. \A x \in Services : x # s => Open(x)' = Open(x)
    BY <1>1, <1>2 DEF Open
  <1>7. Cardinality(Open(s) \ {c}) = Cardinality(Open(s)) - 1
    BY <1>5, OpenFinite, FS_RemoveElement
  <1>8. PICK e \in EntryType, below \in BOOLEAN :
            /\ Store(s, e, below)
            /\ e.inFlight = IF Entry(s).inFlight > 0 THEN Entry(s).inFlight - 1 ELSE 0
            /\ HoldOK(e, IF below THEN 0 ELSE Quiet(s))
    BY <1>3, CompleteFacts DEF Inv
  <1>9. Cardinality(Open(s)) - 1 \in Nat
    <2>1. IsFiniteSet(Open(s) \ {c})
      BY OpenFinite, FS_Subset
    <2> QED
      BY <1>7, <2>1, FS_CardinalityType
  <1>10. e.inFlight <= Cardinality(Open(s) \ {c})
    <2>1. Entry(s).inFlight \in Nat /\ Entry(s).inFlight <= Cardinality(Open(s))
      BY EntryCovered
    <2>2. e.inFlight <= Cardinality(Open(s)) - 1
      <3>1. e.inFlight = IF Entry(s).inFlight > 0 THEN Entry(s).inFlight - 1 ELSE 0
        BY <1>8
      <3>2. Cardinality(Open(s)) \in Nat
        BY OpenFinite
      <3> QED
        BY <1>9, <2>1, <3>1, <3>2
    <2> QED
      BY <1>7, <2>2
  <1> QED
    BY <1>4, <1>5, <1>6, <1>8, <1>10, StoreInv

\* What pruning keeps is as it was.
LEMMA PruneInv ==
  ASSUME Inv, PruneStale
  PROVE  Inv'
  <1>1. /\ services' = Restrict(services, NotPruned) /\ calm' = Restrict(calm, NotPruned)
        /\ call' = call
    BY DEF PruneStale
  <1>2. NotPruned \subseteq DOMAIN services
    BY DEF NotPruned
  <1> HIDE DEF NotPruned
  <1>3. /\ DOMAIN services' = NotPruned /\ calm' \in [NotPruned -> 0..SevereHold]
        /\ \A x \in NotPruned : services'[x] = services[x] /\ calm'[x] = calm[x]
    BY <1>1, <1>2 DEF Restrict, Inv, Typed
  <1>4. Typed'
    BY <1>1, <1>2, <1>3 DEF Inv, Typed
  <1>5. HoldInv'
    <2> SUFFICES ASSUME NEW x \in DOMAIN services' PROVE HoldOK(services'[x], calm'[x])
      BY DEF HoldInv, HoldOK
    <2> QED
      BY <1>2, <1>3 DEF Inv, HoldInv
  <1>6. InFlightNeverOver'
    <2>1. \A x : Open(x)' = Open(x)
      BY <1>1 DEF Open
    <2> QED
      BY <1>2, <1>3, <2>1 DEF Inv, InFlightNeverOver
  <1> QED
    BY <1>4, <1>5, <1>6 DEF Inv

\* An entry one tick later.
Aged(e) == [e EXCEPT !.age = Cap(@ + 1, OldAge),
                     !.held = IF @ = Unset THEN Unset ELSE Cap(@ + 1, OldHeld)]

\* A tick adds at most one to the time since the condition was met and, until it is
\* as long as any hold, exactly one to the calm.
LEMMA AgedOK ==
  ASSUME NEW e \in EntryType, NEW quiet \in 0..SevereHold, HoldOK(e, quiet)
  PROVE  /\ Aged(e) \in EntryType /\ Aged(e).inFlight = e.inFlight
         /\ Cap(quiet + 1, SevereHold) \in 0..SevereHold
         /\ HoldOK(Aged(e), Cap(quiet + 1, SevereHold))
  <1> DEFINE held == IF e.held = Unset THEN Unset ELSE Cap(e.held + 1, OldHeld)
             q == Cap(quiet + 1, SevereHold)
  <1>1. Cap(e.age + 1, OldAge) \in 0..OldAge /\ held \in Int
    BY Numbers DEF EntryType, Cap, OldAge, OldHeld, Unset
  <1>2. /\ Aged(e) \in EntryType /\ Aged(e).inFlight = e.inFlight
        /\ Aged(e).held = held /\ Aged(e).sev = e.sev
    BY <1>1 DEF Aged, EntryType
  <1>3. q \in 0..SevereHold /\ (q = quiet + 1 \/ q = SevereHold) /\ q >= quiet
    BY Numbers DEF Cap
  <1>4. held # Unset => e.held # Unset /\ held <= e.held + 1 /\ held <= OldHeld /\ held >= 0
    BY Numbers DEF Cap, OldHeld, EntryType, HoldOK, Unset
  <1>5. held # Unset => q >= held - Skew
    BY <1>1, <1>3, <1>4, Numbers DEF HoldOK, OldHeld, EntryType
  <1> HIDE DEF held, q
  <1>6. /\ e.sev = "severe" => q >= SevereHold - Skew
        /\ e.sev = "mild" => q >= MildHold - Skew
    BY <1>3, Numbers DEF HoldOK
  <1>7. HoldOK(Aged(e), q)
    BY <1>2, <1>4, <1>5, <1>6 DEF HoldOK
  <1> QED
    BY <1>2, <1>3, <1>7 DEF q

\* A tick opens and closes no call.
LEMMA TickInv ==
  ASSUME Inv, Tick
  PROVE  Inv'
  <1>1. /\ services' = [s \in DOMAIN services |-> Aged(services[s])]
        /\ calm' = [s \in DOMAIN services |-> Cap(calm[s] + 1, SevereHold)]
    BY DEF Tick, Aged
  <1>2. \A s \in DOMAIN services :
           /\ services'[s] \in EntryType /\ services'[s].inFlight = services[s].inFlight
           /\ calm'[s] \in 0..SevereHold /\ HoldOK(services'[s], calm'[s])
    BY <1>1, AgedOK DEF Inv, Typed, HoldInv
  <1>3. DOMAIN services' = DOMAIN services /\ calm' \in [DOMAIN services -> 0..SevereHold]
    BY <1>1, <1>2
  <1>4. \A c \in Callers : /\ call'[c] \in CallType \cup {Idle}
                           /\ (call'[c] # Idle) <=> (call[c] # Idle)
                           /\ call[c] # Idle => call'[c].svc = call[c].svc
    <2> SUFFICES ASSUME NEW c \in Callers
                 PROVE  /\ call'[c] \in CallType \cup {Idle}
                        /\ (call'[c] # Idle) <=> (call[c] # Idle)
                        /\ call[c] # Idle => call'[c].svc = call[c].svc
      OBVIOUS
    <2>1. call[c] \in CallType \cup {Idle}
      BY DEF Inv, Typed
    <2>2. call'[c] = IF call[c] = Idle THEN Idle ELSE [call[c] EXCEPT !.lag = @ + 1]
      BY DEF Tick
    <2>3. CASE call[c] = Idle
      BY <2>2, <2>3
    <2>4. CASE call[c] # Idle
      <3>1. call[c] \in CallType /\ call[c].lag + 1 \in 0..Skew
        <4>1. call[c].lag < Skew
          BY <2>4, Zenon DEF Tick
        <4> QED
          BY <2>1, <2>4, <4>1, Numbers DEF CallType
      <3>2. [call[c] EXCEPT !.lag = @ + 1] \in CallType
        BY <3>1 DEF CallType
      <3>3. [call[c] EXCEPT !.lag = @ + 1].svc = call[c].svc
        BY <3>1 DEF CallType
      <3> QED
        BY <2>2, <2>4, <3>2, <3>3, SetsAssumption DEF CallType
    <2> QED
      BY <2>3, <2>4
  <1>5. call' \in [Callers -> CallType \cup {Idle}]
    <2>1. call' = [c \in Callers |-> call'[c]]
      BY DEF Tick
    <2> QED
      BY <1>4, <2>1
  <1>6. \A x : Open(x)' = Open(x)
    BY <1>4 DEF Open
  <1>7. Typed'
    BY <1>2, <1>3, <1>5 DEF Inv, Typed
  <1>8. HoldInv'
    <2> SUFFICES ASSUME NEW x \in DOMAIN services' PROVE HoldOK(services'[x], calm'[x])
      BY DEF HoldInv, HoldOK
    <2> QED
      BY <1>2, <1>3
  <1>9. InFlightNeverOver'
    BY <1>2, <1>3, <1>6 DEF Inv, InFlightNeverOver
  <1> QED
    BY <1>7, <1>8, <1>9 DEF Inv

\* Every step keeps the invariant.
LEMMA StepInv == Inv /\ [Next]_vars => Inv'
  <1> SUFFICES ASSUME Inv, [Next]_vars PROVE Inv'
    OBVIOUS
  <1>1. CASE \E s \in Services, lag \in 0..Skew :
                ClientComplete(s, lag) \/ \E c \in Callers : OnRequestStart(c, s, lag)
    BY <1>1, ClientInv, StartInv
  <1>2. CASE \E c \in Callers : ServerComplete(c)
    BY <1>2, ServerInv
  <1>3. CASE PruneStale
    BY <1>3, PruneInv
  <1>4. CASE Tick
    BY <1>4, TickInv
  <1>5. CASE UNCHANGED vars
    BY <1>5 DEF vars, Inv, Typed, HoldInv, HoldOK, InFlightNeverOver, Open
  <1> QED
    BY <1>1, <1>2, <1>3, <1>4, <1>5 DEF Next

-----------------------------------------------------------------------------
(***************************************************************************)
(* The order of eviction.  It is the end of the order of all touches, and  *)
(* pruning keeps it so because the times of the entries fall along it:     *)
(* what PruneStale takes out is then a front of it.                        *)
(***************************************************************************)
AgesFall(tab, o) == \A i, j \in 1..Len(o) : i < j => tab[o[j]].age <= tab[o[i]].age

TableInv ==
    /\ Listing(Services, recent, Members(recent))
    /\ Listing(Services, order, DOMAIN services)
    /\ \E k \in Nat : Ends(order, recent, k)
    /\ Len(order) <= MaxServices
    /\ AgesFall(services, order)

\* The ages fall along an end of the order too.
LEMMA FallEnds ==
  ASSUME NEW T, NEW o \in Seq(T), NEW s \in Seq(T), NEW k \in Nat, Ends(o, s, k),
         NEW tab, AgesFall(tab, s)
  PROVE  AgesFall(tab, o)
  <1> SUFFICES ASSUME NEW i \in 1..Len(o), NEW j \in 1..Len(o), i < j
               PROVE  tab[o[j]].age <= tab[o[i]].age
    BY DEF AgesFall
  <1>1. k + i \in 1..Len(s) /\ k + j \in 1..Len(s) /\ k + i < k + j
    BY Places DEF Ends
  <1>2. o[i] = s[k + i] /\ o[j] = s[k + j]
    BY DEF Ends
  <1> QED
    BY <1>1, <1>2 DEF AgesFall

\* And along the order without a service.
LEMMA FallWithout ==
  ASSUME NEW T, NEW o, NEW ids, Listing(T, o, ids), NEW x, NEW tab, AgesFall(tab, o)
  PROVE  AgesFall(tab, WithoutFirst(o, x))
  <1>1. o \in Seq(T) /\ Len(o) \in Nat /\ DOMAIN o = 1..Len(o)
    BY Places DEF Listing
  <1>2. CASE x \notin Members(o)
    BY <1>2 DEF WithoutFirst
  <1>3. CASE x \in Members(o)
    <2>1. PICK p \in 1..Len(o) : o[p] = x
      BY <1>1, <1>3 DEF Members
    <2>2. PICK r \in Seq(T) :
              /\ r = WithoutFirst(o, x) /\ DOMAIN r = 1..(Len(o) - 1)
              /\ \A i \in 1..(Len(o) - 1) : r[i] = IF i < p THEN o[i] ELSE o[i + 1]
      BY <1>1, <2>1, WithoutFirstPlaces DEF Listing
    <2>3. Len(r) = Len(o) - 1
      <3>1. Len(o) - 1 \in Nat
        BY <1>1
      <3> QED
        BY <2>2, <3>1
    <2> SUFFICES ASSUME NEW i \in 1..Len(r), NEW j \in 1..Len(r), i < j
                 PROVE  tab[r[j]].age <= tab[r[i]].age
      BY <2>2 DEF AgesFall
    <2>4. PICK a \in 1..Len(o), b \in 1..Len(o) : r[i] = o[a] /\ r[j] = o[b] /\ a < b
      <3>1. PICK a \in 1..Len(o) : a = IF i < p THEN i ELSE i + 1
        BY <1>1, <2>3
      <3>2. PICK b \in 1..Len(o) : b = IF j < p THEN j ELSE j + 1
        BY <1>1, <2>3
      <3>3. a < b
        BY <3>1, <3>2
      <3> QED
        BY <2>2, <2>3, <3>1, <3>2, <3>3
    <2> QED
      BY <2>4 DEF AgesFall
  <1> QED
    BY <1>2, <1>3

\* A service that is touched is younger than all before it.
LEMMA FallAppend ==
  ASSUME NEW T, NEW o \in Seq(T), NEW x \in T, NEW tab, NEW tab2, AgesFall(tab, o),
         \A y \in Members(o) : tab2[y].age = tab[y].age /\ tab[y].age \in Nat,
         tab2[x].age = 0
  PROVE  AgesFall(tab2, Append(o, x))
  <1>1. Len(o) \in Nat /\ DOMAIN o = 1..Len(o)
    BY Places
  <1>2. PICK q : q = Append(o, x)
    OBVIOUS
  <1>3. Len(q) = Len(o) + 1 /\ q[Len(o) + 1] = x /\ \A i \in 1..Len(o) : q[i] = o[i]
    BY <1>2, AppendPlaces
  <1>4. \A i \in 1..Len(o) : o[i] \in Members(o)
    BY <1>1 DEF Members
  <1> SUFFICES ASSUME NEW i \in 1..(Len(o) + 1), NEW j \in 1..(Len(o) + 1), i < j
               PROVE  tab2[q[j]].age <= tab2[q[i]].age
    BY <1>2, <1>3 DEF AgesFall
  <1>5. i \in 1..Len(o)
    BY <1>1
  <1>6. tab2[q[i]].age = tab[o[i]].age /\ tab[o[i]].age \in Nat
    BY <1>3, <1>4, <1>5
  <1>7. CASE j = Len(o) + 1
    BY <1>3, <1>6, <1>7
  <1>8. CASE j # Len(o) + 1
    <2>1. j \in 1..Len(o)
      BY <1>1, <1>8
    <2>2. tab2[q[j]].age = tab[o[j]].age
      BY <1>3, <1>4, <2>1
    <2> QED
      BY <1>5, <1>6, <2>1, <2>2 DEF AgesFall
  <1> QED
    BY <1>7, <1>8

\* The eviction loop of touch stops: there is a first place where it does.
LEMMA EvictedFacts ==
  ASSUME TableInv, NEW s
  PROVE  /\ Evicted(s) \in 0..Len(order)
         /\ s \in DOMAIN services => Evicted(s) = 0
         /\ s \notin DOMAIN services =>
               \/ Evicted(s) = Len(order)
               \/ Cardinality(DOMAIN services \ FirstIn(order, Evicted(s))) < MaxServices
  <1>1. order \in Seq(Services) /\ Len(order) \in Nat
    BY Places DEF TableInv, Listing
  <1>2. CASE s \in DOMAIN services
    BY <1>1, <1>2 DEF Evicted
  <1>3. CASE s \notin DOMAIN services
    <2> DEFINE Stops == {n \in 0..Len(order) :
                            \/ n = Len(order)
                            \/ Cardinality(DOMAIN services \ FirstIn(order, n)) < MaxServices}
    <2>1. Len(order) \in Stops /\ Stops \in SUBSET Nat
      BY <1>1
    <2>2. \E n \in Stops : \A m \in Stops : n <= m
      BY <2>1, LeastNumber
    <2>3. Evicted(s) = CHOOSE n \in Stops : \A m \in Stops : n <= m
      BY <1>3, Zenon DEF Evicted, Min
    <2>4. Evicted(s) \in Stops
      BY <2>2, <2>3, Zenon
    <2> QED
      BY <1>3, <2>4
  <1> QED
    BY <1>2, <1>3

\* What touch makes of the two orders, for a service that stays and for one that
\* is new: rest is what the eviction leaves.
LEMMA TouchedFacts ==
  ASSUME NEW rest, NEW ids, NEW s \in Services, NEW k \in Nat, Listing(Services, rest, ids),
         Listing(Services, recent, Members(recent)), Ends(rest, recent, k)
  PROVE  /\ Listing(Services, WithoutFirst(rest, s), ids \ {s})
         /\ Listing(Services, WithoutFirst(recent, s), Members(recent) \ {s})
         /\ \E l \in Nat : Ends(WithoutFirst(rest, s), WithoutFirst(recent, s), l)
  <1>1. /\ rest \in Seq(Services) /\ Members(rest) = ids /\ recent \in Seq(Services)
        /\ \A i, j \in DOMAIN recent : recent[i] = recent[j] => i = j
    BY DEF Listing
  <1>2. /\ Len(rest) \in Nat /\ DOMAIN rest = 1..Len(rest)
        /\ Len(recent) \in Nat /\ DOMAIN recent = 1..Len(recent)
    BY <1>1, Places
  <1>3. \A o, i : Listing(Services, o, i) => Listing(Services, WithoutFirst(o, s), i \ {s})
    <2> SUFFICES ASSUME NEW o, NEW i, Listing(Services, o, i)
                 PROVE  Listing(Services, WithoutFirst(o, s), i \ {s})
      OBVIOUS
    <2>1. CASE s \in i
      BY <2>1, RemoveListing
    <2>2. CASE s \notin i
      <3>1. WithoutFirst(o, s) = o /\ i \ {s} = i
        BY <2>2 DEF WithoutFirst, Listing
      <3> QED
        BY <3>1
    <2> QED
      BY <2>1, <2>2
  <1>4. CASE s \in ids
    <2>1. PICK p \in 1..Len(rest) : rest[p] = s
      BY <1>1, <1>2, <1>4 DEF Members
    <2>2. Ends(WithoutFirst(rest, rest[p]), WithoutFirst(recent, rest[p]), k)
      BY <1>1, EndsWithoutBoth
    <2> QED
      BY <1>3, <2>1, <2>2
  <1>5. CASE s \notin ids
    <2>1. WithoutFirst(rest, s) = rest
      BY <1>1, <1>5 DEF WithoutFirst
    <2>2. CASE s \notin Members(recent)
      <3>1. WithoutFirst(recent, s) = recent
        BY <2>2 DEF WithoutFirst
      <3> QED
        BY <1>3, <2>1, <3>1
    <2>3. CASE s \in Members(recent)
      <3>1. PICK p \in 1..Len(recent) : recent[p] = s
        BY <1>2, <2>3 DEF Members
      <3>2. p \in 1..k
        <4> SUFFICES ASSUME p \notin 1..k PROVE FALSE
          OBVIOUS
        <4>1. p - k \in 1..Len(rest) /\ k + (p - k) = p
          BY <1>2 DEF Ends
        <4>2. rest[p - k] = s
          BY <3>1, <4>1 DEF Ends
        <4> QED
          BY <1>1, <1>2, <1>5, <4>1, <4>2 DEF Members
      <3>3. Ends(rest, WithoutFirst(recent, recent[p]), k - 1)
        BY <1>1, <3>2, EndsWithoutBefore
      <3>4. k - 1 \in Nat
        BY <3>2
      <3> QED
        BY <1>3, <2>1, <3>1, <3>3, <3>4
    <2> QED
      BY <2>2, <2>3
  <1> QED
    BY <1>4, <1>5

\* touch keeps the order, whatever it evicts and whichever service it is.
LEMMA StoreTable ==
  ASSUME Typed, TableInv, NEW s \in Services, NEW e \in EntryType, e.age = 0,
         NEW below \in BOOLEAN, Store(s, e, below)
  PROVE  TableInv'
  <1>1. PICK n \in 0..Len(order) : n = Evicted(s)
    BY EvictedFacts
  <1>2. PICK k \in Nat : Ends(order, recent, k)
    BY DEF TableInv
  <1>3. PICK rest : rest = SubSeq(order, n + 1, Len(order))
    OBVIOUS
  <1>4. PICK ids : ids = DOMAIN services \ FirstIn(order, n)
    OBVIOUS
  <1>5. /\ Listing(Services, order, DOMAIN services) /\ Listing(Services, recent, Members(recent))
        /\ order \in Seq(Services) /\ recent \in Seq(Services) /\ Len(order) \in Nat /\ n \in Nat
    BY Places DEF TableInv, Listing
  <1>6. Listing(Services, rest, ids)
    BY <1>3, <1>4, <1>5, TailListing
  <1>7. Ends(rest, order, n) /\ rest \in Seq(Services)
    <2>1. /\ rest \in Seq(Services) /\ Len(rest) = Len(order) - n
          /\ \A i \in 1..(Len(order) - n) : rest[i] = order[n + i]
      BY <1>3, <1>5, TailPlaces
    <2>2. Len(order) = n + (Len(order) - n)
      BY <1>5
    <2> QED
      BY <2>1, <2>2 DEF Ends
  <1>8. Ends(rest, recent, n + k) /\ n + k \in Nat
    BY <1>2, <1>5, <1>7, EndsOfEnds
  <1>9. PICK o, r : o = WithoutFirst(rest, s) /\ r = WithoutFirst(recent, s)
    OBVIOUS
  <1>10. Listing(Services, o, ids \ {s}) /\ Listing(Services, r, Members(recent) \ {s})
    BY <1>5, <1>6, <1>8, <1>9, TouchedFacts
  <1>11. PICK l \in Nat : Ends(o, r, l)
    BY <1>5, <1>6, <1>8, <1>9, TouchedFacts
  <1>12. o \in Seq(Services) /\ r \in Seq(Services) /\ Members(o) = ids \ {s}
    BY <1>10 DEF Listing
  <1>13. /\ order' = Append(o, s) /\ recent' = Append(r, s)
         /\ services' = [x \in ids \cup {s} |-> IF x = s THEN e ELSE services[x]]
    <2>1. Kept(s) = ids \cup {s}
      BY <1>1, <1>4 DEF Kept
    <2>2. Touched(s) = Append(o, s)
      BY <1>1, <1>3, <1>9, Zenon DEF Touched, moveServiceToTail
    <2>3. moveServiceToTail(recent, s) = Append(r, s)
      BY <1>9, Zenon DEF moveServiceToTail
    <2> QED
      BY <2>1, <2>2, <2>3, Zenon DEF Store
  <1>14. Listing(Services, order', ids \cup {s})
    <2>1. Listing(Services, Append(o, s), (ids \ {s}) \cup {s})
      BY <1>10, AppendListing
    <2>2. (ids \ {s}) \cup {s} = ids \cup {s}
      OBVIOUS
    <2> QED
      BY <1>13, <2>1, <2>2
  <1>15. Listing(Services, recent', Members(recent'))
    <2>1. Listing(Services, Append(r, s), (Members(recent) \ {s}) \cup {s})
      BY <1>10, AppendListing
    <2> QED
      BY <1>13, <2>1 DEF Listing
  <1>16. Ends(order', recent', l)
    BY <1>11, <1>12, <1>13, EndsAppend
  <1>17. Len(order') <= MaxServices
    <2>1. IsFiniteSet(ids \cup {s}) /\ Cardinality(ids \cup {s}) = Len(order')
      BY <1>14, ListingLength
    <2>2. CASE s \in DOMAIN services
      <3>1. ids \cup {s} = DOMAIN services
        <4>1. n = 0
          BY <1>1, <2>2, EvictedFacts
        <4>2. FirstIn(order, n) = {}
          BY <4>1 DEF FirstIn
        <4> QED
          BY <1>4, <2>2, <4>2
      <3> QED
        BY <1>5, <2>1, <3>1, ListingLength DEF TableInv
    <2>3. CASE s \notin DOMAIN services
      <3>1. IsFiniteSet(ids) /\ Cardinality(ids) = Len(rest) /\ Len(rest) \in Nat
        BY <1>6, <1>7, ListingLength, Places
      <3>2. Cardinality(ids) < MaxServices
        <4>1. n = Len(order) \/ Cardinality(ids) < MaxServices
          BY <1>1, <1>4, <2>3, EvictedFacts
        <4>2. CASE n = Len(order)
          <5>1. Len(rest) = 0
            BY <1>5, <1>7, <3>1, <4>2 DEF Ends
          <5> QED
            BY <3>1, <5>1, TableAssumption
        <4> QED
          BY <4>1, <4>2
      <3>3. Cardinality(ids \cup {s}) = Cardinality(ids) + 1
        BY <1>4, <2>3, <3>1, FS_AddElement
      <3> QED
        BY <2>1, <3>1, <3>2, <3>3, TableAssumption
    <2> QED
      BY <2>2, <2>3
  <1>18. AgesFall(services', order')
    <2>1. AgesFall(services, rest)
      BY <1>5, <1>7, FallEnds DEF TableInv
    <2>2. AgesFall(services, o)
      BY <1>6, <1>9, <2>1, FallWithout
    <2>3. \A y \in Members(o) : services'[y].age = services[y].age /\ services[y].age \in Nat
      <3> SUFFICES ASSUME NEW y \in Members(o)
                   PROVE  services'[y].age = services[y].age /\ services[y].age \in Nat
        OBVIOUS
      <3>1. y # s /\ y \in ids /\ y \in DOMAIN services
        BY <1>4, <1>12
      <3>2. services[y] \in EntryType
        BY <3>1 DEF Typed
      <3>3. services'[y] = services[y]
        BY <1>13, <3>1
      <3> QED
        BY <3>2, <3>3, Numbers DEF EntryType, OldAge
    <2>4. services'[s].age = 0
      BY <1>13
    <2> QED
      BY <1>12, <1>13, <2>2, <2>3, <2>4, FallAppend
  <1>19. DOMAIN services' = ids \cup {s}
    BY <1>13
  <1> QED
    BY <1>14, <1>15, <1>16, <1>17, <1>18, <1>19 DEF TableInv

\* PruneStale takes a front of the order, the services whose time has run out.
LEMMA PruneTable ==
  ASSUME Typed, TableInv, PruneStale
  PROVE  TableInv'
  <1>1. PICK keep : keep = {s \in DOMAIN services : ~Stale(s)}
    OBVIOUS
  <1>2. /\ Listing(Services, order, DOMAIN services) /\ order \in Seq(Services)
        /\ recent \in Seq(Services) /\ Members(order) = DOMAIN services
        /\ Len(order) \in Nat /\ DOMAIN order = 1..Len(order)
    BY Places DEF TableInv, Listing
  <1>3. order' = Filter(order, keep) /\ recent' = recent
    BY <1>1 DEF PruneStale, PrunedOrder
  <1>4. services' = [x \in keep |-> services[x]]
    <2>1. NotPruned = keep
      BY <1>1, <1>2 DEF NotPruned
    <2>2. DOMAIN services \cap keep = keep
      BY <1>1
    <2> QED
      BY <2>1, <2>2 DEF PruneStale, Restrict
  <1>5. Listing(Services, order', DOMAIN services')
    <2>1. Listing(Services, Filter(order, keep), DOMAIN services \cap keep)
      BY <1>2, FilterListing
    <2>2. DOMAIN services \cap keep = keep /\ DOMAIN services' = keep
      BY <1>1, <1>4
    <2> QED
      BY <1>3, <2>1, <2>2
  <1>6. order' \in Seq(Services) /\ Members(order') = keep
    BY <1>4, <1>5 DEF Listing
  <1>7. PICK l \in 0..Len(order) : Ends(order', order, l)
    <2>1. ASSUME NEW i \in 1..Len(order), NEW j \in 1..Len(order), i < j, order[i] \in keep
          PROVE  order[j] \in keep
      <3>1. order[i] \in DOMAIN services /\ order[j] \in DOMAIN services
        BY <1>2 DEF Members
      <3>2. services[order[i]].age \in Int /\ services[order[j]].age \in Int
        <4>1. services[order[i]] \in EntryType /\ services[order[j]] \in EntryType
          BY <3>1 DEF Typed
        <4> QED
          BY <4>1 DEF EntryType
      <3>3. services[order[j]].age <= services[order[i]].age
        BY <2>1 DEF TableInv, AgesFall
      <3>4. ~(services[order[i]].age > TTL)
        BY <1>1, <2>1 DEF Stale
      <3>5. ~(services[order[j]].age > TTL)
        BY <3>2, <3>3, <3>4, Numbers
      <3> QED
        BY <1>1, <3>1, <3>5 DEF Stale
    <2> QED
      BY <1>2, <1>3, <2>1, FilterEnds
  <1>8. PICK k \in Nat : Ends(order, recent, k)
    BY DEF TableInv
  <1>9. Ends(order', recent', l + k) /\ l + k \in Nat
    <2>1. l \in Nat
      BY <1>2
    <2> QED
      BY <1>2, <1>3, <1>6, <1>7, <1>8, <2>1, EndsOfEnds
  <1>10. Len(order') <= MaxServices
    <2>1. Len(order') \in Nat /\ Len(order) = l + Len(order') /\ Len(order) <= MaxServices
      BY <1>6, <1>7, Places DEF Ends, TableInv
    <2> QED
      BY <1>2, <2>1, TableAssumption
  <1>11. AgesFall(services', order')
    <2>1. AgesFall(services, order')
      BY <1>2, <1>6, <1>7, FallEnds DEF TableInv
    <2>2. \A i \in 1..Len(order') : services'[order'[i]] = services[order'[i]]
      BY <1>4, <1>6, Places DEF Members
    <2> QED
      BY <2>1, <2>2 DEF AgesFall
  <1>12. Listing(Services, recent', Members(recent'))
    BY <1>3 DEF TableInv
  <1> QED
    BY <1>5, <1>9, <1>10, <1>11, <1>12 DEF TableInv

\* A tick makes all entries older, up to the same age.
LEMMA TickTable ==
  ASSUME Typed, TableInv, Tick
  PROVE  TableInv'
  <1>1. services' = [s \in DOMAIN services |-> Aged(services[s])] /\ order' = order /\ recent' = recent
    BY DEF Tick, Aged
  <1>2. Members(order) = DOMAIN services /\ Len(order) \in Nat /\ DOMAIN order = 1..Len(order)
    BY Places DEF TableInv, Listing
  <1>3. \A s \in DOMAIN services : /\ services'[s].age = Cap(services[s].age + 1, OldAge)
                                   /\ services[s].age \in Nat
    <2>1. \A x \in EntryType : Aged(x).age = Cap(x.age + 1, OldAge) /\ x.age \in Nat
      BY Numbers DEF EntryType, Aged, OldAge
    <2> QED
      BY <1>1, <2>1 DEF Typed
  <1>4. AgesFall(services', order')
    <2> SUFFICES ASSUME NEW i \in 1..Len(order), NEW j \in 1..Len(order), i < j
                 PROVE  services'[order[j]].age <= services'[order[i]].age
      BY <1>1 DEF AgesFall
    <2>1. order[i] \in DOMAIN services /\ order[j] \in DOMAIN services
      BY <1>2 DEF Members
    <2>2. services[order[j]].age <= services[order[i]].age
      BY DEF TableInv, AgesFall
    <2> QED
      BY <1>3, <2>1, <2>2, Numbers DEF Cap, OldAge
  <1>5. DOMAIN services' = DOMAIN services
    BY <1>1
  <1> QED
    BY <1>1, <1>4, <1>5 DEF TableInv

\* Every step keeps the order.
LEMMA StepTable == Inv /\ TableInv /\ [Next]_vars => TableInv'
  <1> SUFFICES ASSUME Inv, TableInv, [Next]_vars PROVE TableInv'
    OBVIOUS
  <1> USE DEF Inv
  <1>1. ASSUME NEW s \in Services, NEW lag \in 0..Skew, OnRequestComplete(s, lag)
        PROVE  TableInv'
    BY <1>1, CompleteFacts, StoreTable
  <1>2. ASSUME NEW s \in Services, NEW lag \in 0..Skew, NEW c \in Callers, OnRequestStart(c, s, lag)
        PROVE  TableInv'
    <2>1. Started(Entry(s)) \in EntryType /\ Started(Entry(s)).age = 0
      BY EntryFacts, CountFacts
    <2>2. Store(s, Started(Entry(s)), FALSE)
      BY <1>2 DEF OnRequestStart
    <2> QED
      BY <2>1, <2>2, StoreTable
  <1>3. ASSUME NEW c \in Callers, ServerComplete(c)
        PROVE  TableInv'
    <2>1. PICK s \in Services, lag \in 0..Skew : s = call[c].svc /\ lag = call[c].lag
      BY <1>3 DEF ServerComplete, Typed, CallType
    <2> QED
      BY <1>1, <1>3, <2>1 DEF ServerComplete
  <1>4. CASE PruneStale
    BY <1>4, PruneTable
  <1>5. CASE Tick
    BY <1>5, TickTable
  <1>6. CASE UNCHANGED vars
    BY <1>6 DEF vars, TableInv
  <1> QED
    BY <1>1, <1>2, <1>3, <1>4, <1>5, <1>6 DEF Next, ClientComplete

\* At first there is no service in either order.
LEMMA InitTable == Init => TableInv
  <1> SUFFICES ASSUME Init PROVE TableInv
    OBVIOUS
  <1>1. order = << >> /\ recent = << >> /\ DOMAIN services = {}
    BY DEF Init
  <1>2. << >> \in Seq(Services) /\ Len(<< >>) = 0 /\ DOMAIN << >> = {} /\ 1..0 = {}
    OBVIOUS
  <1>3. Members(<< >>) = {}
    BY <1>2 DEF Members
  <1>4. Listing(Services, << >>, {})
    BY <1>2, <1>3 DEF Listing
  <1>5. Ends(<< >>, << >>, 0)
    BY <1>2 DEF Ends
  <1>6. AgesFall(services, << >>)
    BY <1>2 DEF AgesFall
  <1>7. Len(<< >>) <= MaxServices /\ 0 \in Nat
    BY <1>2, TableAssumption
  <1>8. \E k \in Nat : Ends(<< >>, << >>, k)
    BY <1>5, <1>7
  <1> QED
    BY <1>1, <1>3, <1>4, <1>6, <1>7, <1>8, Zenon DEF TableInv

\* An end of a sequence is a suffix of it, as SequencesExt defines it.
LEMMA EndIsSuffix ==
  ASSUME NEW T, NEW o \in Seq(T), NEW s \in Seq(T), NEW k \in Nat, Ends(o, s, k)
  PROVE  IsSuffix(o, s)
  <1>1. PICK n \in Nat, m \in Nat : n = Len(o) /\ m = Len(s) /\ m = k + n
    BY Places DEF Ends
  <1>2. PICK a, b : a = Reverse(o) /\ b = Reverse(s)
    OBVIOUS
  <1>3. a = [i \in 1..n |-> o[(n - i) + 1]] /\ b = [i \in 1..m |-> s[(m - i) + 1]]
    BY <1>1, <1>2 DEF Reverse
  <1>4. \A i \in 1..n : i \in 1..m /\ (n - i) + 1 \in 1..n /\ k + ((n - i) + 1) = (m - i) + 1
    BY <1>1
  <1>5. \A i \in 1..n : a[i] = b[i]
    <2> SUFFICES ASSUME NEW i \in 1..n PROVE a[i] = b[i]
      OBVIOUS
    <2>1. a[i] = o[(n - i) + 1] /\ b[i] = s[(m - i) + 1]
      BY <1>3, <1>4
    <2>2. o[(n - i) + 1] = s[k + ((n - i) + 1)]
      BY <1>1, <1>4 DEF Ends
    <2> QED
      BY <1>4, <2>1, <2>2
  <1>6. a \in Seq(T) /\ Len(a) = n
    <2>1. \A i \in 1..n : o[(n - i) + 1] \in T
      BY <1>1, <1>4, Places
    <2> QED
      BY <1>3, <2>1
  <1>7. b \in Seq(T) /\ Len(b) = m
    <2>1. \A i \in 1..m : (m - i) + 1 \in 1..m
      OBVIOUS
    <2>2. \A i \in 1..m : s[(m - i) + 1] \in T
      BY <1>1, <2>1, Places
    <2> QED
      BY <1>3, <2>2
  <1>8. SubSeq(a, 1, n) = SubSeq(b, 1, n)
    BY <1>1, <1>5, <1>6, <1>7
  <1>9. Len(a) <= Len(b)
    BY <1>1, <1>6, <1>7
  <1> QED
    BY <1>2, <1>6, <1>8, <1>9 DEF IsSuffix, IsPrefix

-----------------------------------------------------------------------------
(***************************************************************************)
(* The theorems.                                                           *)
(***************************************************************************)

\* The inductive invariant: the entries with their calls, and the order.
THEOREM EvaluatorInvariant == Spec => [](Inv /\ TableInv)
  BY InitInv, StepInv, InitTable, StepTable, PTL DEF Spec

\* The variables keep their types, for any table and any times.
THEOREM EvaluatorTypes == Spec => []TypeOK
  <1>1. Inv /\ TableInv => TypeOK
    <2> SUFFICES ASSUME Inv, TableInv PROVE TypeOK
      OBVIOUS
    <2>1. order \in Seq(Services) /\ recent \in Seq(Services)
      BY DEF TableInv, Listing
    <2> QED
      BY <2>1 DEF Inv, Typed, EntryType, CallType, TypeOK
  <1> QED
    BY <1>1, EvaluatorInvariant, PTL

\* touch and PruneStale keep the services that were touched last and never too
\* many of them, for any number of services and any size of the table: the order
\* of eviction is the end of the order of all touches, it names every entry of the
\* map, and moveServiceToTail, the eviction loop and the prune loop keep it so.
THEOREM TheTableIsLRU == Spec => []TableIsLRU
  <1>1. Inv /\ TableInv => TableIsLRU
    <2> SUFFICES ASSUME TableInv PROVE TableIsLRU
      OBVIOUS
    <2>1. /\ order \in Seq(Services) /\ recent \in Seq(Services)
          /\ Len(order) <= MaxServices /\ Members(order) = DOMAIN services
      BY DEF TableInv, Listing
    <2>2. PICK k \in Nat : Ends(order, recent, k)
      BY DEF TableInv
    <2>3. IsSuffix(order, recent)
      BY <2>1, <2>2, EndIsSuffix
    <2> QED
      BY <2>1, <2>3 DEF TableIsLRU
  <1> QED
    BY <1>1, EvaluatorInvariant, PTL

\* The count of OnRequestStart and OnRequestComplete never exceeds the requests in
\* progress, for any number of services and goroutines and any size of the table:
\* no eviction, pruning or client span leaves a request behind in it.
THEOREM InFlightCorrect == Spec => []InFlightNeverOver
  <1>1. Inv => InFlightNeverOver
    BY DEF Inv
  <1> QED
    BY <1>1, InitInv, StepInv, PTL DEF Spec

\* evaluateInFlight reports a pile-up only after it lasted as long as configured,
\* less the age of one timestamp, for all hold times.
THEOREM HoldCorrect == Spec => []HeldLongEnough
  <1>1. Inv => HeldLongEnough
    BY DEF Inv, HoldInv, HoldOK, HeldLongEnough
  <1> QED
    BY <1>1, InitInv, StepInv, PTL DEF Spec

-----------------------------------------------------------------------------
(***************************************************************************)
(* The configuration: what Validate accepts is what the parts assume, the  *)
(* assumptions above included, as far as its floats are numbers.           *)
(***************************************************************************)

\* A pair of thresholds that is accepted fits the rate trigger if both are
\* numbers: infinite ones are refused next to a number, but NaN is not.
LEMMA RatesThatFit ==
    ASSUME NEW r \in Rates, RatesAccepted(r), IsNumber(r.high), IsNumber(r.mild)
    PROVE  RatesFit(r.mild.n, r.high.n)
<1>1. r.high.n \in Int /\ r.mild.n \in Int
  BY DEF Rates, Floats
<1>2. /\ ~(r.high.n <= 0) /\ ~(~(r.high.n <= One))
      /\ ~(r.mild.n <= 0) /\ ~(~(r.mild.n <= r.high.n))
  BY DEF RatesAccepted, AtMost, Above, Number, IsNumber
<1>3. QED
  BY <1>1, <1>2, OneAssumption DEF RatesFit

\* A processor that newTracesProcessor returns was built from values with which
\* its parts work, exactly if the six thresholds and the multiplier are numbers:
\* what Validate checks at one place is then what the constructors need at five
\* others, and infinities and NaN are all that gets past it.
THEOREM AcceptedConfigFits ==
    ASSUME NEW c \in Configs, ProcessorBuilt(c)
    PROVE  PartsFit(c) <=> AllNumbers(c)
<1>1. /\ c.window \in Int /\ c.maxBuffer \in Int /\ c.timeout \in Int
      /\ c.error5xx \in Rates /\ c.slow \in Rates /\ c.retry \in Rates /\ c.inFlight \in Pileups
  BY DEF Configs
<1>2. /\ RatesAccepted(c.error5xx) /\ RatesAccepted(c.slow) /\ RatesAccepted(c.retry)
      /\ PileupAccepted(c.inFlight)
      /\ c.window > 0 /\ c.maxBuffer > 0 /\ c.timeout >= 0
  BY DEF ProcessorBuilt, Validate
<1>3. /\ NewEvaluator(c).error5xx = c.error5xx /\ NewEvaluator(c).slow = c.slow
      /\ NewEvaluator(c).retry = c.retry /\ NewEvaluator(c).inFlight = c.inFlight
      /\ NewEvaluator(c).minSamples = 20 /\ NewEvaluator(c).maxServices = 4096
      /\ NewEvaluator(c).serviceTTL = 600
  BY DEF NewEvaluator, OrDefault
<1>4. ASSUME PartsFit(c) PROVE AllNumbers(c)
  BY <1>3, <1>4 DEF PartsFit, AllNumbers
<1>5. ASSUME AllNumbers(c) PROVE PartsFit(c)
  <2>1. /\ IsNumber(c.error5xx.high) /\ IsNumber(c.error5xx.mild)
        /\ IsNumber(c.slow.high) /\ IsNumber(c.slow.mild)
        /\ IsNumber(c.retry.high) /\ IsNumber(c.retry.mild)
        /\ IsNumber(c.inFlight.multiplier)
    BY <1>5 DEF AllNumbers
  <2>2. /\ RatesFit(c.error5xx.mild.n, c.error5xx.high.n)
        /\ RatesFit(c.slow.mild.n, c.slow.high.n)
        /\ RatesFit(c.retry.mild.n, c.retry.high.n)
    BY <1>1, <1>2, <2>1, RatesThatFit
  <2>3. PileupFits(c.inFlight.minAbsolute, c.inFlight.multiplier.n, c.inFlight.severeHold,
                   c.inFlight.mildHold)
    <3>1. c.inFlight.multiplier.n \in Int /\ c.inFlight.minAbsolute \in Int
      BY <1>1 DEF Pileups, Floats
    <3>2. ~(c.inFlight.multiplier.n <= 0)
      BY <1>2, <2>1 DEF PileupAccepted, AtMost, Number, IsNumber
    <3> QED
      BY <1>2, <3>1, <3>2 DEF PileupAccepted, PileupFits
  <2>4. /\ ~RingPanics(c)
        /\ NewRing(c).maxSpans \in Nat \ {0} /\ NewRing(c).window \in Nat \ {0}
        /\ newTraceBreakerTTL(c) > NewRing(c).window
        /\ ClientTimeout(c) \in Nat \ {0}
    BY <1>1, <1>2 DEF RingPanics, NewRing, newTraceBreakerTTL, ClientTimeout, OrDefault
  <2> QED
    BY <1>3, <2>1, <2>2, <2>3, <2>4 DEF PartsFit
<1>6. QED
  BY <1>4, <1>5

\* Validate leaves forward.NewClient nothing of its own to refuse but a missing
\* token: an endpoint it accepts also has what splitEndpoint wants.
THEOREM OnlyTheTokenIsLeft ==
    ASSUME NEW c \in Configs, Validate(c)
    PROVE  ProcessorBuilt(c) <=> c.hasToken
BY DEF Configs, ProcessorBuilt, ClientBuilt, splitEndpoint, Validate, validateForwardEndpoint

\* The literals of DefaultConfig are numbers between 0 and 1, in their order.
LEMMA Percents ==
    /\ \A p \in {2, 5, 10, 20} : /\ Percent(p) = Number((p * One) \div 100)
                                 /\ (p * One) \div 100 \in 1..One
    /\ (2 * One) \div 100 <= (10 * One) \div 100
    /\ (5 * One) \div 100 <= (10 * One) \div 100
    /\ (10 * One) \div 100 <= (20 * One) \div 100
BY OneAssumption DEF Percent

\* Numbers in (0,1] and in order are accepted.
LEMMA NumbersAccepted ==
    ASSUME NEW h \in 1..One, NEW m \in 1..One, m <= h
    PROVE  /\ RatesAccepted([high |-> Number(h), mild |-> Number(m)])
           /\ [high |-> Number(h), mild |-> Number(m)] \in Rates
BY OneAssumption DEF RatesAccepted, AtMost, Above, Number, Rates, Floats

\* The default configuration is accepted, and the evaluator that is built from it
\* has the defaults of the package triggers: the tests of the triggers are about
\* what an operator gets who configures nothing.
THEOREM DefaultAccepted ==
    /\ DefaultConfig \in Configs /\ Validate(DefaultConfig)
    /\ NewEvaluator(DefaultConfig) = TriggerDefaults
<1> DEFINE d == DefaultConfig
<1>1. /\ d.error5xx = [high |-> Percent(10), mild |-> Percent(2)]
      /\ d.slow = [high |-> Percent(20), mild |-> Percent(10)]
      /\ d.retry = [high |-> Percent(10), mild |-> Percent(5)]
      /\ d.inFlight = [minAbsolute |-> 16, multiplier |-> Number(3 * One), netGrowth |-> 8,
                       severeHold |-> 6, mildHold |-> 3]
      /\ d.window = 300 /\ d.maxBuffer = 50000 /\ d.timeout = 30
      /\ d.endpoint = [parses |-> TRUE, scheme |-> "https", host |-> "named", blocked |-> FALSE]
  BY DEF DefaultConfig
<1>2. /\ RatesAccepted(d.error5xx) /\ d.error5xx \in Rates
      /\ RatesAccepted(d.slow) /\ d.slow \in Rates
      /\ RatesAccepted(d.retry) /\ d.retry \in Rates
  BY <1>1, Percents, NumbersAccepted
<1>3. PileupAccepted(d.inFlight) /\ d.inFlight \in Pileups
  BY <1>1, OneAssumption DEF PileupAccepted, Pileups, AtMost, Number, Floats
<1>4. validateForwardEndpoint(d.endpoint, d.insecure)
  BY <1>1 DEF validateForwardEndpoint
<1>5. Validate(d)
  BY <1>1, <1>2, <1>3, <1>4 DEF Validate
<1>6. d \in Configs
  BY <1>2, <1>3 DEF DefaultConfig, Configs, Endpoints
<1>7. NewEvaluator(d) = TriggerDefaults
  BY DEF DefaultConfig, NewEvaluator, OrDefault, TriggerDefaults
<1>8. QED
  BY <1>5, <1>6, <1>7

\* The exception in AcceptedConfigFits is needed: the default configuration with
\* a threshold that is NaN is accepted, since no comparison of the validation is
\* true of it.
THEOREM NaNIsAccepted ==
    LET c == [DefaultConfig EXCEPT !.slow = [high |-> Percent(20),
                                             mild |-> [class |-> "NaN", n |-> 0]]]
    IN  c \in Configs /\ Validate(c) /\ ~PartsFit(c)
<1> DEFINE s == [high |-> Percent(20), mild |-> [class |-> "NaN", n |-> 0]]
           c == [DefaultConfig EXCEPT !.slow = s]
<1>1. DefaultConfig \in Configs /\ Validate(DefaultConfig)
  BY DefaultAccepted
<1>2. s \in Rates
  BY OneAssumption DEF Percent, Number, Rates, Floats
<1>3. RatesAccepted(s)
  BY Percents DEF RatesAccepted, AtMost, Above, Number
<1>4. ~IsNumber(s.mild)
  BY DEF IsNumber
<1> HIDE DEF s
<1>5. c \in Configs /\ c.slow = s
  BY <1>1, <1>2 DEF Configs
<1>6. Validate(c)
  BY <1>1, <1>3, <1>5 DEF Validate, Configs
<1>7. ~PartsFit(c)
  BY <1>4, <1>5 DEF PartsFit, NewEvaluator
<1>8. QED
  BY <1>5, <1>6, <1>7 DEF s
=============================================================================
