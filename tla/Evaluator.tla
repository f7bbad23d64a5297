----------------------------- MODULE Evaluator ------------------------------
(***************************************************************************)
(* The table of services of the trigger evaluator and its in-flight        *)
(* trigger, four_triggers.go, as evaluateSpan of processor.go drives them. *)
(* A server span counts as a request that starts and completes while the   *)
(* goroutine is in evaluateSpan; between the two calls the mutex is free   *)
(* and other goroutines, the eviction of the table and the prune loop come *)
(* in.  A client span only completes.  The rate triggers of an entry are   *)
(* in RateTrigger and RetryTable; here they only decide whether the        *)
(* in-flight trigger is reached at all.                                    *)
(*                                                                         *)
(* Times are kept as distances to the present, in ticks, up to the largest *)
(* distance the code can tell apart, so behaviours have no last moment.    *)
(* The timestamp of a signal is taken before the mutex and is at most Skew *)
(* ticks old when it is used.  Spans without a service, of another kind or *)
(* with a duration out of range change nothing and are left out.           *)
(***************************************************************************)
EXTENDS Orders, SequencesExt, FiniteSetsExt, Config

CONSTANTS
    Services,    \* service names
    Callers,     \* goroutines inside ConsumeTraces
    MaxServices, \* cfg.MaxServices
    TTL,         \* cfg.ServiceTTL
    MinAbsolute, \* cfg.InFlightMinAbsolute
    Multiplier,  \* cfg.InFlightMultiplier in units of 1/One
    MildHold,    \* cfg.MildHoldSecs
    SevereHold,  \* cfg.SevereHoldSecs
    Skew,        \* bound: ticks from the timestamp of a signal to its use
    Idle         \* a caller outside evaluateSpan

ASSUME TableAssumption == MaxServices \in Nat \ {0} /\ TTL \in Nat /\ Skew \in Nat
ASSUME SetsAssumption  == IsFiniteSet(Callers) /\ Idle \notin [svc : Services, lag : 0..Skew]
ASSUME InFlightAssumption ==
    /\ SevereHold \in Nat /\ MildHold \in Nat \ {0}
    /\ PileupFits(MinAbsolute, Multiplier, SevereHold, MildHold)

VARIABLES
    services,    \* the map: DOMAIN services are the services it holds
    order,       \* their order of eviction
    call         \* the request a caller has started, or Idle

\* What an observer of the calls could write down.
VARIABLES
    recent,      \* all services seen so far, the last one touched at the end
    calm         \* ticks since the in-flight trigger of a service last found
                 \* the count below its threshold, or the entry was made

vars == <<services, order, call, recent, calm>>

-----------------------------------------------------------------------------
Severities == {"none", "mild", "severe"}
Unset == -1                        \* inFlightConditionAt = 0, inFlightEWMA = 0
Cap(n, limit) == IF n < limit THEN n ELSE limit
OldAge  == TTL + 1
OldHeld == SevereHold + Skew

newServiceState ==
    [age |-> 0, inFlight |-> 0, peak |-> 0, base |-> Unset, held |-> Unset, sev |-> "none"]

moveServiceToTail(seq, s) == Append(WithoutFirst(seq, s), s)

\* touch evicts from the front until there is room, however many that takes.
Evicted(s) ==
    LET Room(n) == \/ n = Len(order)
                   \/ Cardinality(DOMAIN services \ FirstIn(order, n)) < MaxServices
    IN  IF s \in DOMAIN services THEN 0 ELSE Min({n \in 0..Len(order) : Room(n)})

\* The order after touch: the service is the last one.
BugInsertionOrder(s) ==
    IF s \in DOMAIN services THEN order
    ELSE Append(SubSeq(order, Evicted(s) + 1, Len(order)), s)
Touched(s) == moveServiceToTail(SubSeq(order, Evicted(s) + 1, Len(order)), s)

\* The entry that touch returns: the one in the table, or a new one.
Entry(s) == IF s \in DOMAIN services THEN [services[s] EXCEPT !.age = 0] ELSE newServiceState

\* touch, with e as what the caller makes of the entry, and whether the in-flight
\* trigger was evaluated and found the count below its threshold.
Kept(s) == (DOMAIN services \ FirstIn(order, Evicted(s))) \cup {s}
Store(s, e, below) ==
    /\ order' = Touched(s)
    /\ services' = [x \in Kept(s) |-> IF x = s THEN e ELSE services[x]]
    /\ recent' = moveServiceToTail(recent, s)
    /\ calm' = [x \in Kept(s) |-> IF x \notin DOMAIN services \/ (x = s /\ below) THEN 0 ELSE calm[x]]

-----------------------------------------------------------------------------
Threshold(e) == IF e.base > MinAbsolute THEN e.base ELSE MinAbsolute
Met(e) == e.inFlight >= Threshold(e)

\* Distance to inFlightConditionAt after an evaluation at a time lag ticks ago.
BugNotReset(e, lag) == IF Met(e) /\ e.held = Unset THEN lag ELSE e.held
HeldAfter(e, lag) == IF Met(e) THEN IF e.held = Unset THEN lag ELSE e.held ELSE Unset

SeverityAfter(e, lag) ==
    LET hold == HeldAfter(e, lag) - lag
    IN  IF Met(e) /\ hold >= SevereHold THEN "severe"
        ELSE IF Met(e) /\ hold >= MildHold THEN "mild" ELSE "none"

\* The integer part of the baseline times the multiplier.  The baseline starts at
\* the peak and moves towards it by a twentieth of the way at a time.
Scaled(n) == (n * Multiplier) \div One
BasesAfter(e) ==
    IF e.sev # "none" \/ e.peak = 0 THEN {e.base}
    ELSE IF e.base = Unset THEN {Scaled(e.peak)} ELSE e.base..Scaled(e.peak)

\* evaluateInFlight on entry e.
evaluateInFlight(e, lag, base) ==
    [e EXCEPT !.held = HeldAfter(e, lag), !.sev = SeverityAfter(e, lag), !.base = base]

Started(e) == [e EXCEPT !.inFlight = @ + 1, !.peak = IF @ > e.inFlight THEN @ ELSE e.inFlight + 1]
BugNotFloored(e)  == [e EXCEPT !.inFlight = @ - 1]
BugNoDecrement(e) == e
Completed(e) == [e EXCEPT !.inFlight = IF @ > 0 THEN @ - 1 ELSE 0]

-----------------------------------------------------------------------------
Init ==
    /\ services = [x \in {} |-> newServiceState]
    /\ order = << >>
    /\ call = [c \in Callers |-> Idle]
    /\ recent = << >>
    /\ calm = [x \in {} |-> 0]

\* A server span: the time is read, the request is counted.
OnRequestStart(c, s, lag) ==
    /\ call[c] = Idle
    /\ call' = [call EXCEPT ![c] = [svc |-> s, lag |-> lag]]
    /\ Store(s, Started(Entry(s)), FALSE)

\* The span completes; a rate trigger that fires returns before the in-flight
\* trigger is evaluated.
OnRequestComplete(s, lag) ==
    LET e == Completed(Entry(s))
    IN  \/ Store(s, e, FALSE)
        \/ \E base \in BasesAfter(e) : Store(s, evaluateInFlight(e, lag, base), ~Met(e))

ServerComplete(c) ==
    /\ call[c] # Idle
    /\ OnRequestComplete(call[c].svc, call[c].lag)
    /\ call' = [call EXCEPT ![c] = Idle]

ClientComplete(s, lag) == OnRequestComplete(s, lag) /\ UNCHANGED call

Stale(s) == services[s].age > TTL
PrunedOrder == Filter(order, {s \in DOMAIN services : ~Stale(s)})

NotPruned == {s \in DOMAIN services : s \notin Members(order) \/ ~Stale(s)}

\* PruneStale walks the order, not the map.
PruneStale ==
    /\ order' = PrunedOrder
    /\ services' = Restrict(services, NotPruned)
    /\ calm' = Restrict(calm, NotPruned)
    /\ UNCHANGED <<call, recent>>

Tick ==
    /\ \A c \in Callers : call[c] # Idle => call[c].lag < Skew
    /\ call' = [c \in Callers |-> IF call[c] = Idle THEN Idle ELSE [call[c] EXCEPT !.lag = @ + 1]]
    /\ services' = [s \in DOMAIN services |->
         [services[s] EXCEPT !.age = Cap(@ + 1, OldAge),
                             !.held = IF @ = Unset THEN Unset ELSE Cap(@ + 1, OldHeld)]]
    /\ calm' = [s \in DOMAIN services |-> Cap(calm[s] + 1, SevereHold)]
    /\ UNCHANGED <<order, recent>>

Next ==
    \/ \E s \in Services, lag \in 0..Skew :
          ClientComplete(s, lag) \/ \E c \in Callers : OnRequestStart(c, s, lag)
    \/ \E c \in Callers : ServerComplete(c)
    \/ PruneStale
    \/ Tick

Spec == Init /\ [][Next]_vars

-----------------------------------------------------------------------------
(***************************************************************************)
(* Properties.                                                             *)
(***************************************************************************)

\* The types.
TypeOK ==
    /\ DOMAIN services \subseteq Services
    /\ \A s \in DOMAIN services :
          services[s] \in [age : 0..OldAge, inFlight : Nat, peak : Nat, base : Int,
                           held : Int, sev : Severities]
    /\ order \in Seq(Services) /\ recent \in Seq(Services)
    /\ call \in [Callers -> [svc : Services, lag : 0..Skew] \cup {Idle}]
    /\ calm \in [DOMAIN services -> 0..SevereHold]

\* The table holds the services touched last, and never too many: eviction and
\* pruning, in whatever order they come, only take from the old end, and the
\* order of eviction names every entry of the map once.
TableIsLRU ==
    /\ IsSuffix(order, recent) /\ Len(order) <= MaxServices
    /\ Members(order) = DOMAIN services

Open(s) == {c \in Callers : call[c] # Idle /\ call[c].svc = s}

\* No request is left behind in a count: it never exceeds the requests between
\* their two calls, although an entry may be evicted in between and made again
\* and client spans also take the count down.
InFlightNeverOver ==
    \A s \in DOMAIN services : services[s].inFlight <= Cardinality(Open(s))

\* A pile-up is reported only when every evaluation for the configured time found
\* one: what is missing is at most the age of the timestamp it began with.
HeldLongEnough ==
    \A s \in DOMAIN services :
        /\ services[s].sev = "severe" => calm[s] >= SevereHold - Skew
        /\ services[s].sev = "mild"   => calm[s] >= MildHold - Skew
=============================================================================
