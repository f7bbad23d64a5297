----------------------------- MODULE RetryTable -----------------------------
(***************************************************************************)
(* isRetry, four_triggers.go: the open-addressing table of a service that  *)
(* remembers when an outbound request with a given key was last seen.  It  *)
(* is called by OnRequestComplete under the evaluator's mutex, so a call   *)
(* is one action.  Slots are never emptied.                                *)
(*                                                                         *)
(* A key is its hash.  Time is in ticks, PerSec of them to a second: the   *)
(* table keeps whole seconds and compares with the full time.  The time of *)
(* a span is read before the mutex is taken, so a call may come with a     *)
(* time up to Skew ticks behind the newest.  The explicit retry hint is    *)
(* left out: the processor does not set it.                                *)
(***************************************************************************)
EXTENDS Integers, FiniteSetsExt

CONSTANTS
    Keys,      \* OutboundRetryKeyHash of spans that have one
    Size,      \* retryTableSize
    Probes,    \* retryProbeLimit
    PerSec,    \* ticks in a second
    Window,    \* retryWindowMs in ticks
    Skew,      \* ticks a span may be behind the newest one
    MaxTime    \* bound of the model: ticks in a behaviour

ASSUME KeysAssumption  == Keys \subseteq Nat \ {0} /\ IsFiniteSet(Keys)
ASSUME TableAssumption == Size \in Nat \ {0} /\ Probes \in 1..Size
ASSUME TimeAssumption  ==
    PerSec \in Nat \ {0} /\ Window \in Nat /\ Skew \in Nat /\ MaxTime \in Nat

VARIABLES
    hash,      \* retryTableHash
    lastSec    \* retryTableLastSec

\* What an observer of the calls could write down.
VARIABLES
    last,      \* time of the last call with a key, or Never
    newest,    \* the highest time of any call
    lost,      \* keys whose slot was given to another key since their last call
    answer     \* the last call: its key, its time, the call before with that key,
               \* whether the key was lost in between, and what isRetry returned

vars == <<hash, lastSec, last, newest, lost, answer>>

Slots == 0..(Size - 1)
Times == 0..MaxTime
Never == -1
NoKey == 0

-----------------------------------------------------------------------------
\* The slot at an offset of the probe sequence of key k.
At(k, offset) == ((k % Size) + offset) % Size
Run(k) == {At(k, o) : o \in 0..(Probes - 1)}

\* The slot isRetry settles on: the first of the probe sequence that is empty or
\* holds the key, and the home slot when there is none.
Fitting(k) == {o \in 0..(Probes - 1) : hash[At(k, o)] \in {NoKey, k}}
BugPastTheRun(k) == At(k, IF Fitting(k) = {} THEN Probes ELSE Min(Fitting(k)))
BugHomeOnly(k)   == At(k, 0)
Slot(k) == At(k, IF Fitting(k) = {} THEN 0 ELSE Min(Fitting(k)))

BugNoWindow(i, t) == TRUE
Recent(i, t) == t - lastSec[i] * PerSec <= Window

\* The second kept in a slot that is found, taken or overwritten.
BugNotRefreshed(i, k, t) == IF hash[i] = k THEN lastSec[i] ELSE t \div PerSec
Stamp(i, k, t) == t \div PerSec

Init ==
    /\ hash = [i \in Slots |-> NoKey]
    /\ lastSec = [i \in Slots |-> 0]
    /\ last = [k \in Keys |-> Never]
    /\ newest = 0
    /\ lost = {}
    /\ answer = [key |-> NoKey, at |-> 0, before |-> Never, lost |-> FALSE, retry |-> FALSE]

isRetry(k, t) ==
    LET i == Slot(k)
    IN  /\ t >= newest - Skew
        /\ hash' = [hash EXCEPT ![i] = k]
        /\ lastSec' = [lastSec EXCEPT ![i] = Stamp(i, k, t)]
        /\ answer' = [key |-> k, at |-> t, before |-> last[k], lost |-> k \in lost,
                      retry |-> hash[i] = k /\ Recent(i, t)]
        /\ last' = [last EXCEPT ![k] = t]
        /\ newest' = IF t > newest THEN t ELSE newest
        /\ lost' = (lost \cup ({hash[i]} \ {NoKey})) \ {k}

BugZeroIsAKey(t) ==
    LET i == Slot(NoKey)
    IN  /\ lastSec' = [lastSec EXCEPT ![i] = Stamp(i, NoKey, t)]
        /\ UNCHANGED <<hash, last, newest, lost, answer>>

\* A span without the attributes of a key: never a retry, and not remembered.
Keyless(t) ==
    /\ t >= newest - Skew
    /\ answer' = [key |-> NoKey, at |-> t, before |-> Never, lost |-> FALSE, retry |-> FALSE]
    /\ newest' = IF t > newest THEN t ELSE newest
    /\ UNCHANGED <<hash, lastSec, last, lost>>

Next == \E t \in Times : Keyless(t) \/ \E k \in Keys : isRetry(k, t)

Spec == Init /\ [][Next]_vars

-----------------------------------------------------------------------------
(***************************************************************************)
(* Properties.                                                             *)
(***************************************************************************)

\* The types; an empty slot was never stamped.
TypeOK ==
    /\ hash \in [Slots -> Keys \cup {NoKey}]
    /\ lastSec \in [Slots -> Nat]
    /\ \A i \in Slots : hash[i] = NoKey => lastSec[i] = 0
    /\ last \in [Keys -> Times \cup {Never}] /\ newest \in Times /\ lost \subseteq Keys

\* A key is in the table at most once, and isRetry finds it there: its slot is
\* in its probe sequence and no slot before it is empty.  This is so over any
\* sequence of calls, although the slots of one key are overwritten by others.
ProbeFinds ==
    \A i \in Slots : hash[i] # NoKey =>
        /\ i \in Run(hash[i]) /\ Slot(hash[i]) = i
        /\ \A j \in Slots : hash[j] = hash[i] => j = i

\* A request is called a retry only if the same key came before, not more than
\* the window earlier: neither a slot taken over from another key nor a time
\* out of order makes one up.
NoFalseRetry ==
    answer.retry => answer.before # Never /\ answer.at - answer.before <= Window

\* A request that repeats a key within the window is called a retry, unless the
\* key was overwritten in between.  The table keeps whole seconds, so the last
\* second of the window may be missed, and no more than that.
NoMissedRetry ==
    answer.before # Never /\ answer.at - answer.before <= Window - (PerSec - 1) /\ ~answer.lost
        => answer.retry

\* As long as no more keys were seen than a probe sequence has slots, no key is
\* forgotten: collisions alone never cost a key.
KeepsUntilCrowded ==
    Cardinality({k \in Keys : last[k] # Never}) <= Probes => lost = {}
=============================================================================
