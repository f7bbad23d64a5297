------------------------------ MODULE Delivery ------------------------------
(***************************************************************************)
(* What ConsumeTraces and pruneLoop promise about a span, without the      *)
(* walk, the Ring, the breaker or the triggers: it is buffered with its    *)
(* trace, and its trace leaves the buffer as a whole, either dropped or    *)
(* taken by one call, which forwards it or queues it for retry.  Module    *)
(* Bridge implements it.                                                   *)
(***************************************************************************)
CONSTANTS
    Spans, TraceIDs, TraceOf,
    Consumers    \* the calls that can take a trace

VARIABLE
    place        \* where a span is: one of Rests, or the call that has taken it

Rests == {"new", "buffered", "sent", "queued", "dropped"}

At(p)  == {s \in Spans : place[s] = p}
Of(ts) == {s \in Spans : TraceOf[s] \in ts}

Moved(some, p) == [s \in Spans |-> IF s \in some THEN p ELSE place[s]]

Init == place = [s \in Spans |-> "new"]

\* New spans of one trace are buffered, for which traces may be dropped, the new
\* spans with theirs.
Buffer ==
    \E t \in TraceIDs, dropped \in SUBSET TraceIDs :
    \E new \in (SUBSET (At("new") \cap Of({t}))) \ {{}} :
        place' = [s \in Spans |->
                    IF s \in At("buffered") \cup new
                    THEN IF s \in Of(dropped) THEN "dropped" ELSE "buffered"
                    ELSE place[s]]

Drop ==
    \E dropped \in SUBSET TraceIDs : place' = Moved(At("buffered") \cap Of(dropped), "dropped")

\* A call with empty hands takes a trace that is buffered ...
Take(c) ==
    /\ At(c) = {}
    /\ \E t \in TraceIDs :
          At("buffered") \cap Of({t}) # {} /\ place' = Moved(At("buffered") \cap Of({t}), c)

\* ... and gets rid of all of it in one way.
Settle(c) ==
    /\ At(c) # {}
    /\ \E end \in {"sent", "queued"} : place' = Moved(At(c), end)

Next == Buffer \/ Drop \/ \E c \in Consumers : Take(c) \/ Settle(c)

Spec == Init /\ [][Next]_place
=============================================================================
