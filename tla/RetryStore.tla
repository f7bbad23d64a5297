----------------------------- MODULE RetryStore -----------------------------
(***************************************************************************)
(* What the dead-letter queue promises, without its queue, its retry loop, *)
(* its locks or its file format: a store of failed batches that are tried  *)
(* again a limited number of times, that forgets the oldest ones when      *)
(* enough younger ones fill it, and that puts a copy aside for the next    *)
(* process.  Module DLQ implements it.                                     *)
(***************************************************************************)
EXTENDS Integers

CONSTANTS
    Capacity,     \* younger batches that can displace one
    MaxAttempts   \* failed retries that end a batch

VARIABLES
    up,           \* a process runs and has taken over the saved batches
    held,         \* the batches to retry: their number and attempts so far
    next,         \* number of the next batch
    delivered,    \* batches this process delivered,
    abandoned,    \* ... gave up
    displaced,    \* ... and displaced by younger ones
    copy,         \* batches a stopping process means to save
    saved         \* batches on disk

vars == <<up, held, next, delivered, abandoned, displaced, copy, saved>>

Numbers(some) == {e.batch : e \in some}

\* The batches that some may lose: for each, a capacity of younger ones stays.
MayDisplace(some, gone) ==
    \A e \in gone : \E young \in [1..Capacity -> Numbers(some) \ Numbers(gone)] :
        \A i \in 1..Capacity :
            e.batch < young[i] /\ \A j \in 1..Capacity : i # j => young[i] # young[j]

Init ==
    /\ up = FALSE /\ held = {} /\ next = 1
    /\ delivered = {} /\ abandoned = {} /\ displaced = {}
    /\ copy = {} /\ saved = {}

Displace(some) ==
    \E gone \in SUBSET some :
        /\ MayDisplace(some, gone)
        /\ held' = some \ gone
        /\ displaced' = displaced \cup Numbers(gone)

\* A new batch comes in, with the highest number.
Accept ==
    /\ up
    /\ Displace(held \cup {[batch |-> next, attempts |-> 0]})
    /\ next' = next + 1
    /\ UNCHANGED <<up, delivered, abandoned, copy, saved>>

\* Room is made at another time.
MakeRoom ==
    /\ Displace(held)
    /\ UNCHANGED <<up, next, delivered, abandoned, copy, saved>>

\* A retry of a batch: it is delivered, stays with one attempt more, or has failed
\* for the last time.
Deliver(e) ==
    /\ held' = held \ {e}
    /\ delivered' = delivered \cup {e.batch}
    /\ UNCHANGED abandoned

Fail(e) ==
    /\ e.attempts + 1 < MaxAttempts
    /\ held' = (held \ {e}) \cup {[batch |-> e.batch, attempts |-> e.attempts + 1]}
    /\ UNCHANGED <<delivered, abandoned>>

Abandon(e) ==
    /\ e.attempts + 1 = MaxAttempts
    /\ held' = held \ {e}
    /\ abandoned' = abandoned \cup {e.batch}
    /\ UNCHANGED delivered

Retry ==
    /\ \E e \in held : Deliver(e) \/ Fail(e) \/ Abandon(e)
    /\ UNCHANGED <<up, next, displaced, copy, saved>>

\* A stopping process copies batches it holds, and later saves the copy.
Copy ==
    /\ up
    /\ copy' \in SUBSET held
    /\ UNCHANGED <<up, held, next, delivered, abandoned, displaced, saved>>

Save ==
    /\ up
    /\ saved' = copy
    /\ UNCHANGED <<up, held, next, delivered, abandoned, displaced, copy>>

\* The process ends, at any time; its successor begins with what it can read of
\* what is saved.
Stop ==
    /\ up' = FALSE /\ held' = {} /\ copy' = {}
    /\ delivered' = {} /\ abandoned' = {} /\ displaced' = {}
    /\ UNCHANGED <<next, saved>>

Restore ==
    /\ ~up
    /\ up' = TRUE
    /\ held' \in SUBSET saved
    /\ UNCHANGED <<next, delivered, abandoned, displaced, copy, saved>>

\* The disk loses saved batches.
Damage ==
    /\ ~up
    /\ saved' \in SUBSET saved
    /\ UNCHANGED <<up, held, next, delivered, abandoned, displaced, copy>>

Next == Accept \/ MakeRoom \/ Retry \/ Copy \/ Save \/ Stop \/ Restore \/ Damage

Spec == Init /\ [][Next]_vars
=============================================================================
