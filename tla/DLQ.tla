-------------------------------- MODULE DLQ --------------------------------
(***************************************************************************)
(* The dead-letter queue of the traces processor: the bounded in-memory    *)
(* queue of failed forwards, the goroutine that retries them, and the file *)
(* that carries the queue over a restart.                                  *)
(*                                                                         *)
(* Actors: ConsumeTraces calls (Enqueue), the retry goroutine              *)
(* (dlqRetryLoop and drainDLQOnce), the collector's main goroutine (Start  *)
(* and Shutdown), the ticker, and an environment that may kill the process *)
(* or damage the file while the process is down.  One action is the code   *)
(* between two points at which another actor can be scheduled: dlqMu is    *)
(* held inside one action, and the HTTP calls of a drain are outside it.   *)
(*                                                                         *)
(* A batch is its number: batches are numbered in the order in which they  *)
(* enter the queue for the first time, so the number is also enqueueAt.    *)
(***************************************************************************)
EXTENDS Integers, Sequences, FiniteSets

CONSTANTS
    MaxEntries,   \* dlqMaxEntries: capacity of the queue
    MaxAttempts,  \* dlqRetryMaxAttempts: retries before an entry is abandoned
    MaxBatches    \* bound of the model: failed forwards in a behaviour

ASSUME CapacityAssumption == MaxEntries \in Nat \ {0}
ASSUME AttemptsAssumption == MaxAttempts \in Nat \ {0}
ASSUME BatchesAssumption  == MaxBatches \in Nat

VARIABLES
    phase,         \* where the main goroutine is between Start and process exit
    dlq,           \* p.dlq
    retry,         \* where the retry goroutine is
    pending,       \* drainDLQOnce: entries taken from the queue, not yet sent
    stillFailing,  \* drainDLQOnce: entries whose retry failed
    tick,          \* a tick of dlqRetry waits in its channel
    snapshot,      \* Shutdown: the copy of the queue it saves
    tmp,           \* saveDLQ: the records written to the temporary file
    file,          \* the file at PersistPath
    nextBatch      \* number of the next batch that fails to be forwarded

(***************************************************************************)
(* What a reader of the logs, the metrics and the backend could write down *)
(* about a behaviour.  No action reads these.                              *)
(***************************************************************************)
VARIABLES
    entered,       \* batches this process enqueued or restored
    restored,      \* ... of which restored from the file by Start
    flushed,       \* batches this process retried with success
    abandoned,     \* batches this process gave up after MaxAttempts
    evicted,       \* batches this process dropped because the queue was full
    settled,       \* batches flushed, abandoned or evicted by any process
    atRisk,        \* batches whose loss a crash, a failed save or load, or damage explains
    cutOff,        \* batches a drain held while Shutdown copied the queue
    saveFailed,    \* the last Shutdown could not save the queue
    damaged,       \* the file was damaged since it was last written
    droppedTotal   \* the counter incidentary_dlq_dropped_total

main    == <<phase, snapshot, tmp, file>>
loop    == <<retry, pending, stillFailing>>
ledger  == <<entered, restored, flushed, abandoned, evicted, settled>>
excuses == <<atRisk, cutOff, saveFailed, damaged>>
vars    == <<main, loop, dlq, tick, nextBatch, ledger, excuses, droppedTotal>>

Batches == 1..MaxBatches
Entries == [batch : Batches, attempts : 0..(MaxAttempts - 1)]
Phases  == {"down", "starting", "running", "stopping", "saving", "saved", "closed"}

\* No file is at PersistPath.  saveDLQ never writes a file without records.
NoFile == [count |-> 0, recs |-> << >>]

Ids(s)   == {s[i].batch : i \in DOMAIN s}
InFlight == Ids(pending) \cup Ids(stillFailing)
Held     == Ids(dlq) \cup InFlight

-----------------------------------------------------------------------------
(***************************************************************************)
(* Operations on the queue.                                                *)
(***************************************************************************)

\* enqueueDLQ: the oldest entry gives way when the queue is full.
BugRoomOffByOne(q) == IF Len(q) > MaxEntries THEN Tail(q) ELSE q
MakeRoom(q) == IF Len(q) >= MaxEntries THEN Tail(q) ELSE q

\* drainDLQOnce: the loop that drops the oldest entries down to the capacity.
BugKeepOldest(q) == IF Len(q) > MaxEntries THEN SubSeq(q, 1, MaxEntries) ELSE q
Newest(q) ==
    IF Len(q) > MaxEntries THEN SubSeq(q, Len(q) - MaxEntries + 1, Len(q)) ELSE q

\* drainDLQOnce: what still fails goes in front of what failed meanwhile.  With
\* nothing still failing this is the queue itself, which the code leaves alone.
BugAppendBack(failing, q) == q \o failing
BugOverwrite(failing, q)  == IF failing = << >> THEN q ELSE failing
Prepend(failing, q) == failing \o q

\* loadDLQ: the records before the first one that cannot be read.  The file may be
\* whole and the error that of this open or read only.
BugAttemptsReset(f, read) == [i \in 1..read |-> [batch |-> f.recs[i].batch, attempts |-> 0]]
loadDLQ(f, read) == SubSeq(f.recs, 1, read)

\* Start: append what was loaded while the queue is below its capacity.
Restorable(loaded, q) ==
    LET room == MaxEntries - Len(q)
    IN  IF Len(loaded) <= room THEN loaded ELSE SubSeq(loaded, 1, room)

-----------------------------------------------------------------------------
Init ==
    /\ phase = "down" /\ dlq = << >> /\ tick = FALSE /\ nextBatch = 1
    /\ retry = "none" /\ pending = << >> /\ stillFailing = << >>
    /\ snapshot = << >> /\ tmp = << >> /\ file = NoFile
    /\ entered = {} /\ restored = {} /\ flushed = {} /\ abandoned = {}
    /\ evicted = {} /\ settled = {}
    /\ atRisk = {} /\ cutOff = {} /\ saveFailed = FALSE /\ damaged = FALSE
    /\ droppedTotal = 0

(***************************************************************************)
(* Start.  The retry goroutine and its ticker run before the file is read. *)
(***************************************************************************)
StartLoops ==
    /\ phase = "down"
    /\ phase' = "starting"
    /\ retry' = "wait"
    /\ UNCHANGED <<snapshot, tmp, file, pending, stillFailing, dlq, tick, nextBatch,
                   ledger, excuses, droppedTotal>>

BugRemoveAfterLoad(f) == NoFile
FileAfterLoad(f) == f

\* Start goes on with the read records loadDLQ returned, also when it returned an
\* error with them: the others stay in the file until the next Shutdown.
StartRestore(read) ==
    /\ phase = "starting"
    /\ phase' = "running"
    /\ read <= Len(file.recs)
    /\ LET entries == Restorable(loadDLQ(file, read), dlq)
       IN  /\ dlq' = dlq \o entries
           /\ entered' = entered \cup Ids(entries)
           /\ restored' = Ids(entries)
           /\ atRisk' = atRisk \cup (Ids(file.recs) \ Ids(entries))
    /\ file' = FileAfterLoad(file)
    /\ saveFailed' = FALSE
    /\ UNCHANGED <<snapshot, tmp, loop, tick, nextBatch, flushed, abandoned, evicted,
                   settled, cutOff, damaged, droppedTotal>>

(***************************************************************************)
(* enqueueDLQ, called by ConsumeTraces when SendTraces failed.  The        *)
(* collector calls ConsumeTraces after Start returned and not after it     *)
(* called Shutdown.                                                        *)
(***************************************************************************)
Enqueue ==
    /\ phase = "running"
    /\ nextBatch \in Batches
    /\ LET gone == Ids(dlq) \ Ids(MakeRoom(dlq))
       IN  /\ dlq' = Append(MakeRoom(dlq), [batch |-> nextBatch, attempts |-> 0])
           /\ evicted' = evicted \cup gone
           /\ settled' = settled \cup gone
           /\ droppedTotal' = droppedTotal + Cardinality(gone)
    /\ nextBatch' = nextBatch + 1
    /\ entered' = entered \cup {nextBatch}
    /\ UNCHANGED <<main, loop, tick, restored, flushed, abandoned, excuses>>

(***************************************************************************)
(* The ticker: its channel holds one tick, later ones are dropped.         *)
(***************************************************************************)
Tick ==
    /\ phase \in {"starting", "running"}
    /\ ~tick
    /\ tick' = TRUE
    /\ UNCHANGED <<main, loop, dlq, nextBatch, ledger, excuses, droppedTotal>>

(***************************************************************************)
(* The retry goroutine: dlqRetryLoop and drainDLQOnce.                     *)
(***************************************************************************)
RetryWake ==
    /\ retry = "wait"
    /\ tick
    /\ tick' = FALSE
    /\ retry' = "due"
    /\ UNCHANGED <<main, pending, stillFailing, dlq, nextBatch, ledger, excuses, droppedTotal>>

RetryExit ==
    /\ retry = "wait"
    /\ phase = "closed"
    /\ retry' = "exited"
    /\ UNCHANGED <<main, pending, stillFailing, dlq, tick, nextBatch, ledger, excuses,
                   droppedTotal>>

\* drainDLQOnce up to the unlock: the queue becomes this drain's to send.
DrainTake ==
    /\ retry = "due"
    /\ retry' = IF dlq = << >> THEN "wait" ELSE "sending"
    /\ pending' = dlq
    /\ dlq' = << >>
    /\ UNCHANGED <<main, stillFailing, tick, nextBatch, ledger, excuses, droppedTotal>>

BugNotCounted(e) == e
Attempt(e) == [batch |-> e.batch, attempts |-> e.attempts + 1]

BugNeverAbandon(e) == FALSE
Spent(e) == Attempt(e).attempts >= MaxAttempts

\* One iteration of the send loop.  acked: SendTraces returned nil.  A request
\* the backend stored but whose reply was lost is not acked.
DrainSend(acked) ==
    /\ retry = "sending"
    /\ pending # << >>
    /\ pending' = Tail(pending)
    /\ LET e == Head(pending)
           flush   == acked
           abandon == ~acked /\ Spent(e)
       IN  /\ stillFailing' = IF flush \/ abandon THEN stillFailing
                              ELSE Append(stillFailing, Attempt(e))
           /\ flushed' = flushed \cup (IF flush THEN {e.batch} ELSE {})
           /\ abandoned' = abandoned \cup (IF abandon THEN {e.batch} ELSE {})
           /\ settled' = settled \cup (IF flush \/ abandon THEN {e.batch} ELSE {})
           /\ droppedTotal' = droppedTotal + (IF abandon THEN 1 ELSE 0)
    /\ UNCHANGED <<main, retry, dlq, tick, nextBatch, entered, restored, evicted, excuses>>

\* The merge under the lock.  Its evictions are logged and not counted.
DrainMerge ==
    /\ retry = "sending"
    /\ pending = << >>
    /\ retry' = "wait"
    /\ stillFailing' = << >>
    /\ LET merged == Prepend(stillFailing, dlq)
           gone   == Ids(merged) \ Ids(Newest(merged))
       IN  /\ dlq' = Newest(merged)
           /\ evicted' = evicted \cup gone
           /\ settled' = settled \cup gone
    /\ UNCHANGED <<main, pending, tick, nextBatch, entered, restored, flushed, abandoned,
                   excuses, droppedTotal>>

(***************************************************************************)
(* Shutdown.  Stopping the ticker discards a tick that waits in its        *)
(* channel (Go 1.23 and later); a drain that took its tick goes on.        *)
(***************************************************************************)
ShutdownStop ==
    /\ phase = "running"
    /\ phase' = "stopping"
    /\ tick' = FALSE
    /\ UNCHANGED <<snapshot, tmp, file, loop, dlq, nextBatch, ledger, excuses, droppedTotal>>

ShutdownCopy ==
    /\ phase = "stopping"
    /\ phase' = "saving"
    /\ snapshot' = dlq
    /\ cutOff' = cutOff \cup InFlight
    /\ UNCHANGED <<tmp, file, loop, dlq, tick, nextBatch, ledger, atRisk, saveFailed,
                   damaged, droppedTotal>>

\* saveDLQ with nothing to save: the error of os.Remove is ignored.
SaveNothing(removed) ==
    /\ phase = "saving"
    /\ snapshot = << >>
    /\ phase' = "saved"
    /\ file' = IF removed THEN NoFile ELSE file
    /\ damaged' = (damaged /\ ~removed)
    /\ UNCHANGED <<snapshot, tmp, loop, dlq, tick, nextBatch, ledger, atRisk, cutOff,
                   saveFailed, droppedTotal>>

\* saveDLQ writes the records to a temporary file, one at a time ...
BugWriteInPlace(recs) == [count |-> Len(snapshot), recs |-> recs]
FileWhileSaving(recs) == file

SaveRecord ==
    /\ phase = "saving"
    /\ Len(tmp) < Len(snapshot)
    /\ tmp' = Append(tmp, snapshot[Len(tmp) + 1])
    /\ file' = FileWhileSaving(tmp')
    /\ UNCHANGED <<phase, snapshot, loop, dlq, tick, nextBatch, ledger, excuses, droppedTotal>>

\* ... and renames it onto the path when all are there,
SaveRename ==
    /\ phase = "saving"
    /\ snapshot # << >>
    /\ Len(tmp) = Len(snapshot)
    /\ phase' = "saved"
    /\ file' = [count |-> Len(snapshot), recs |-> tmp]
    /\ tmp' = << >>
    /\ damaged' = FALSE
    /\ UNCHANGED <<snapshot, loop, dlq, tick, nextBatch, ledger, atRisk, cutOff, saveFailed,
                   droppedTotal>>

\* ... or removes it at the first error, which Shutdown logs.
SaveFail ==
    /\ phase = "saving"
    /\ snapshot # << >>
    /\ phase' = "saved"
    /\ tmp' = << >>
    /\ atRisk' = atRisk \cup (Held \ restored)
    /\ saveFailed' = TRUE
    /\ UNCHANGED <<snapshot, file, loop, dlq, tick, nextBatch, ledger, cutOff, damaged,
                   droppedTotal>>

\* close(stopCh).  Shutdown does not wait for the retry goroutine.
BugWaitForLoop == phase = "saved" /\ retry = "exited"
MayClose == phase = "saved"

ShutdownClose ==
    /\ MayClose
    /\ phase' = "closed"
    /\ UNCHANGED <<snapshot, tmp, file, loop, dlq, tick, nextBatch, ledger, excuses,
                   droppedTotal>>

-----------------------------------------------------------------------------
(***************************************************************************)
(* The process and the disk.                                               *)
(***************************************************************************)
ProcessGone ==
    /\ phase' = "down"
    /\ dlq' = << >> /\ tick' = FALSE
    /\ retry' = "none" /\ pending' = << >> /\ stillFailing' = << >>
    /\ snapshot' = << >> /\ tmp' = << >>
    /\ entered' = {} /\ restored' = {} /\ flushed' = {} /\ abandoned' = {} /\ evicted' = {}
    /\ droppedTotal' = 0
    /\ UNCHANGED <<file, nextBatch, settled>>

Exit ==
    /\ phase = "closed"
    /\ ProcessGone
    /\ UNCHANGED excuses

\* A crash costs what this process accepted; what it restored is still on disk.
Crash ==
    /\ phase # "down"
    /\ ProcessGone
    /\ atRisk' = atRisk \cup (Held \ restored)
    /\ UNCHANGED <<cutOff, saveFailed, damaged>>

\* A disk fault while the process is down: the tail of the file, or all of it,
\* can no longer be parsed.
Damage(readable) ==
    /\ phase = "down"
    /\ readable < Len(file.recs)
    /\ file' = [count |-> file.count, recs |-> SubSeq(file.recs, 1, readable)]
    /\ damaged' = TRUE
    /\ atRisk' = atRisk \cup (Ids(file.recs) \ Ids(file'.recs))
    /\ UNCHANGED <<phase, snapshot, tmp, loop, dlq, tick, nextBatch, ledger, cutOff,
                   saveFailed, droppedTotal>>

-----------------------------------------------------------------------------
RetryLoop == RetryWake \/ RetryExit \/ DrainTake \/ (\E acked \in BOOLEAN : DrainSend(acked))
                \/ DrainMerge
Saving    == (\E removed \in BOOLEAN : SaveNothing(removed)) \/ SaveRecord \/ SaveRename
                \/ SaveFail
Shutdown  == ShutdownStop \/ ShutdownCopy \/ Saving \/ ShutdownClose

Next ==
    \/ StartLoops
    \/ \E read \in 0..MaxEntries : StartRestore(read)
    \/ Enqueue
    \/ Tick
    \/ RetryLoop
    \/ Shutdown
    \/ Exit \/ Crash
    \/ \E readable \in 0..(MaxEntries - 1) : Damage(readable)

Spec == Init /\ [][Next]_vars

(***************************************************************************)
(* The ticker fires, the Go scheduler runs the retry goroutine, SendTraces *)
(* returns because its context has a deadline, and a Shutdown that has     *)
(* begun runs on.  Nothing makes the collector start, stop or fail.        *)
(***************************************************************************)
Fairness == WF_vars(Tick) /\ WF_vars(RetryLoop) /\ WF_vars(ShutdownCopy)
               /\ WF_vars(Saving) /\ WF_vars(ShutdownClose)
FairSpec == Spec /\ Fairness

-----------------------------------------------------------------------------
(***************************************************************************)
(* Properties.                                                             *)
(***************************************************************************)

\* The types.  An entry that waits for a retry has attempts left, also after
\* it went through the file: drainDLQOnce abandons it before it runs out.
TypeOK ==
    /\ /\ phase \in Phases
       /\ retry \in {"none", "wait", "due", "sending", "exited"}
       /\ tick \in BOOLEAN /\ saveFailed \in BOOLEAN /\ damaged \in BOOLEAN
    /\ /\ dlq \in Seq(Entries) /\ pending \in Seq(Entries) /\ stillFailing \in Seq(Entries)
       /\ snapshot \in Seq(Entries) /\ tmp \in Seq(Entries)
    /\ file \in [count : Nat, recs : Seq(Entries)]
    /\ nextBatch \in 1..(MaxBatches + 1) /\ droppedTotal \in Nat
    /\ /\ entered \subseteq Batches /\ restored \subseteq Batches /\ flushed \subseteq Batches
       /\ abandoned \subseteq Batches /\ evicted \subseteq Batches /\ settled \subseteq Batches
       /\ atRisk \subseteq Batches /\ cutOff \subseteq Batches

\* The queue never holds more than dlqMaxEntries, neither does the file, and
\* a drain in progress holds at most as many again: the memory of a sustained
\* outage is bounded by twice the capacity, whatever enqueueDLQ, the drain and
\* the restore in Start do to the queue in between.
Bounded ==
    /\ Len(dlq) <= MaxEntries
    /\ Len(stillFailing) + Len(pending) <= MaxEntries
    /\ Len(snapshot) <= MaxEntries
    /\ Len(file.recs) <= MaxEntries

Ordered(s) == \A i, j \in DOMAIN s : i < j => s[i].batch < s[j].batch

\* Entries stay in the order in which they were enqueued, across the drain's
\* unlocked sends, the merge of what still fails with what failed meanwhile,
\* and the file: what still fails is older than what waits to be sent, and
\* that is older than what was enqueued during the drain.  In particular no
\* batch is in two places, so no drain sends a batch twice.
Fifo ==
    /\ Ordered(stillFailing \o pending)
    /\ Ordered(dlq)
    /\ \A b \in InFlight, c \in Ids(dlq) : b < c
    /\ Ordered(snapshot)
    /\ Ordered(file.recs)

\* Every batch this process enqueued or restored is in exactly one place:
\* in the queue, in a drain's hands, flushed, abandoned or evicted.  A batch
\* enqueued while drainDLQOnce sends without the lock is not overwritten by
\* the merge, and a batch the backend acknowledged is not queued again.
Accounted ==
    /\ entered = Held \cup flushed \cup abandoned \cup evicted
    /\ Held \cap (flushed \cup abandoned \cup evicted) = {}
    /\ flushed \cap (abandoned \cup evicted) = {}
    /\ abandoned \cap evicted = {}

\* A step that evicts leaves the queue full, and evicts nothing that is
\* younger than an entry it keeps in the queue.
EvictsOldest ==
    [][\A b \in evicted' \ evicted :
          Len(dlq') = MaxEntries /\ \A c \in Ids(dlq') : b < c]_vars

\* saveDLQ replaces the file atomically: at every moment, also after a crash
\* in the middle of a save, the file has all the records its header announces
\* (unless the disk itself damaged it).
WholeFile == ~damaged => file.count = Len(file.recs)

\* Where the batches that are not settled must be: on disk while no process
\* holds them, and in the queue or a drain otherwise.
Safe == IF phase \in {"down", "starting"} THEN Ids(file.recs) ELSE Held

\* No batch disappears over any sequence of restarts, except for a reason the
\* code accepts: the process crashed or the save failed before the batch was
\* ever in the file, the disk damaged the file, Start could not read it (and
\* the next Shutdown may replace it), or a drain held the batch while Shutdown
\* copied the queue.
NoUnexplainedLoss ==
    1..(nextBatch - 1) \subseteq settled \cup atRisk \cup cutOff \cup Safe

\* config.go: "saves the queue contents to disk on Shutdown and reloads on
\* Start, so an operator restart during a backend outage no longer loses the
\* queued retries".  The same without the excuse of a drain in progress.
RestartKeepsQueue ==
    1..(nextBatch - 1) \subseteq settled \cup atRisk \cup Safe

\* processor.go, Shutdown: "a failed save only loses the queue".  The Start
\* that follows a failed save brings no settled batch back.
FailedSaveOnlyLosesQueue ==
    [][phase = "starting" /\ phase' = "running" /\ saveFailed
          => Ids(dlq') \cap settled = {}]_vars

\* The store this queue implements: what it holds is in the queue or in the hands
\* of a drain, in whatever order; a process is up once Start has read the file.
Elements(s)  == {s[i] : i \in DOMAIN s}
StoreUp      == phase \notin {"down", "starting"}
StoreHeld    == Elements(dlq) \cup Elements(pending) \cup Elements(stillFailing)

Store == INSTANCE RetryStore WITH
    Capacity  <- MaxEntries,
    up        <- StoreUp,
    held      <- StoreHeld,
    next      <- nextBatch,
    delivered <- flushed,
    displaced <- evicted,
    copy      <- Elements(snapshot),
    saved     <- Elements(file.recs)

\* The queue, the unlocked drain, the merge, the copy in Shutdown, the temporary
\* file and the restore together behave like that store: each of their steps is
\* one of its steps or changes nothing it can tell.
ImplementsStore == Store!Spec

\* Every queued batch is eventually flushed, abandoned or evicted, whatever
\* the backend answers, unless the process stops: an entry cannot circulate
\* between the queue and the drain for ever.
QueueSettles ==
    \A b \in Batches : (phase = "running" /\ b \in Held) ~> (phase # "running" \/ b \notin Held)

\* Once the collector has called Shutdown, Shutdown returns: neither a drain
\* in progress nor a failing save holds it up.
ShutdownCompletes == phase = "stopping" ~> phase \in {"closed", "down"}
=============================================================================
