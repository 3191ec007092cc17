---------------------------- MODULE ParseWorker ----------------------------
(***************************************************************************)
(* The askbase-worker processes: the RabbitMQ consumer (Consumer.process), *)
(* the task handler (Worker.HandleParse) with its pipeline, the stop       *)
(* watcher, and the terminal handler.  A worker is one consumer goroutine; *)
(* each statement it sends to PostgreSQL is a step of its own.             *)
(*                                                                         *)
(* cancelled[w] is the state of the pipeline's context, which the watcher  *)
(* cancels: from then on every call that takes the context fails with      *)
(* context.Canceled.  What becomes of that error differs from call to      *)
(* call, as in the code.                                                   *)
(***************************************************************************)
EXTENDS DocumentRow, TaskQueue, Faults

CONSTANTS Workers, NoWorker

ASSUME WorkerAssumption == NoWorker \notin Workers

VARIABLES
  pc,                  \* control point of each worker
  job,                 \* the message it handles
  owned,               \* its delivery is unacknowledged on an open channel
  stage,               \* the stage setStatus is moving to
  batch,               \* the embedding batch
  cancelled,           \* the pipeline context is cancelled
  lock                 \* session that holds the document's advisory lock

workers == <<pc, job, owned, stage, batch, cancelled, lock>>

Stages == {"parsing", "chunking", "embedding", "batch", "done"}

\* Points at which HandleParse runs under the watcher's context.
Pipeline == {"reload", "precheck", "resolve", "guard", "set", "fetch", "clear",
             "build", "insert", "embed", "recheck", "vector"}

\* Points of HandleParse at which the worker relies on holding the lock.
Critical == Pipeline \cup {"load", "record", "stopped", "note"}

Points == Critical \cup {"idle", "lock", "ack", "defer", "republish",
                         "final", "fail", "reject"}

NoJob == FirstMessage(1)

WorkerInit ==
  /\ pc = [w \in Workers |-> "idle"]
  /\ job = [w \in Workers |-> NoJob]
  /\ owned = [w \in Workers |-> FALSE]
  /\ stage = [w \in Workers |-> "parsing"]
  /\ batch = [w \in Workers |-> 1]
  /\ cancelled = [w \in Workers |-> FALSE]
  /\ lock = NoWorker

WorkerTypeOK ==
  /\ pc \in [Workers -> Points]
  /\ job \in [Workers -> Message]
  /\ owned \in [Workers -> BOOLEAN]
  /\ stage \in [Workers -> Stages]
  /\ batch \in [Workers -> 1..Batches]
  /\ cancelled \in [Workers -> BOOLEAN]
  /\ lock \in Workers \cup {NoWorker}

Goto(w, point) == pc' = [pc EXCEPT ![w] = point]

\* Move on inside a handler.
Continue(w, point) ==
  /\ Goto(w, point)
  /\ UNCHANGED <<job, owned, stage, batch, cancelled, lock>>

\* Begin setStatus for a stage.
Enter(w, s) ==
  /\ Goto(w, "guard")
  /\ stage' = [stage EXCEPT ![w] = s]
  /\ UNCHANGED <<job, owned, batch, cancelled, lock>>

Released(w) == IF lock = w THEN NoWorker ELSE lock

\* HandleParse returns: the deferred calls end the watcher and give back the
\* lock, whose session may have lost it already.
Return(w, point) ==
  /\ Goto(w, point)
  /\ stage' = [stage EXCEPT ![w] = "parsing"]
  /\ batch' = [batch EXCEPT ![w] = 1]
  /\ cancelled' = [cancelled EXCEPT ![w] = FALSE]
  /\ lock' = Released(w)
  /\ UNCHANGED <<job, owned>>

\* What Consumer.process does with an error that costs an attempt: terminal
\* handling or another try (classify).
AfterError(w) == IF Exhausted(job[w]) THEN "final" ELSE "republish"

ReturnError(w) == Return(w, AfterError(w))
ReturnPermanent(w) == Return(w, "final")
ReturnDone(w) == Return(w, "ack")

store == <<row, chunks>>

-----------------------------------------------------------------------------
(* HandleParse up to the pipeline.                                         *)

Receive(w) ==
  /\ pc[w] = "idle"
  /\ \E m \in Message :
       /\ main[m] > 0
       /\ main' = Take(main, m)
       /\ job' = [job EXCEPT ![w] = m]
  /\ owned' = [owned EXCEPT ![w] = TRUE]
  /\ Goto(w, "lock")
  /\ UNCHANGED <<stage, batch, cancelled, lock, store, recorded, copies, retry, dead, faults>>

\* Variant of LockFree that does not ask the database.
LockIgnored(w) == w \in Workers

\* pg_try_advisory_lock succeeds.
LockFree(w) == lock = NoWorker

\* Variant of TryLock that acknowledges the message of a locked document.
TryLockOrDrop(w) ==
  /\ pc[w] = "lock"
  /\ NoFault
  /\ \/ /\ LockFree(w)
        /\ Goto(w, "load")
        /\ lock' = w
        /\ UNCHANGED <<job, owned, stage, batch, cancelled>>
     \/ ~LockFree(w) /\ Continue(w, "ack")
  /\ UNCHANGED <<store, queues>>

TryLock(w) ==
  /\ pc[w] = "lock"
  /\ \/ /\ LockFree(w)
        /\ NoFault
        /\ Goto(w, "load")
        /\ lock' = w
        /\ UNCHANGED <<job, owned, stage, batch, cancelled>>
     \/ ~LockFree(w) /\ NoFault /\ Continue(w, "defer")
     \/ Fault("db") /\ Continue(w, AfterError(w))
  /\ UNCHANGED <<store, queues>>

\* Variant of Worthwhile that also skips a document with a stop request.
WorthwhileUnlessStopped(w) ==
  Current(job[w].ver) /\ status \notin StopStatuses \cup {"done"}

\* The message is for the current version, and there is something left to do.
Worthwhile(w) == Current(job[w].ver) /\ status # "done"

\* A message that is not worth it is acknowledged; any read error counts as a
\* missing document.
Load(w) ==
  /\ pc[w] = "load"
  /\ \/ ~Live /\ NoFault /\ ReturnPermanent(w)
     \/ Fault("db") /\ ReturnPermanent(w)
     \/ /\ Live /\ NoFault
        /\ IF Worthwhile(w) THEN Continue(w, "record") ELSE ReturnDone(w)
  /\ UNCHANGED <<store, queues>>

Record(w) ==
  /\ pc[w] = "record"
  /\ \/ /\ NoFault
        /\ RecordParseAttempt(job[w].ver, job[w].att)
        /\ IF Current(job[w].ver) THEN Continue(w, "reload") ELSE ReturnDone(w)
     \/ Fault("db") /\ UNCHANGED row /\ ReturnError(w)
  /\ UNCHANGED <<chunks, queues>>

\* The watcher goroutine sees the stop status and cancels the context.
Watch(w) ==
  /\ pc[w] \in Pipeline /\ ~cancelled[w]
  /\ Live /\ status \in StopStatuses
  /\ cancelled' = [cancelled EXCEPT ![w] = TRUE]
  /\ UNCHANGED <<pc, job, owned, stage, batch, lock, store, queues, faults>>

-----------------------------------------------------------------------------
(* runPipeline: reads first.  A failed GetByID is wrapped as permanent     *)
(* with its cause flattened, so a cancelled read is permanent as well.     *)

Reload(w) ==
  /\ pc[w] = "reload"
  /\ \/ (cancelled[w] \/ ~Live) /\ NoFault /\ ReturnPermanent(w)
     \/ Fault("db") /\ ReturnPermanent(w)
     \/ /\ ~cancelled[w] /\ Live /\ NoFault
        /\ IF status = "done" THEN ReturnDone(w) ELSE Continue(w, "precheck")
  /\ UNCHANGED <<store, queues>>

\* checkCancelled, on the way to point next: errCancelled for a cancelled
\* context or a stopped row, a permanent error when the row cannot be read.
CheckCancelled(w, next) ==
  \/ cancelled[w] /\ NoFault /\ Continue(w, "stopped")
  \/ ~cancelled[w] /\ ~Live /\ NoFault /\ ReturnPermanent(w)
  \/ ~cancelled[w] /\ Fault("db") /\ ReturnPermanent(w)
  \/ /\ ~cancelled[w] /\ Live /\ NoFault
     /\ Continue(w, IF status \in StopStatuses THEN "stopped" ELSE next)

Precheck(w) ==
  /\ pc[w] = "precheck"
  /\ CheckCancelled(w, "resolve")
  /\ UNCHANGED <<store, queues>>

\* The dataset, its embedding and vision models and its strategy.  Whatever
\* is missing, unreadable or cancelled makes the error permanent.
Resolve(w) ==
  /\ pc[w] = "resolve"
  /\ \/ ~cancelled[w] /\ NoFault /\ Enter(w, "parsing")
     \/ NoFault /\ ReturnPermanent(w)
     \/ Fault("db") /\ ReturnPermanent(w)
  /\ UNCHANGED <<store, queues>>

-----------------------------------------------------------------------------
(* setStatus: checkCancelled, then the conditional UPDATE.                 *)

Guard(w) ==
  /\ pc[w] = "guard"
  /\ CheckCancelled(w, "set")
  /\ UNCHANGED <<store, queues>>

StageStatus(s) == IF s = "batch" THEN "embedding" ELSE s

\* Where the pipeline goes once stage s is entered.
AfterStage(w, s) ==
  \/ s = "parsing" /\ Continue(w, "fetch")
  \/ s = "chunking" /\ Continue(w, "clear")
  \/ s = "embedding" /\ Continue(w, "embed")
  \/ /\ s = "batch" /\ batch[w] < Batches
     /\ Goto(w, "embed")
     /\ batch' = [batch EXCEPT ![w] = @ + 1]
     /\ UNCHANGED <<job, owned, stage, cancelled, lock>>
  \/ s = "batch" /\ batch[w] = Batches /\ Enter(w, "done")
  \/ s = "done" /\ ReturnDone(w)

Set(w) ==
  /\ pc[w] = "set"
  /\ \/ /\ ~cancelled[w] /\ NoFault
        /\ UpdateStatusVersionUnless(job[w].ver, StageStatus(stage[w]))
        /\ AfterStage(w, stage[w])
     \/ /\ cancelled[w] \/ ~Advanceable(job[w].ver)
        /\ NoFault /\ UNCHANGED row
        /\ Continue(w, "stopped")
     \/ ~cancelled[w] /\ Fault("db") /\ UNCHANGED row /\ Continue(w, "note")
  /\ UNCHANGED <<chunks, queues>>

-----------------------------------------------------------------------------
(* The stages' own work.  CallFails is what a call with the context does   *)
(* when it does not succeed: cancelled, or a transient error.              *)

CallFails(w, kind) ==
  \/ cancelled[w] /\ NoFault /\ Continue(w, "stopped")
  \/ ~cancelled[w] /\ Fault(kind) /\ Continue(w, "note")

\* fetchAndParse: the object may be gone; the content may be unsupported,
\* unreadable or empty, which is permanent.
Fetch(w) ==
  /\ pc[w] = "fetch"
  /\ \/ ~cancelled[w] /\ stored /\ NoFault /\ Enter(w, "chunking")
     \/ ~cancelled[w] /\ ~stored /\ NoFault /\ Continue(w, "note")
     \/ ~cancelled[w] /\ stored /\ NoFault /\ ReturnPermanent(w)
     \/ CallFails(w, "io")
  /\ UNCHANGED <<store, queues>>

\* Old images are deleted as far as that works, old rows always.
Clear(w) ==
  /\ pc[w] = "clear"
  /\ \/ ~cancelled[w] /\ NoFault /\ DeleteByDocument /\ Continue(w, "build")
     \/ CallFails(w, "db") /\ UNCHANGED chunks
  /\ UNCHANGED <<row, queues>>

\* materializeChunks: a missing vision model or an empty result is permanent.
Build(w) ==
  /\ pc[w] = "build"
  /\ \/ ~cancelled[w] /\ NoFault /\ Continue(w, "insert")
     \/ ~cancelled[w] /\ NoFault /\ ReturnPermanent(w)
     \/ CallFails(w, "io")
  /\ UNCHANGED <<store, queues>>

\* BulkInsert may collide with rows that are there.
Insert(w) ==
  /\ pc[w] = "insert"
  /\ \/ ~cancelled[w] /\ NoFault /\ BulkInsert(job[w].ver) /\ Enter(w, "embedding")
     \/ ~cancelled[w] /\ chunks # {} /\ NoFault /\ UNCHANGED chunks /\ Continue(w, "note")
     \/ CallFails(w, "db") /\ UNCHANGED chunks
  /\ UNCHANGED <<row, queues>>

Embed(w) ==
  /\ pc[w] = "embed"
  /\ \/ ~cancelled[w] /\ NoFault /\ Continue(w, "recheck")
     \/ CallFails(w, "io")
  /\ UNCHANGED <<store, queues>>

Recheck(w) ==
  /\ pc[w] = "recheck"
  /\ CheckCancelled(w, "vector")
  /\ UNCHANGED <<store, queues>>

\* Variant of Vector that only logs a failed statement.
VectorOrNot(w) ==
  /\ pc[w] = "vector"
  /\ \/ ~cancelled[w] /\ NoFault /\ UpdateVector(job[w].ver, batch[w]) /\ Enter(w, "batch")
     \/ ~cancelled[w] /\ Fault("db") /\ UNCHANGED chunks /\ Enter(w, "batch")
  /\ UNCHANGED <<row, queues>>

\* UpdateVector for the batch; a row that has disappeared is an error.
Vector(w) ==
  /\ pc[w] = "vector"
  /\ \/ ~cancelled[w] /\ NoFault /\ UpdateVector(job[w].ver, batch[w]) /\ Enter(w, "batch")
     \/ /\ ~cancelled[w] /\ OwnRows(job[w].ver, batch[w]) = {}
        /\ NoFault /\ UNCHANGED chunks /\ Continue(w, "note")
     \/ CallFails(w, "db") /\ UNCHANGED chunks
  /\ UNCHANGED <<row, queues>>

-----------------------------------------------------------------------------
(* HandleParse after the pipeline.                                         *)

\* markCancelled; its own failure is an error like any other.
MarkCancelled(w) ==
  /\ pc[w] = "stopped"
  /\ \/ NoFault /\ UpdateStatusVersion(job[w].ver, "cancelled", "stopped") /\ ReturnDone(w)
     \/ Fault("db") /\ UNCHANGED row /\ ReturnError(w)
  /\ UNCHANGED <<chunks, queues>>

\* The error is recorded, or fails to be, and is returned either way.
NoteError(w) ==
  /\ pc[w] = "note"
  /\ \/ NoFault /\ RecordParseAttempt(job[w].ver, job[w].att)
     \/ Fault("db") /\ UNCHANGED row
  /\ ReturnError(w)
  /\ UNCHANGED <<chunks, queues>>

-----------------------------------------------------------------------------
(* Consumer.process after the handler.                                     *)

\* The worker is free again.
BecomeIdle(w) ==
  /\ Goto(w, "idle")
  /\ job' = [job EXCEPT ![w] = NoJob]
  /\ owned' = [owned EXCEPT ![w] = FALSE]
  /\ UNCHANGED <<stage, batch, cancelled, lock>>

\* Variant of Requeue that loses the delivery.
RequeueLost(w) == w \in Workers /\ main' = main

\* A delivery goes back to the main queue, if it is still this channel's.
Requeue(w) == main' = IF owned[w] THEN Put(main, job[w]) ELSE main

Ack(w) ==
  /\ pc[w] = "ack"
  /\ BecomeIdle(w)
  /\ UNCHANGED <<store, queues, faults>>

\* The message the retry queue gets: no penalty for a busy lock.
RetryMessage(w) == IF pc[w] = "defer" THEN job[w] ELSE NextAttempt(job[w])

\* Variant of Republish that acknowledges whatever PublishRetry reports.
RepublishThenAck(w) ==
  /\ pc[w] \in {"defer", "republish"}
  /\ \/ NoFault /\ retry' = Put(retry, RetryMessage(w))
     \/ Fault("publish") /\ retry' \in {retry, Put(retry, RetryMessage(w))}
  /\ Continue(w, "ack")
  /\ UNCHANGED <<store, recorded, copies, main, dead>>

\* PublishRetry, then the ack.  When it reports an error the broker may have
\* the retry or not, and the delivery is requeued.
Republish(w) ==
  /\ pc[w] \in {"defer", "republish"}
  /\ \/ NoFault /\ retry' = Put(retry, RetryMessage(w)) /\ UNCHANGED main /\ Continue(w, "ack")
     \/ /\ Fault("publish")
        /\ retry' \in {retry, Put(retry, RetryMessage(w))}
        /\ Requeue(w)
        /\ BecomeIdle(w)
  /\ UNCHANGED <<store, recorded, copies, dead>>

\* Variant of RecordFinal that goes on when the attempt was not recorded.
RecordFinalOrNot(w) ==
  /\ pc[w] = "final"
  /\ \/ NoFault /\ RecordParseAttempt(job[w].ver, job[w].att)
     \/ Fault("db") /\ UNCHANGED row
  /\ Continue(w, "fail")
  /\ UNCHANGED <<chunks, queues>>

\* The terminal handler, markFailed, runs after the lock is released.
RecordFinal(w) ==
  /\ pc[w] = "final"
  /\ \/ /\ NoFault /\ RecordParseAttempt(job[w].ver, job[w].att)
        /\ UNCHANGED main /\ Continue(w, "fail")
     \/ Fault("db") /\ UNCHANGED row /\ Requeue(w) /\ BecomeIdle(w)
  /\ UNCHANGED <<chunks, recorded, copies, retry, dead>>

MarkFailed(w) ==
  /\ pc[w] = "fail"
  /\ \/ /\ NoFault /\ UpdateStatusVersion(job[w].ver, "failed", "cause")
        /\ UNCHANGED main /\ Continue(w, "reject")
     \/ Fault("db") /\ UNCHANGED row /\ Requeue(w) /\ BecomeIdle(w)
  /\ UNCHANGED <<chunks, recorded, copies, retry, dead>>

Reject(w) ==
  /\ pc[w] = "reject"
  /\ dead' = IF owned[w] THEN dead \cup {job[w]} ELSE dead
  /\ BecomeIdle(w)
  /\ UNCHANGED <<store, recorded, copies, main, retry, faults>>

-----------------------------------------------------------------------------
(* Environment.                                                            *)

\* The consumer channel closes: the broker requeues the delivery while the
\* handler, whose context is not cancelled, keeps running.
ChannelCloses(w) ==
  /\ owned[w]
  /\ Fault("channel")
  /\ Requeue(w)
  /\ owned' = [owned EXCEPT ![w] = FALSE]
  /\ UNCHANGED <<pc, job, stage, batch, cancelled, lock, store, recorded, copies, retry, dead>>

\* The process dies: PostgreSQL frees the lock, the broker requeues.
Crash(w) ==
  /\ pc[w] # "idle"
  /\ Fault("crash")
  /\ Requeue(w)
  /\ Goto(w, "idle")
  /\ job' = [job EXCEPT ![w] = NoJob]
  /\ owned' = [owned EXCEPT ![w] = FALSE]
  /\ stage' = [stage EXCEPT ![w] = "parsing"]
  /\ batch' = [batch EXCEPT ![w] = 1]
  /\ cancelled' = [cancelled EXCEPT ![w] = FALSE]
  /\ lock' = Released(w)
  /\ UNCHANGED <<store, recorded, copies, retry, dead>>

\* The session that holds the lock ends; its worker does not notice.
LockConnectionDrops(w) ==
  /\ lock = w
  /\ Fault("conn")
  /\ lock' = NoWorker
  /\ UNCHANGED <<pc, job, owned, stage, batch, cancelled, store, queues>>

-----------------------------------------------------------------------------
HandlerStep(w) ==
  \/ TryLock(w) \/ Load(w) \/ Record(w)
  \/ Reload(w) \/ Precheck(w) \/ Resolve(w)
  \/ Guard(w) \/ Set(w)
  \/ Fetch(w) \/ Clear(w) \/ Build(w) \/ Insert(w)
  \/ Embed(w) \/ Recheck(w) \/ Vector(w)
  \/ MarkCancelled(w) \/ NoteError(w)

ConsumerStep(w) ==
  \/ Receive(w)
  \/ Ack(w) \/ Republish(w)
  \/ RecordFinal(w) \/ MarkFailed(w) \/ Reject(w)

WorkerStep(w) == HandlerStep(w) \/ ConsumerStep(w)

WorkerFault(w) == ChannelCloses(w) \/ Crash(w) \/ LockConnectionDrops(w)
=============================================================================
