--------------------------- MODULE IngestPipeline ---------------------------
(***************************************************************************)
(* The ingestion pipeline as a whole: users calling the document service,  *)
(* the outbox channel and the RabbitMQ queues, and the worker processes,   *)
(* around the rows of one document.                                        *)
(***************************************************************************)
EXTENDS ParseWorker, DocumentService

world == <<row, chunks, stored, queues, faults>>
vars == <<world, workers, service>>

Init ==
  /\ RowInit
  /\ QueueInit
  /\ FaultInit
  /\ WorkerInit
  /\ ServiceInit

Users == ServiceStep /\ UNCHANGED workers

Work(w) == WorkerStep(w) /\ UNCHANGED <<stored, service>>

Disturb(w) == (Watch(w) \/ WorkerFault(w)) /\ UNCHANGED <<stored, service>>

Elsewhere == <<row, chunks, stored, faults, workers, service>>

Relay(v) == RelayDelivers(v) /\ UNCHANGED Elsewhere

FirstRelay(v) == copies[v] = 0 /\ Relay(v)

Expire(m) == RetryExpires(m) /\ UNCHANGED Elsewhere

Next ==
  \/ Users
  \/ \E w \in Workers : Work(w) \/ Disturb(w)
  \/ \E v \in Versions : Relay(v)
  \/ \E m \in Message : Expire(m)

\* Workers are restarted and never idle on a message they can take, the relay
\* delivers every event once, and TTLs elapse.  Users, duplicates, faults and
\* even the watcher (a stage may end before its next poll) are not obliged.
Fairness ==
  /\ \A w \in Workers : WF_vars(Work(w))
  /\ \A v \in Versions : WF_vars(FirstRelay(v))
  /\ \A m \in Message : WF_vars(Expire(m))

SafeSpec == Init /\ [][Next]_vars
Spec == SafeSpec /\ Fairness

-----------------------------------------------------------------------------
(* Properties.                                                             *)

\* Every part has its type.
TypeOK ==
  /\ RowTypeOK
  /\ QueueTypeOK
  /\ WorkerTypeOK
  /\ ServiceTypeOK
  /\ faults \in 0..MaxFaults

\* Only one worker at a time runs a document's pipeline, whatever duplicates,
\* requeues and retries hand the same document to several of them
\* (postgresDocumentLocker; unless its connection is lost).
SoleWorker ==
  \A u, w \in Workers :
    pc[u] \in Critical /\ pc[w] \in Critical => u = w

\* A document that is done has exactly the chunks of its current parse
\* version, all of them with their vectors: no remains of an earlier or
\* interrupted run, and none missing (runPipeline's clear and rebuild).
DoneComplete ==
  Live /\ status = "done" /\ deleting = "none" => chunks = ChunksOf(version, TRUE)

\* Something still drives the current version: its event waits for the relay,
\* a message for it is queued, or a worker has it in hand.
TaskPending ==
  \/ version \in recorded /\ copies[version] = 0
  \/ \E m \in Message : m.ver = version /\ main[m] + retry[m] > 0
  \/ \E w \in Workers : pc[w] \notin {"idle", "ack", "reject"} /\ job[w].ver = version

\* A document that looks busy is being worked on or will be: no crash, lost
\* channel or failed publish between the retry message and the ack may drop
\* the task of a document that is still pending or in progress.
BusyHasTask == Live /\ Busy(status) => TaskPending

\* A message in the DLQ was the end of its version as far as it knew: the
\* attempt it died in is on the row, unless the row has moved on or is gone
\* (Consumer.process runs the terminal handler before it rejects).
DeadIsAccounted ==
  \A m \in dead : Live /\ m.ver = version => attempts >= m.att

\* A version never takes back what it has recorded: the attempt counter only
\* grows while the version stays, in whatever order attempts arrive.
AttemptsMonotone ==
  [][version' = version => attempts' >= attempts]_vars

\* Only the API and a worker that holds a message of the current version
\* change the status: messages of older versions are inert.
StaleMessageInert ==
  [][\A w \in Workers :
       Work(w) /\ status' # status => job[w].ver = version]_vars

\* A requested stop is never overwritten by the progress of a stage: within a
\* version a stopping document ends cancelled or failed, never done or busy.
StopWins ==
  [][version' = version /\ status \in StopStatuses
       => status' \in StopStatuses \cup {"failed"}]_vars

\* A document that looks busy settles: it is done, failed, stopped or deleted
\* after finitely many attempts.
BusySettles == Live /\ Busy(status) ~> ~Live \/ ~Busy(status)

\* A stop request that finds a task at work is carried out.
StopSettles ==
  status = "cancelling" /\ TaskPending ~> ~Live \/ status # "cancelling"

-----------------------------------------------------------------------------
(* What comments and the README say and the code does not do.              *)

\* Every requested stop ends: "cancelling" is left by the worker at the end of
\* a stage (DocumentService.Stop).  A stop written after the task has ended
\* finds no worker.
CancellingEnds == status = "cancelling" ~> ~Live \/ status # "cancelling"

\* Redelivery is idempotent (worker.go): what a duplicate of the same version
\* does leaves a finished document finished.
DoneIsFinal ==
  [][status = "done" /\ version' = version => status' = "done"]_vars

-----------------------------------------------------------------------------
(* The inductive invariant behind the safety properties.  LockHeld, and    *)
(* what rests on it, presupposes that lock connections do not drop.        *)

\* TriggerParse has seen a version that can still grow.
Triggerable == triggered => version < MaxVersion

\* A message on its way to the retry queue has attempts left.
RetriesLeft == \A w \in Workers : pc[w] = "republish" => ~Exhausted(job[w])

LockHeld == \A w \in Workers : pc[w] \in Critical => lock = w

\* Where the pipeline is tells which stage and which batch it is at.
StagesInOrder ==
  \A w \in Workers :
    /\ pc[w] \notin {"guard", "set", "clear", "build", "insert", "embed", "recheck",
                   "vector", "stopped", "note"} => stage[w] = "parsing"
    /\ pc[w] \in {"clear", "build", "insert"} => stage[w] = "chunking"
    /\ pc[w] \in {"embed", "recheck", "vector"} => stage[w] \in {"embedding", "batch"}
    /\ stage[w] \notin {"batch", "done"} => batch[w] = 1

\* A pipeline that is past HandleParse's own check runs on an unfinished row.
RunningIsUnfinished ==
  \A w \in Workers : pc[w] \in Critical \ {"load"} => status # "done"

\* No Delete has begun.
Untouched == docState # "gone" /\ deleting = "none"

\* The chunks of run v with the vectors of the first n batches.
Vectored(v, n) ==
  [run : {v}, n : 1..n, vec : {TRUE}] \cup [run : {v}, n : (n + 1)..Batches, vec : {FALSE}]

InStage(w, s) == pc[w] \in {"guard", "set"} /\ stage[w] = s

\* What worker w's run has made of the chunks by the time it gets to each point.
InPlace(w) ==
  LET v == job[w].ver IN
  /\ pc[w] \in {"build", "insert"} => chunks = {}
  /\ InStage(w, "embedding") => chunks = Vectored(v, 0)
  /\ pc[w] \in {"embed", "recheck", "vector"} => chunks = Vectored(v, batch[w] - 1)
  /\ InStage(w, "batch") => chunks = Vectored(v, batch[w])
  /\ InStage(w, "done") => chunks = Vectored(v, Batches)

ChunksInPlace == \A w \in Workers : InPlace(w)

DoneInPlace == status = "done" => chunks = Vectored(version, Batches)

PipelineInvariant ==
  /\ TypeOK
  /\ Triggerable
  /\ RetriesLeft
  /\ LockHeld
  /\ StagesInOrder
  /\ RunningIsUnfinished
  /\ Untouched => ChunksInPlace /\ DoneInPlace
=============================================================================
