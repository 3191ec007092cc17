----------------------- MODULE IngestPipeline_proofs -----------------------
(***************************************************************************)
(* Safety of the ingestion pipeline for any number of workers, versions,   *)
(* attempts, batches, duplicates and faults.                               *)
(***************************************************************************)
EXTENDS IngestPipeline, TLAPS

USE TaskAssumption, BatchAssumption, CopiesAssumption, FaultAssumption,
    OperationsAssumption, WorkerAssumption

-----------------------------------------------------------------------------
(* How the moves of a worker treat its own variables.                      *)

\* Moving on inside a handler keeps the types.
LEMMA ContinueTypes ==
  ASSUME WorkerTypeOK, NEW w \in Workers, NEW point \in Points, Continue(w, point)
  PROVE  WorkerTypeOK'
BY DEF WorkerTypeOK, Continue, Goto

\* So does beginning a stage,
LEMMA EnterTypes ==
  ASSUME WorkerTypeOK, NEW w \in Workers, NEW s \in Stages, Enter(w, s)
  PROVE  WorkerTypeOK'
BY DEF WorkerTypeOK, Enter, Goto, Points, Critical, Pipeline

\* and a return from HandleParse,
LEMMA ReturnTypes ==
  ASSUME WorkerTypeOK, NEW w \in Workers, NEW point \in Points, Return(w, point)
  PROVE  WorkerTypeOK'
BY DEF WorkerTypeOK, Return, Released, Goto, Stages

\* and becoming idle.
LEMMA IdleTypes ==
  ASSUME WorkerTypeOK, NEW w \in Workers, BecomeIdle(w)
  PROVE  WorkerTypeOK'
BY DEF WorkerTypeOK, BecomeIdle, NoJob, FirstMessage, Message, Versions, Goto, Points

\* After an error there is an attempt left, or the terminal handler runs.
LEMMA AfterErrorPoint ==
  ASSUME NEW w
  PROVE  /\ AfterError(w) \in {"final", "republish"}
         /\ AfterError(w) = "republish" => ~Exhausted(job[w])
BY DEF AfterError

\* The next attempt of a message that is not exhausted is a message.
LEMMA NextAttemptType ==
  ASSUME NEW m \in Message, ~Exhausted(m)
  PROVE  NextAttempt(m) \in Message
BY DEF Message, Exhausted, NextAttempt

\* The fault budget is kept.
LEMMA FaultTypes ==
  ASSUME faults \in 0..MaxFaults, NEW kind, NoFault \/ Fault(kind)
  PROVE  faults' \in 0..MaxFaults
BY DEF NoFault, Fault

-----------------------------------------------------------------------------
(* How the statements treat the tables.                                    *)

\* The statements on t_document keep the types of the row.
LEMMA RowTypes ==
  ASSUME RowTypeOK, UNCHANGED <<chunks, stored>>,
         \/ UNCHANGED row
         \/ CreateRow
         \/ DeleteRow
         \/ ResetForParse /\ version < MaxVersion
         \/ \E s \in Statuses, e \in {"null", "stopped", "cause"} : UpdateStatus(s, e)
         \/ \E v \in Versions, a \in 1..MaxDeliveries : RecordParseAttempt(v, a)
         \/ \E v \in Versions, s \in Statuses, e \in {"null", "stopped", "cause"} :
              UpdateStatusVersion(v, s, e)
         \/ \E v \in Versions, s \in Statuses : UpdateStatusVersionUnless(v, s)
  PROVE  RowTypeOK'
<1> USE DEF RowTypeOK, Versions
<1>1. CASE UNCHANGED row
  BY <1>1 DEF row
<1>2. CASE CreateRow \/ DeleteRow
  BY <1>2 DEF CreateRow, DeleteRow
<1>3. CASE ResetForParse /\ version < MaxVersion
  BY <1>3 DEF ResetForParse, Statuses
<1>4. CASE \E s \in Statuses, e \in {"null", "stopped", "cause"} : UpdateStatus(s, e)
  BY <1>4 DEF UpdateStatus
<1>5. CASE \E v \in Versions, a \in 1..MaxDeliveries : RecordParseAttempt(v, a)
  BY <1>5 DEF RecordParseAttempt, Greatest
<1>6. CASE \E v \in Versions, s \in Statuses, e \in {"null", "stopped", "cause"} :
             UpdateStatusVersion(v, s, e)
  BY <1>6 DEF UpdateStatusVersion
<1>7. CASE \E v \in Versions, s \in Statuses : UpdateStatusVersionUnless(v, s)
  BY <1>7 DEF UpdateStatusVersionUnless
<1> QED
  BY <1>1, <1>2, <1>3, <1>4, <1>5, <1>6, <1>7

\* The statements on t_chunk keep the types of the chunks.
LEMMA ChunkTypes ==
  ASSUME RowTypeOK, UNCHANGED <<row, stored>>,
         \/ UNCHANGED chunks
         \/ DeleteByDocument
         \/ \E v \in Versions : BulkInsert(v)
         \/ \E v \in Versions, n \in 1..Batches : UpdateVector(v, n)
  PROVE  RowTypeOK'
<1> USE DEF RowTypeOK, row
<1>1. CASE UNCHANGED chunks \/ DeleteByDocument
  BY <1>1 DEF DeleteByDocument
<1>2. CASE \E v \in Versions : BulkInsert(v)
  BY <1>2 DEF BulkInsert, ChunksOf, Chunk
<1>3. CASE \E v \in Versions, n \in 1..Batches : UpdateVector(v, n)
  <2>1. PICK rows \in SUBSET Chunk :
          chunks' = (chunks \ rows) \cup {[c EXCEPT !.vec = TRUE] : c \in rows}
    BY <1>3 DEF UpdateVector, OwnRows, SameRows
  <2>2. \A c \in rows : [c EXCEPT !.vec = TRUE] \in Chunk
    BY DEF Chunk
  <2> QED
    BY <2>1, <2>2
<1> QED
  BY <1>1, <1>2, <1>3

\* Putting a message keeps a queue a bag, and so does taking one that is there.
LEMMA QueueTypes ==
  ASSUME NEW q \in [Message -> Nat], NEW m \in Message
  PROVE  /\ Put(q, m) \in [Message -> Nat]
         /\ q[m] > 0 => Take(q, m) \in [Message -> Nat]
BY DEF Put, Take

-----------------------------------------------------------------------------
(* What a step of the handler can be.                                      *)

\* The two moves that are no Continue, Enter or Return.
Locks(w) ==
  /\ lock = NoWorker /\ lock' = w
  /\ Goto(w, "load")
  /\ UNCHANGED <<job, owned, stage, batch, cancelled>>

NextBatch(w) ==
  /\ stage[w] = "batch" /\ batch[w] < Batches
  /\ Goto(w, "embed")
  /\ batch' = [batch EXCEPT ![w] = @ + 1]
  /\ UNCHANGED <<job, owned, stage, cancelled, lock>>

\* A message goes back to the retry queue only with attempts left, the terminal
\* handler begins with its first statement, and only Locks enters the critical
\* part, which a Return leaves.
Moves(w) ==
  \/ \E p \in Points :
       /\ p \notin {"fail", "reject"}
       /\ p = "republish" => ~Exhausted(job[w])
       /\ \/ Continue(w, p) /\ (p \in Critical => pc[w] \in Critical)
          \/ Return(w, p) /\ p \notin Critical
  \/ \E s \in Stages : Enter(w, s) /\ pc[w] \in Critical
  \/ Locks(w)
  \/ NextBatch(w) /\ pc[w] \in Critical

\* Every step of the handler is one of these moves.
LEMMA HandlerMoves ==
  ASSUME NEW w \in Workers, HandlerStep(w)
  PROVE  Moves(w)
<1> USE AfterErrorPoint DEF Moves, Points, Critical, Pipeline, Stages, ReturnError,
        ReturnPermanent, ReturnDone
<1>1. ASSUME NEW next \in Pipeline, pc[w] \in Pipeline, CheckCancelled(w, next)
      PROVE  Moves(w)
  BY <1>1 DEF CheckCancelled
<1>2. ASSUME NEW kind, pc[w] \in Pipeline, CallFails(w, kind) PROVE Moves(w)
  BY <1>2 DEF CallFails
<1>3. CASE TryLock(w)
  BY <1>3 DEF TryLock, LockFree, Locks
<1>4. CASE Load(w) \/ Record(w) \/ Reload(w) \/ Resolve(w)
  BY <1>4 DEF Load, Record, Reload, Resolve
<1>5. CASE Precheck(w) \/ Guard(w) \/ Recheck(w)
  BY <1>5, <1>1 DEF Precheck, Guard, Recheck
<1>6. CASE Set(w)
  <2>1. ASSUME AfterStage(w, stage[w]) PROVE Moves(w)
    BY <1>6, <2>1 DEF Set, AfterStage, NextBatch
  <2> QED
    BY <2>1, <1>6 DEF Set
<1>7. CASE Fetch(w) \/ Clear(w) \/ Build(w) \/ Insert(w) \/ Embed(w) \/ Vector(w)
  BY <1>2, <1>7 DEF Fetch, Clear, Build, Insert, Embed, Vector
<1>8. CASE MarkCancelled(w) \/ NoteError(w)
  BY <1>8 DEF MarkCancelled, NoteError
<1> QED
  BY <1>3, <1>4, <1>5, <1>6, <1>7, <1>8 DEF HandlerStep

\* What a step of the handler does to the tables and to the fault budget.
LEMMA HandlerTables ==
  ASSUME TypeOK, NEW w \in Workers, HandlerStep(w)
  PROVE  /\ UNCHANGED queues
         /\ \E kind : NoFault \/ Fault(kind)
         /\ \/ UNCHANGED chunks
            \/ /\ UNCHANGED row
               /\ \/ DeleteByDocument
                  \/ \E v \in Versions : BulkInsert(v)
                  \/ \E v \in Versions, n \in 1..Batches : UpdateVector(v, n)
         /\ \/ UNCHANGED row
            \/ \E v \in Versions, a \in 1..MaxDeliveries : RecordParseAttempt(v, a)
            \/ \E v \in Versions, s \in Statuses, e \in {"null", "stopped", "cause"} :
                 UpdateStatusVersion(v, s, e)
            \/ \E v \in Versions, s \in Statuses : UpdateStatusVersionUnless(v, s)
<1>1. job[w].ver \in Versions /\ job[w].att \in 1..MaxDeliveries /\ batch[w] \in 1..Batches
  BY DEF TypeOK, WorkerTypeOK, Message
<1> USE DEF store
<1>2. CASE TryLock(w) \/ Load(w) \/ Reload(w) \/ Resolve(w)
  BY <1>2 DEF TryLock, Load, Reload, Resolve
<1>3. CASE Precheck(w) \/ Guard(w) \/ Recheck(w)
  BY <1>3 DEF Precheck, Guard, Recheck, CheckCancelled
<1>4. CASE Fetch(w) \/ Build(w) \/ Embed(w)
  BY <1>4 DEF Fetch, Build, Embed, CallFails
<1>5. CASE Clear(w) \/ Insert(w) \/ Vector(w)
  BY <1>1, <1>5 DEF Clear, Insert, Vector, CallFails
<1>6. CASE Record(w) \/ NoteError(w)
  BY <1>1, <1>6 DEF Record, NoteError
<1>7. CASE MarkCancelled(w)
  BY <1>1, <1>7 DEF MarkCancelled, Statuses
<1>8. CASE Set(w)
  <2>1. ASSUME stage[w] \in Stages PROVE StageStatus(stage[w]) \in Statuses
    BY <2>1 DEF StageStatus, Stages, Statuses
  <2> QED
    BY <1>1, <1>8, <2>1 DEF Set, TypeOK, WorkerTypeOK
<1> QED
  BY <1>2, <1>3, <1>4, <1>5, <1>6, <1>7, <1>8 DEF HandlerStep

-----------------------------------------------------------------------------
(* Types.                                                                  *)

\* A move keeps the types of the worker.
LEMMA MoveTypes ==
  ASSUME WorkerTypeOK, NEW w \in Workers, Moves(w)
  PROVE  WorkerTypeOK'
<1>1. CASE Locks(w)
  BY <1>1 DEF Locks, WorkerTypeOK, Goto, Points, Critical
<1>2. CASE NextBatch(w)
  BY <1>2 DEF NextBatch, WorkerTypeOK, Goto, Points, Critical, Pipeline
<1> QED
  BY <1>1, <1>2, ContinueTypes, ReturnTypes, EnterTypes DEF Moves

\* Steps of the handler keep every type.
LEMMA HandlerTypes ==
  ASSUME TypeOK, NEW w \in Workers, HandlerStep(w), UNCHANGED <<stored, service>>
  PROVE  TypeOK'
<1>1. Moves(w)
  BY HandlerMoves
<1>2. WorkerTypeOK'
  BY <1>1, MoveTypes DEF TypeOK
<1>3. RowTypeOK'
  BY HandlerTables, RowTypes, ChunkTypes DEF TypeOK
<1>4. faults' \in 0..MaxFaults
  BY HandlerTables, FaultTypes DEF TypeOK
<1>5. QueueTypeOK' /\ ServiceTypeOK'
  BY HandlerTables DEF TypeOK, QueueTypeOK, ServiceTypeOK, queues, broker, service
<1> QED
  BY <1>2, <1>3, <1>4, <1>5 DEF TypeOK

\* Steps of the consumer keep every type; a retry needs an attempt that is left.
LEMMA ConsumerTypes ==
  ASSUME TypeOK, RetriesLeft, NEW w \in Workers, ConsumerStep(w), UNCHANGED <<stored, service>>
  PROVE  TypeOK'
<1>1. /\ RowTypeOK /\ QueueTypeOK /\ WorkerTypeOK /\ ServiceTypeOK
      /\ faults \in 0..MaxFaults
      /\ job[w] \in Message /\ job[w].ver \in Versions /\ job[w].att \in 1..MaxDeliveries
  BY DEF TypeOK, WorkerTypeOK, Message
<1>2. ServiceTypeOK'
  BY <1>1 DEF ServiceTypeOK, service
<1>3. main' = Put(main, job[w]) \/ main' = main => main' \in [Message -> Nat]
  BY <1>1, QueueTypes DEF QueueTypeOK
<1>4. ASSUME Requeue(w) PROVE main' \in [Message -> Nat]
  BY <1>3, <1>4 DEF Requeue
<1> USE DEF store, queues, broker
<1>5. CASE Receive(w)
  <2>1. QueueTypeOK'
    BY <1>1, <1>5, QueueTypes DEF Receive, QueueTypeOK
  <2>2. WorkerTypeOK'
    BY <1>1, <1>5 DEF Receive, WorkerTypeOK, Goto, Points
  <2>3. RowTypeOK'
    BY <1>1, <1>5, RowTypes DEF Receive
  <2> QED
    BY <1>1, <1>2, <1>5, <2>1, <2>2, <2>3 DEF Receive, TypeOK
<1>6. CASE Ack(w)
  BY <1>1, <1>2, <1>6, IdleTypes, RowTypes DEF Ack, QueueTypeOK, TypeOK
<1>7. CASE Republish(w)
  <2>1. RetryMessage(w) \in Message
    BY <1>1, <1>7, NextAttemptType DEF Republish, RetryMessage, RetriesLeft
  <2>2. QueueTypeOK'
    BY <1>1, <1>4, <1>7, <2>1, QueueTypes DEF Republish, QueueTypeOK
  <2>3. WorkerTypeOK'
    BY <1>1, <1>7, IdleTypes, ContinueTypes DEF Republish, Points
  <2> QED
    BY <1>1, <1>2, <1>7, <2>2, <2>3, RowTypes, FaultTypes DEF Republish, TypeOK
<1>8. CASE RecordFinal(w) \/ MarkFailed(w)
  <2>1. QueueTypeOK'
    BY <1>1, <1>4, <1>8 DEF RecordFinal, MarkFailed, QueueTypeOK
  <2>2. WorkerTypeOK'
    BY <1>1, <1>8, IdleTypes, ContinueTypes DEF RecordFinal, MarkFailed, Points
  <2>3. RowTypeOK'
    BY <1>1, <1>8, RowTypes DEF RecordFinal, MarkFailed, Statuses
  <2> QED
    BY <1>1, <1>2, <1>8, <2>1, <2>2, <2>3, FaultTypes DEF RecordFinal, MarkFailed, TypeOK
<1>9. CASE Reject(w)
  BY <1>1, <1>2, <1>9, IdleTypes, RowTypes DEF Reject, QueueTypeOK, TypeOK
<1> QED
  BY <1>5, <1>6, <1>7, <1>8, <1>9 DEF ConsumerStep

\* Failures and the watcher keep every type.
LEMMA DisturbTypes ==
  ASSUME TypeOK, NEW w \in Workers, Disturb(w)
  PROVE  TypeOK'
<1>1. /\ RowTypeOK /\ QueueTypeOK /\ WorkerTypeOK /\ ServiceTypeOK
      /\ faults \in 0..MaxFaults /\ job[w] \in Message
  BY DEF TypeOK, WorkerTypeOK
<1>2. ServiceTypeOK' /\ RowTypeOK'
  BY <1>1, RowTypes DEF Disturb, ServiceTypeOK, service, store, Watch, WorkerFault,
     ChannelCloses, Crash, LockConnectionDrops
<1>3. Requeue(w) => main' \in [Message -> Nat]
  BY <1>1, QueueTypes DEF Requeue, QueueTypeOK
<1>4. QueueTypeOK'
  BY <1>1, <1>3 DEF Disturb, QueueTypeOK, queues, broker, Watch, WorkerFault,
     ChannelCloses, Crash, LockConnectionDrops
<1>5. faults' \in 0..MaxFaults
  BY <1>1, FaultTypes DEF Disturb, Watch, WorkerFault, ChannelCloses, Crash,
     LockConnectionDrops, NoFault
<1>6. WorkerTypeOK'
  <2> USE <1>1 DEF WorkerTypeOK, Goto, Points, Stages
  <2>1. CASE Watch(w)
    BY <2>1 DEF Watch
  <2>2. CASE ChannelCloses(w)
    BY <2>2 DEF ChannelCloses
  <2>3. CASE Crash(w)
    BY <2>3 DEF Crash, Released, NoJob, FirstMessage, Message, Versions
  <2>4. CASE LockConnectionDrops(w)
    BY <2>4 DEF LockConnectionDrops
  <2> QED
    BY <2>1, <2>2, <2>3, <2>4 DEF Disturb, WorkerFault
<1> QED
  BY <1>2, <1>4, <1>5, <1>6 DEF TypeOK

\* The users' operations keep every type; a re-trigger needs a version that
\* was left when TriggerParse looked, and no other step takes it.
LEMMA UserTypes ==
  ASSUME TypeOK, Triggerable, Users
  PROVE  TypeOK' /\ Triggerable'
<1>1. /\ RowTypeOK /\ QueueTypeOK /\ WorkerTypeOK /\ ServiceTypeOK
      /\ faults \in 0..MaxFaults
  BY DEF TypeOK
<1>2. WorkerTypeOK'
  BY <1>1 DEF Users, workers, WorkerTypeOK
<1> USE DEF queues, broker, ServiceTypeOK, Triggerable
<1>3. CASE Register
  <2>1. QueueTypeOK'
    BY <1>1, <1>3 DEF Register, QueueTypeOK, RowTypeOK, Outbox!Record
  <2>2. RowTypeOK' /\ version' = version
    BY <1>1, <1>3, RowTypes DEF Register, CreateRow
  <2> QED
    BY <1>1, <1>2, <1>3, <2>1, <2>2 DEF Register, TypeOK, service
<1>4. CASE StopReads \/ StopWrites
  <2>1. RowTypeOK'
    BY <1>1, <1>4, RowTypes DEF StopReads, StopWrites, Statuses
  <2>2. version' = version /\ ServiceTypeOK' /\ triggered' = triggered
    BY <1>1, <1>4 DEF StopReads, StopWrites, UpdateStatus, row, RowTypeOK
  <2> QED
    BY <1>1, <1>2, <1>4, <2>1, <2>2 DEF StopReads, StopWrites, TypeOK, QueueTypeOK
<1>5. CASE TriggerReads
  <2>1. RowTypeOK' /\ version' = version
    BY <1>1, <1>5, RowTypes DEF TriggerReads, row
  <2> QED
    BY <1>1, <1>2, <1>5, <2>1 DEF TriggerReads, TypeOK, QueueTypeOK
<1>6. CASE TriggerWrites
  <2>1. RowTypeOK'
    BY <1>1, <1>6, RowTypes DEF TriggerWrites
  <2>2. QueueTypeOK'
    BY <1>1, <1>6 DEF TriggerWrites, QueueTypeOK, Outbox!Record
  <2> QED
    BY <1>1, <1>2, <1>6, <2>1, <2>2 DEF TriggerWrites, TypeOK
<1>7. CASE DeleteStarts \/ DeleteChunks \/ DeleteObject \/ DeleteFinishes \/ DeleteFails
  <2> USE <1>7 DEF DeleteStarts, DeleteChunks, DeleteObject, DeleteFinishes, DeleteFails
  <2>1. version' = version /\ triggered' = triggered
    BY DEF row, DeleteRow
  <2>2. RowTypeOK'
    BY <1>1 DEF row, DeleteRow, DeleteByDocument, RowTypeOK
  <2>3. faults' \in 0..MaxFaults
    BY <1>1, FaultTypes DEF NoFault
  <2> QED
    BY <1>1, <1>2, <2>1, <2>2, <2>3 DEF TypeOK, QueueTypeOK, DeletePoints
<1> QED
  BY <1>3, <1>4, <1>5, <1>6, <1>7 DEF Users, ServiceStep

\* The relay and the broker's timer keep every type.
LEMMA BrokerTypes ==
  ASSUME TypeOK, (\E v \in Versions : Relay(v)) \/ (\E m \in Message : Expire(m))
  PROVE  TypeOK'
<1>1. RowTypeOK' /\ WorkerTypeOK' /\ ServiceTypeOK' /\ faults' \in 0..MaxFaults
  BY DEF TypeOK, Relay, Expire, Elsewhere, RowTypeOK, WorkerTypeOK, ServiceTypeOK,
     row, workers, service
<1>2. CASE \E v \in Versions : Relay(v)
  <2>1. PICK v \in Versions : Relay(v)
    BY <1>2
  <2>2. FirstMessage(v) \in Message
    BY DEF FirstMessage, Message
  <2> QED
    BY <1>1, <2>1, <2>2, QueueTypes DEF TypeOK, QueueTypeOK, Relay, RelayDelivers, Outbox!Deliver
<1>3. CASE \E m \in Message : Expire(m)
  BY <1>1, <1>3, QueueTypes DEF TypeOK, QueueTypeOK, Expire, RetryExpires
<1> QED
  BY <1>2, <1>3

\* A message keeps an attempt to spare until the retry is published.
LEMMA RetriesStep ==
  ASSUME TypeOK, RetriesLeft, [Next]_vars
  PROVE  RetriesLeft'
<1> USE DEF RetriesLeft
<1>1. ASSUME NEW w \in Workers, HandlerStep(w) PROVE RetriesLeft'
  BY <1>1, HandlerMoves DEF Moves, Continue, Return, Enter, Locks, NextBatch, Goto,
     Exhausted, TypeOK, WorkerTypeOK
<1>2. ASSUME NEW w \in Workers, ConsumerStep(w) PROVE RetriesLeft'
  BY <1>2 DEF ConsumerStep, Receive, Ack, Republish, RecordFinal, MarkFailed, Reject,
     Continue, BecomeIdle, Goto, Exhausted, TypeOK, WorkerTypeOK
<1>3. ASSUME NEW w \in Workers, Disturb(w) PROVE RetriesLeft'
  BY <1>3 DEF Disturb, Watch, WorkerFault, ChannelCloses, Crash, LockConnectionDrops,
     Goto, Exhausted, TypeOK, WorkerTypeOK
<1>4. CASE UNCHANGED workers
  BY <1>4 DEF workers, Exhausted
<1> QED
  BY <1>1, <1>2, <1>3, <1>4 DEF Next, Users, Work, WorkerStep, Relay, Expire, Elsewhere,
     vars, workers

\* Steps that leave the version and the service alone keep Triggerable.
LEMMA TriggerableStep ==
  ASSUME TypeOK, Triggerable, [Next]_vars, ~Users
  PROVE  Triggerable'
<1>1. UNCHANGED service
  BY DEF Next, Work, Disturb, Relay, Expire, Elsewhere, vars
<1>2. version' = version
  <2>1. ASSUME NEW w \in Workers, HandlerStep(w) PROVE version' = version
    BY <2>1, HandlerTables DEF row, RecordParseAttempt, UpdateStatusVersion, UpdateStatusVersionUnless
  <2>2. ASSUME NEW w \in Workers, ConsumerStep(w) PROVE version' = version
    BY <2>2 DEF ConsumerStep, Receive, Ack, Republish, RecordFinal, MarkFailed, Reject,
       store, row, RecordParseAttempt, UpdateStatusVersion
  <2>3. ASSUME NEW w \in Workers, Disturb(w) PROVE version' = version
    BY <2>3 DEF Disturb, Watch, WorkerFault, ChannelCloses, Crash, LockConnectionDrops, store, row
  <2> QED
    BY <2>1, <2>2, <2>3 DEF Next, Work, WorkerStep, Relay, Expire, Elsewhere, vars, world, row
<1> QED
  BY <1>1, <1>2 DEF Triggerable, service

TypeInvariant == TypeOK /\ Triggerable /\ RetriesLeft

\* The pipeline starts in the types, with no trigger and no retry under way.
LEMMA InitTypes == Init => TypeInvariant
<1> SUFFICES ASSUME Init PROVE TypeInvariant
  OBVIOUS
<1> USE DEF Init
<1>1. RowTypeOK
  BY DEF RowInit, RowTypeOK, Versions, Statuses
<1>2. QueueTypeOK
  BY DEF QueueInit, QueueTypeOK, Outbox!Init
<1>3. WorkerTypeOK
  BY DEF WorkerInit, WorkerTypeOK, Points, Stages, NoJob, FirstMessage, Message, Versions
<1>4. ServiceTypeOK /\ Triggerable
  BY DEF ServiceInit, ServiceTypeOK, Triggerable, DeletePoints
<1>5. RetriesLeft
  BY DEF WorkerInit, RetriesLeft
<1> QED
  BY <1>1, <1>2, <1>3, <1>4, <1>5 DEF TypeInvariant, TypeOK, FaultInit

\* Every step keeps them.
LEMMA TypesStep == TypeInvariant /\ [Next]_vars => TypeInvariant'
<1> SUFFICES ASSUME TypeInvariant, [Next]_vars PROVE TypeInvariant'
  OBVIOUS
<1> USE DEF TypeInvariant
<1>1. RetriesLeft'
  BY RetriesStep
<1>2. CASE Users
  BY <1>1, <1>2, UserTypes
<1>3. CASE ~Users
  <2>1. Triggerable'
    BY <1>3, TriggerableStep
  <2>2. ASSUME NEW w \in Workers, Work(w) PROVE TypeOK'
    BY <2>2, HandlerTypes, ConsumerTypes DEF Work, WorkerStep, service
  <2>3. ASSUME UNCHANGED vars PROVE TypeOK'
    <3>1. UNCHANGED <<world, workers, service>>
      BY <2>3 DEF vars
    <3>2. RowTypeOK' /\ QueueTypeOK' /\ UNCHANGED faults
      BY <3>1 DEF TypeOK, world, row, queues, broker, RowTypeOK, QueueTypeOK
    <3>3. WorkerTypeOK' /\ ServiceTypeOK'
      BY <3>1 DEF TypeOK, workers, service, WorkerTypeOK, ServiceTypeOK
    <3> QED
      BY <3>2, <3>3 DEF TypeOK
  <2> QED
    BY <1>1, <1>3, <2>1, <2>2, <2>3, DisturbTypes, BrokerTypes DEF Next
<1> QED
  BY <1>2, <1>3

\* Type correctness of the whole pipeline.
THEOREM PipelineTypes == SafeSpec => []TypeOK
<1>1. TypeInvariant => TypeOK
  BY DEF TypeInvariant
<1> QED
  BY <1>1, InitTypes, TypesStep, PTL DEF SafeSpec

-----------------------------------------------------------------------------
(* What a step may never do.                                               *)

\* What a step does to the state, version and attempts of the document: they
\* advance, the document is registered, or a new version starts.
LEMMA RowStep ==
  ASSUME TypeOK, [Next]_vars
  PROVE  \/ /\ docState' \in {docState, "gone"}
            /\ version' = version /\ attempts' >= attempts
         \/ /\ docState = "new" /\ docState' = "live"
            /\ version' = version /\ attempts' = attempts
         \/ /\ docState = "live" /\ docState' = "live"
            /\ version' = version + 1 /\ Users
<1> USE DEF TypeOK, RowTypeOK, Versions
<1> DEFINE Counts == \E v \in Versions, a \in 1..MaxDeliveries : RecordParseAttempt(v, a)
           Keeps == docState' \in {docState, "gone"} /\ version' = version /\ attempts' = attempts
<1>1. CASE Counts
  BY <1>1 DEF RecordParseAttempt, Greatest
<1>2. CASE Keeps
  BY <1>2
<1>3. ASSUME NEW w \in Workers, HandlerStep(w) PROVE Counts \/ Keeps
  BY <1>3, HandlerTables DEF row, UpdateStatusVersion, UpdateStatusVersionUnless
<1>4. ASSUME NEW w \in Workers, ConsumerStep(w) PROVE Counts \/ Keeps
  <2>1. job[w].ver \in Versions /\ job[w].att \in 1..MaxDeliveries
    BY DEF WorkerTypeOK, Message
  <2> QED
    BY <1>4, <2>1 DEF ConsumerStep, Receive, Ack, Republish, RecordFinal, MarkFailed, Reject,
       store, row, UpdateStatusVersion
<1>5. ASSUME NEW w \in Workers, Disturb(w) PROVE Keeps
  BY <1>5 DEF Disturb, Watch, WorkerFault, ChannelCloses, Crash, LockConnectionDrops, store, row
<1>6. ASSUME Users PROVE Keeps \/ CreateRow \/ ResetForParse
  BY <1>6 DEF Users, ServiceStep, Register, StopReads, StopWrites, TriggerReads, TriggerWrites,
     DeleteStarts, DeleteChunks, DeleteObject, DeleteFinishes, DeleteFails, UpdateStatus,
     DeleteRow, row
<1>7. CASE Users
  BY <1>2, <1>6, <1>7 DEF CreateRow, ResetForParse, Live
<1>8. CASE ~Users
  BY <1>1, <1>2, <1>3, <1>4, <1>5, <1>8 DEF Next, Work, WorkerStep, Relay, Expire, Elsewhere,
     vars, world, row
<1> QED
  BY <1>7, <1>8

\* Attempts of a version are never forgotten: GREATEST keeps the larger count
\* whatever order the messages come in.
THEOREM AttemptsNeverShrink == SafeSpec => AttemptsMonotone
<1>1. ASSUME TypeOK, [Next]_vars, version' = version PROVE attempts' >= attempts
  BY <1>1, RowStep DEF TypeOK, RowTypeOK, Versions
<1>2. TypeOK /\ [Next]_vars => [version' = version => attempts' >= attempts]_vars
  BY <1>1
<1> QED
  BY <1>2, PipelineTypes, PTL DEF SafeSpec, AttemptsMonotone

\* A stop is never overwritten by the progress of a stage: every statement of
\* the pipeline that sets another status excludes the stopped ones.
THEOREM StopsWin == SafeSpec => StopWins
<1>1. ASSUME TypeOK, [Next]_vars, version' = version, status \in StopStatuses
      PROVE  status' \in StopStatuses \cup {"failed"}
  <2> USE <1>1 DEF TypeOK, RowTypeOK, Versions, StopStatuses
  <2>1. ASSUME NEW w \in Workers, HandlerStep(w) PROVE status' \in StopStatuses
    BY <2>1 DEF HandlerStep, TryLock, Load, Record, Reload, Precheck, Resolve, Guard, Set, Fetch,
       Clear, Build, Insert, Embed, Recheck, Vector, MarkCancelled, NoteError, CallFails,
       store, row, RecordParseAttempt, UpdateStatusVersion, UpdateStatusVersionUnless, Advanceable
  <2>2. ASSUME NEW w \in Workers, ConsumerStep(w) PROVE status' \in StopStatuses \cup {"failed"}
    BY <2>2 DEF ConsumerStep, Receive, Ack, Republish, RecordFinal, MarkFailed, Reject,
       store, row, RecordParseAttempt, UpdateStatusVersion
  <2>3. ASSUME NEW w \in Workers, Disturb(w) PROVE status' = status
    BY <2>3 DEF Disturb, Watch, WorkerFault, ChannelCloses, Crash, LockConnectionDrops, store, row
  <2>4. ASSUME Users PROVE status' \in StopStatuses
    BY <2>4 DEF Users, ServiceStep, Register, StopReads, StopWrites, TriggerReads, TriggerWrites,
       DeleteStarts, DeleteChunks, DeleteObject, DeleteFinishes, DeleteFails, CreateRow,
       UpdateStatus, DeleteRow, ResetForParse, row
  <2> QED
    BY <2>1, <2>2, <2>3, <2>4 DEF Next, Work, WorkerStep, Relay, Expire, Elsewhere, vars, world, row
<1>2. TypeOK /\ [Next]_vars
      => [version' = version /\ status \in StopStatuses
            => status' \in StopStatuses \cup {"failed"}]_vars
  BY <1>1
<1> QED
  BY <1>2, PipelineTypes, PTL DEF SafeSpec, StopWins

\* A worker changes the status only in the version its message is for: every
\* status update carries the version as a condition, the terminal handler's
\* included, which runs without the lock.
THEOREM StaleMessagesInert == SafeSpec => StaleMessageInert
<1>1. ASSUME NEW w \in Workers, Work(w), status' # status PROVE job[w].ver = version
  <2>1. CASE HandlerStep(w)
    BY <1>1, <2>1 DEF HandlerStep, TryLock, Load, Record, Reload, Precheck, Resolve, Guard, Set,
       Fetch, Clear, Build, Insert, Embed, Recheck, Vector, MarkCancelled, NoteError, CallFails,
       store, row, RecordParseAttempt, UpdateStatusVersion, UpdateStatusVersionUnless, Advanceable,
       Current
  <2>2. CASE ConsumerStep(w)
    BY <1>1, <2>2 DEF ConsumerStep, Receive, Ack, Republish, RecordFinal, MarkFailed, Reject,
       store, row, RecordParseAttempt, UpdateStatusVersion, Current
  <2> QED
    BY <1>1, <2>1, <2>2 DEF Work, WorkerStep
<1>2. [Next]_vars
      => [\A w \in Workers : Work(w) /\ status' # status => job[w].ver = version]_vars
  BY <1>1
<1> QED
  BY <1>2, PTL DEF SafeSpec, StaleMessageInert

-----------------------------------------------------------------------------
(* One worker at a time.                                                   *)

\* While lock connections do not drop, a worker in the critical part holds the
\* lock: only TryLock enters it, and whoever leaves it gives the lock back.
LEMMA LockStep ==
  ASSUME "conn" \notin FaultKinds, TypeOK, LockHeld, [Next]_vars
  PROVE  LockHeld'
<1> USE DEF LockHeld, TypeOK, WorkerTypeOK
<1>1. ASSUME NEW w \in Workers, HandlerStep(w) PROVE LockHeld'
  <2>1. CASE Locks(w)
    BY <2>1 DEF Locks, Goto
  <2>2. CASE NextBatch(w) /\ pc[w] \in Critical
    BY <2>2 DEF NextBatch, Goto
  <2>3. ASSUME NEW s \in Stages, Enter(w, s), pc[w] \in Critical PROVE LockHeld'
    BY <2>3 DEF Enter, Goto
  <2>4. ASSUME NEW p \in Points, Continue(w, p), p \in Critical => pc[w] \in Critical
        PROVE  LockHeld'
    BY <2>4 DEF Continue, Goto
  <2>5. ASSUME NEW p \in Points, Return(w, p), p \notin Critical PROVE LockHeld'
    BY <2>5 DEF Return, Goto, Released
  <2> QED
    BY <1>1, <2>1, <2>2, <2>3, <2>4, <2>5, HandlerMoves DEF Moves
<1>2. ASSUME NEW w \in Workers, ConsumerStep(w) PROVE LockHeld'
  BY <1>2 DEF ConsumerStep, Receive, Ack, Republish, RecordFinal, MarkFailed, Reject,
     Continue, BecomeIdle, Goto, Critical, Pipeline
<1>3. ASSUME NEW w \in Workers, Disturb(w) PROVE LockHeld'
  BY <1>3 DEF Disturb, Watch, WorkerFault, ChannelCloses, Crash, LockConnectionDrops, Fault,
     Goto, Released, Critical, Pipeline
<1>4. CASE UNCHANGED workers
  BY <1>4 DEF workers
<1> QED
  BY <1>1, <1>2, <1>3, <1>4 DEF Next, Users, Work, WorkerStep, Relay, Expire, Elsewhere, vars

\* No two workers run the document's pipeline at the same time, for any number
\* of workers, duplicates, requeues and faults other than a dropped lock.
THEOREM OneWorkerAtATime ==
  ASSUME "conn" \notin FaultKinds
  PROVE  SafeSpec => []SoleWorker
<1>1. Init => LockHeld
  BY DEF Init, WorkerInit, LockHeld, Critical, Pipeline
<1>2. TypeOK /\ LockHeld /\ [Next]_vars => LockHeld'
  BY LockStep
<1>3. LockHeld => SoleWorker
  BY DEF LockHeld, SoleWorker
<1> QED
  BY <1>1, <1>2, <1>3, PipelineTypes, PTL DEF SafeSpec

-----------------------------------------------------------------------------
(* The chunks of a document that is done.                                  *)

\* A worker's position in the pipeline fits its stage and batch.
LEMMA StagesStep ==
  ASSUME TypeOK, StagesInOrder, [Next]_vars
  PROVE  StagesInOrder'
<1> USE AfterErrorPoint DEF StagesInOrder, TypeOK, WorkerTypeOK, Goto, Continue, Return, Enter,
        ReturnError, ReturnPermanent, ReturnDone
<1>1. ASSUME NEW w \in Workers, HandlerStep(w) PROVE StagesInOrder'
  <2>1. CASE TryLock(w)
    BY <2>1 DEF TryLock
  <2>2. CASE Load(w) \/ Record(w) \/ Reload(w) \/ Resolve(w)
    BY <2>2 DEF Load, Record, Reload, Resolve
  <2>3. CASE Precheck(w) \/ Guard(w) \/ Recheck(w)
    BY <2>3 DEF Precheck, Guard, Recheck, CheckCancelled
  <2>4. CASE Set(w)
    <3>1. CASE AfterStage(w, stage[w])
      BY <2>4, <3>1 DEF Set, AfterStage
    <3>2. CASE Continue(w, "stopped") \/ Continue(w, "note")
      BY <2>4, <3>2 DEF Set
    <3> QED
      BY <2>4, <3>1, <3>2 DEF Set
  <2>5. CASE Fetch(w) \/ Clear(w) \/ Build(w)
    BY <2>5 DEF Fetch, Clear, Build, CallFails
  <2>6. CASE Insert(w) \/ Embed(w) \/ Vector(w)
    BY <2>6 DEF Insert, Embed, Vector, CallFails
  <2>7. CASE MarkCancelled(w) \/ NoteError(w)
    BY <2>7 DEF MarkCancelled, NoteError
  <2> QED
    BY <1>1, <2>1, <2>2, <2>3, <2>4, <2>5, <2>6, <2>7 DEF HandlerStep
<1>2. ASSUME NEW w \in Workers, ConsumerStep(w) PROVE StagesInOrder'
  BY <1>2 DEF ConsumerStep, Receive, Ack, Republish, RecordFinal, MarkFailed, Reject, BecomeIdle
<1>3. ASSUME NEW w \in Workers, Disturb(w) PROVE StagesInOrder'
  BY <1>3 DEF Disturb, Watch, WorkerFault, ChannelCloses, Crash, LockConnectionDrops
<1>4. CASE UNCHANGED workers
  BY <1>4 DEF workers
<1> QED
  BY <1>1, <1>2, <1>3, <1>4 DEF Next, Users, Work, WorkerStep, Relay, Expire, Elsewhere, vars

\* The row becomes done only by the last stage of the worker that holds the
\* lock, so no other pipeline is under way then.
LEMMA UnfinishedStep ==
  ASSUME "conn" \notin FaultKinds, TypeOK, LockHeld, RunningIsUnfinished, [Next]_vars
  PROVE  RunningIsUnfinished'
<1> USE DEF RunningIsUnfinished, TypeOK, WorkerTypeOK
<1> DEFINE Inside == Critical \ {"load"}
<1>1. ASSUME NEW w \in Workers, HandlerStep(w) PROVE RunningIsUnfinished'
  <2> USE AfterErrorPoint DEF Goto, Continue, Return, Enter, ReturnError, ReturnPermanent,
          ReturnDone, store, row, Critical, Pipeline
  <2>1. CASE TryLock(w) \/ Load(w)
    BY <2>1 DEF TryLock, Load, Worthwhile
  <2>2. CASE Record(w) \/ NoteError(w)
    BY <2>2 DEF Record, NoteError, RecordParseAttempt
  <2>3. CASE MarkCancelled(w)
    BY <2>3 DEF MarkCancelled, UpdateStatusVersion
  <2>4. CASE Reload(w) \/ Resolve(w)
    BY <2>4 DEF Reload, Resolve
  <2>5. CASE Precheck(w) \/ Guard(w) \/ Recheck(w)
    BY <2>5 DEF Precheck, Guard, Recheck, CheckCancelled
  <2>6. CASE Fetch(w) \/ Clear(w) \/ Build(w) \/ Insert(w) \/ Embed(w) \/ Vector(w)
    BY <2>6 DEF Fetch, Clear, Build, Insert, Embed, Vector, CallFails
  <2>7. CASE Set(w)
    <3>1. CASE stage[w] = "done" /\ ReturnDone(w)
      <4>1. \A u \in Workers : pc'[u] \notin Inside
        BY <2>7, <3>1 DEF Set, LockHeld
      <4> QED
        BY <4>1
    <3>2. CASE UpdateStatusVersionUnless(job[w].ver, StageStatus(stage[w])) /\ stage[w] # "done"
      <4>1. status' # "done"
        BY <3>2 DEF UpdateStatusVersionUnless, StageStatus, Stages
      <4> QED
        BY <4>1
    <3>3. CASE UNCHANGED row
      BY <2>7, <3>3 DEF Set, AfterStage
    <3> QED
      BY <2>7, <3>1, <3>2, <3>3 DEF Set, AfterStage
  <2> QED
    BY <1>1, <2>1, <2>2, <2>3, <2>4, <2>5, <2>6, <2>7 DEF HandlerStep
<1>2. ASSUME NEW w \in Workers, ConsumerStep(w) PROVE RunningIsUnfinished'
  BY <1>2 DEF ConsumerStep, Receive, Ack, Republish, RecordFinal, MarkFailed, Reject, BecomeIdle,
     Continue, Goto, Critical, Pipeline, store, row, RecordParseAttempt, UpdateStatusVersion
<1>3. ASSUME NEW w \in Workers, Disturb(w) PROVE RunningIsUnfinished'
  BY <1>3 DEF Disturb, Watch, WorkerFault, ChannelCloses, Crash, LockConnectionDrops,
     Goto, Critical, Pipeline, store, row
<1>4. CASE Users
  <2>1. UNCHANGED workers
    BY <1>4 DEF Users
  <2>2. status' = status \/ status' # "done"
    BY <1>4 DEF Users, ServiceStep, Register, StopReads, StopWrites, TriggerReads, TriggerWrites,
       DeleteStarts, DeleteChunks, DeleteObject, DeleteFinishes, DeleteFails, CreateRow,
       UpdateStatus, DeleteRow, ResetForParse, row
  <2> QED
    BY <2>1, <2>2 DEF workers
<1>5. CASE UNCHANGED <<workers, row>>
  BY <1>5 DEF workers, row
<1> QED
  BY <1>1, <1>2, <1>3, <1>4, <1>5 DEF Next, Work, WorkerStep, Relay, Expire, Elsewhere, vars, world

\* BulkInsert into no chunks makes a run without vectors, and a done document
\* is a run with all of them.
LEMMA VectoredEnds ==
  ASSUME NEW v \in Versions
  PROVE  /\ ChunksOf(v, FALSE) = Vectored(v, 0)
         /\ ChunksOf(v, TRUE) = Vectored(v, Batches)
<1>1. 1..0 = {} /\ (Batches + 1)..Batches = {} /\ 0 + 1 = 1
  OBVIOUS
<1>2. [run : {v}, n : 1..0, vec : {TRUE}] = {}
  BY <1>1
<1>3. [run : {v}, n : (Batches + 1)..Batches, vec : {FALSE}] = {}
  BY <1>1
<1> QED
  BY <1>1, <1>2, <1>3 DEF ChunksOf, Vectored

\* The rows of such a run one by one.
LEMMA VectoredRows ==
  ASSUME NEW v, NEW m \in 0..Batches, NEW c
  PROVE  c \in Vectored(v, m)
           <=> \E k \in 1..Batches :
                 \/ k <= m /\ c = [run |-> v, n |-> k, vec |-> TRUE]
                 \/ k > m /\ c = [run |-> v, n |-> k, vec |-> FALSE]
<1>1. ASSUME NEW S, NEW b
      PROVE  c \in [run : {v}, n : S, vec : {b}]
               <=> \E k \in S : c = [run |-> v, n |-> k, vec |-> b]
  <2>1. ASSUME c \in [run : {v}, n : S, vec : {b}]
        PROVE  c.n \in S /\ c = [run |-> v, n |-> c.n, vec |-> b]
    BY <2>1
  <2>2. ASSUME NEW k \in S, c = [run |-> v, n |-> k, vec |-> b]
        PROVE  c \in [run : {v}, n : S, vec : {b}]
    BY <2>2
  <2> QED
    BY <2>1, <2>2
<1>2. c \in [run : {v}, n : 1..m, vec : {TRUE}]
        <=> \E k \in 1..m : c = [run |-> v, n |-> k, vec |-> TRUE]
  BY <1>1
<1>3. c \in [run : {v}, n : (m + 1)..Batches, vec : {FALSE}]
        <=> \E k \in (m + 1)..Batches : c = [run |-> v, n |-> k, vec |-> FALSE]
  BY <1>1
<1>4. \A k : k \in 1..m <=> k \in 1..Batches /\ k <= m
  OBVIOUS
<1>5. \A k : k \in (m + 1)..Batches <=> k \in 1..Batches /\ k > m
  OBVIOUS
<1>6. c \in Vectored(v, m) <=> \/ c \in [run : {v}, n : 1..m, vec : {TRUE}]
                             \/ c \in [run : {v}, n : (m + 1)..Batches, vec : {FALSE}]
  BY DEF Vectored
<1> QED
  BY <1>2, <1>3, <1>4, <1>5, <1>6

\* UpdateVector takes a run one batch further, whichever rows it meets.
LEMMA VectoredNext ==
  ASSUME NEW v \in Versions, NEW n \in 1..Batches,
         chunks = Vectored(v, n - 1), UpdateVector(v, n)
  PROVE  chunks' = Vectored(v, n)
<1>1. PICK rows \in {OwnRows(v, n), SameRows(n)} :
        chunks' = (chunks \ rows) \cup {[c EXCEPT !.vec = TRUE] : c \in rows}
  BY DEF UpdateVector
<1> DEFINE Bare(k) == [run |-> v, n |-> k, vec |-> FALSE]
           Full(k) == [run |-> v, n |-> k, vec |-> TRUE]
<1>2. ASSUME NEW k
      PROVE  /\ Bare(k).run = v /\ Bare(k).n = k
             /\ Full(k).run = v /\ Full(k).n = k
  OBVIOUS
<1>3. Bare(n) # Full(n) /\ [Bare(n) EXCEPT !.vec = TRUE] = Full(n)
  <2>1. Bare(n).vec = FALSE /\ Full(n).vec = TRUE
    OBVIOUS
  <2>2. Bare(n) \in Chunk /\ Full(n) \in Chunk
    BY DEF Chunk
  <2> DEFINE Filled(c) == [c EXCEPT !.vec = TRUE]
  <2>3. ASSUME NEW c \in Chunk
        PROVE  Filled(c) \in Chunk /\ Filled(c).run = c.run /\ Filled(c).n = c.n /\ Filled(c).vec
    BY DEF Chunk
  <2>4. ASSUME NEW c \in Chunk, NEW d \in Chunk, c.run = d.run, c.n = d.n, c.vec = d.vec
        PROVE  c = d
    BY <2>4 DEF Chunk
  <2> HIDE DEF Bare, Full, Filled
  <2>5. Filled(Bare(n)).vec = Full(n).vec
    BY <2>1, <2>2, <2>3 DEF Chunk
  <2>6. Filled(Bare(n)) = Full(n)
    BY <1>2, <2>2, <2>3, <2>4, <2>5
  <2> QED
    BY <2>1, <2>6 DEF Filled
<1>4. ASSUME NEW c
      PROVE  c \in chunks
               <=> \E k \in 1..Batches : (k < n /\ c = Full(k)) \/ (k >= n /\ c = Bare(k))
  <2>1. n - 1 \in 0..Batches
    OBVIOUS
  <2>2. c \in chunks
          <=> \E k \in 1..Batches : (k <= n - 1 /\ c = Full(k)) \/ (k > n - 1 /\ c = Bare(k))
    BY <2>1, VectoredRows
  <2>3. \A k \in 1..Batches : (k <= n - 1 <=> k < n) /\ (k > n - 1 <=> k >= n)
    OBVIOUS
  <2> QED
    BY <2>2, <2>3
<1>5. ASSUME NEW c
      PROVE  c \in Vectored(v, n)
               <=> \E k \in 1..Batches : (k <= n /\ c = Full(k)) \/ (k > n /\ c = Bare(k))
  <2>1. n \in 0..Batches
    OBVIOUS
  <2> QED
    BY <2>1, VectoredRows
<1> HIDE DEF Bare, Full
<1>6. rows = {Bare(n)}
  <2>1. ASSUME NEW c \in chunks PROVE c.run = v /\ (c.n = n => c = Bare(n))
    <3>1. PICK k \in 1..Batches : (k < n /\ c = Full(k)) \/ (k >= n /\ c = Bare(k))
      BY <1>4
    <3>2. c.run = v /\ c.n = k
      BY <1>2, <3>1
    <3> QED
      BY <3>1, <3>2
  <2>2. Bare(n) \in chunks /\ Bare(n).n = n
    BY <1>2, <1>4
  <2>3. rows = {c \in chunks : c.n = n}
    BY <1>1, <2>1 DEF OwnRows, SameRows
  <2> QED
    BY <2>1, <2>2, <2>3
<1>7. chunks' = (chunks \ {Bare(n)}) \cup {Full(n)}
  BY <1>1, <1>3, <1>6
<1>8. ASSUME NEW c \in chunks' PROVE c \in Vectored(v, n)
  <2>1. CASE c \in chunks /\ c # Bare(n)
    <3>1. PICK k \in 1..Batches : (k < n /\ c = Full(k)) \/ (k >= n /\ c = Bare(k))
      BY <1>4, <2>1
    <3> QED
      BY <1>5, <2>1, <3>1
  <2>2. CASE c = Full(n)
    BY <1>5, <2>2
  <2> QED
    BY <1>7, <1>8, <2>1, <2>2
<1>9. ASSUME NEW c \in Vectored(v, n) PROVE c \in chunks'
  <2>1. PICK k \in 1..Batches : (k <= n /\ c = Full(k)) \/ (k > n /\ c = Bare(k))
    BY <1>5, <1>9
  <2>2. CASE k = n
    BY <1>7, <2>1, <2>2
  <2>3. CASE k # n
    <3>1. c \in chunks
      BY <1>4, <2>1, <2>3
    <3>2. c # Bare(n)
      BY <1>2, <2>1, <2>3
    <3> QED
      BY <1>7, <3>1, <3>2
  <2> QED
    BY <2>2, <2>3
<1> QED
  BY <1>8, <1>9

\* Points of the pipeline that say something about the chunks.
Building == {"guard", "set", "build", "insert", "embed", "recheck", "vector"}

\* Away from those points a worker makes no claim about the chunks.
LEMMA NotBuilding ==
  ASSUME NEW w \in Workers, pc[w] \notin Building
  PROVE  InPlace(w)
BY DEF InPlace, InStage, Building

\* A worker's claim stays true while it stands still and the chunks are kept.
LEMMA InPlaceStays ==
  ASSUME NEW w \in Workers, InPlace(w), chunks' = chunks,
         pc'[w] = pc[w], job'[w] = job[w], stage'[w] = stage[w], batch'[w] = batch[w]
  PROVE  InPlace(w)'
BY DEF InPlace, InStage, Vectored

\* A step of the handler leaves the run's chunks as the next point expects them.
LEMMA InPlaceStep ==
  ASSUME TypeOK, StagesInOrder, NEW w \in Workers, InPlace(w), HandlerStep(w)
  PROVE  InPlace(w)'
<1> USE AfterErrorPoint DEF TypeOK, WorkerTypeOK, Goto, Continue, Return, Enter, ReturnError,
        ReturnPermanent, ReturnDone
<1> DEFINE v == job[w].ver
<1>1. ASSUME pc'[w] \notin Building PROVE InPlace(w)'
  BY <1>1 DEF InPlace, InStage, Building
<1>2. CASE TryLock(w) \/ Load(w) \/ Record(w) \/ Reload(w) \/ Precheck(w) \/ MarkCancelled(w) \/ NoteError(w)
  <2>1. pc'[w] \notin Building
    BY <1>2 DEF TryLock, Load, Record, Reload, Precheck, CheckCancelled, MarkCancelled, NoteError,
       Building
  <2> QED
    BY <1>1, <2>1
<1>3. ASSUME pc'[w] = "guard", stage'[w] \in {"parsing", "chunking"} PROVE InPlace(w)'
  BY <1>3 DEF InPlace, InStage
<1>4. CASE Resolve(w) \/ Fetch(w)
  BY <1>1, <1>3, <1>4 DEF Resolve, Fetch, CallFails, Building
<1>5. CASE Guard(w)
  BY <1>1, <1>5 DEF Guard, CheckCancelled, store, Building, InPlace, InStage, Vectored
<1>6. CASE Recheck(w)
  BY <1>1, <1>6 DEF Recheck, CheckCancelled, store, Building, InPlace, InStage, Vectored
<1>7. CASE Build(w) \/ Embed(w)
  BY <1>1, <1>7 DEF Build, Embed, CallFails, store, Building, InPlace, InStage, Vectored
<1>8. CASE Clear(w)
  BY <1>1, <1>8 DEF Clear, CallFails, DeleteByDocument, Building, InPlace, InStage
<1>9. CASE Insert(w)
  <2>1. CASE pc'[w] = "guard"
    <3>1. chunks' = ChunksOf(v, FALSE) /\ stage'[w] = "embedding" /\ job'[w] = job[w]
      BY <1>9, <2>1 DEF Insert, BulkInsert, CallFails, InPlace
    <3>2. v \in Versions
      BY DEF Message
    <3>3. chunks' = Vectored(v, 0)
      BY <3>1, <3>2, VectoredEnds
    <3> QED
      BY <2>1, <3>1, <3>3 DEF InPlace, InStage, Vectored
  <2>2. CASE pc'[w] # "guard"
    BY <1>1, <1>9, <2>2 DEF Insert, CallFails, Building
  <2> QED
    BY <2>1, <2>2
<1>10. CASE Vector(w)
  <2>1. CASE pc'[w] = "guard"
    <3>1. /\ UpdateVector(v, batch[w]) /\ chunks = Vectored(v, batch[w] - 1)
          /\ stage'[w] = "batch" /\ job'[w] = job[w] /\ batch'[w] = batch[w]
      BY <1>10, <2>1 DEF Vector, CallFails, InPlace
    <3>2. v \in Versions
      BY DEF Message
    <3>3. chunks' = Vectored(v, batch[w])
      BY <3>1, <3>2, VectoredNext
    <3> QED
      BY <2>1, <3>1, <3>3 DEF InPlace, InStage, Vectored
  <2>2. CASE pc'[w] # "guard"
    BY <1>1, <1>10, <2>2 DEF Vector, CallFails, Building
  <2> QED
    BY <2>1, <2>2
<1>11. CASE Set(w)
  <2>1. chunks' = chunks /\ pc[w] = "set" /\ job' = job
    BY <1>11 DEF Set, AfterStage
  <2>2. CASE pc'[w] = "embed" /\ stage[w] = "embedding" /\ batch' = batch
    <3>1. batch[w] = 1 /\ batch[w] - 1 = 0
      BY <2>2 DEF StagesInOrder
    <3> QED
      BY <2>1, <2>2, <3>1 DEF InPlace, InStage, Vectored
  <2>3. CASE pc'[w] = "embed" /\ stage[w] = "batch" /\ batch'[w] = batch[w] + 1
    <3>1. batch'[w] - 1 = batch[w]
      BY <2>3
    <3> QED
      BY <2>1, <2>3, <3>1 DEF InPlace, InStage, Vectored
  <2>4. CASE pc'[w] = "guard" /\ stage[w] = "batch" /\ batch[w] = Batches /\ stage'[w] = "done"
    BY <2>1, <2>4 DEF InPlace, InStage, Vectored
  <2>5. CASE AfterStage(w, stage[w])
    BY <1>1, <1>11, <2>2, <2>3, <2>4, <2>5 DEF AfterStage, Building, Set
  <2>6. CASE ~AfterStage(w, stage[w])
    BY <1>1, <1>11, <2>6 DEF Set, Building
  <2> QED
    BY <2>5, <2>6
<1> QED
  BY <1>2, <1>4, <1>5, <1>6, <1>7, <1>8, <1>9, <1>10, <1>11 DEF HandlerStep

\* While no Delete has begun, every step keeps the claims of the workers and of
\* a document that is done: the chunks change only under the lock, by the one
\* worker whose pipeline is under way, and not on a document that is done.
LEMMA ChunksStep ==
  ASSUME "conn" \notin FaultKinds, PipelineInvariant, [Next]_vars, Untouched'
  PROVE  ChunksInPlace' /\ DoneInPlace'
<1>1. Untouched
  <2>1. ASSUME NEW w \in Workers, HandlerStep(w) PROVE docState' = docState
    BY <2>1, HandlerTables DEF PipelineInvariant, row, RecordParseAttempt, UpdateStatusVersion,
       UpdateStatusVersionUnless
  <2>2. ASSUME NEW w \in Workers, ConsumerStep(w) PROVE docState' = docState
    BY <2>2 DEF ConsumerStep, Receive, Ack, Republish, RecordFinal, MarkFailed, Reject,
       store, row, RecordParseAttempt, UpdateStatusVersion
  <2>3. ASSUME NEW w \in Workers, Disturb(w) PROVE docState' = docState
    BY <2>3 DEF Disturb, Watch, WorkerFault, ChannelCloses, Crash, LockConnectionDrops, store, row
  <2>4. CASE Users
    BY <2>4 DEF Untouched, Users, ServiceStep, Register, StopReads, StopWrites, TriggerReads,
       TriggerWrites, DeleteStarts, DeleteChunks, DeleteObject, DeleteFinishes, DeleteFails,
       CreateRow, UpdateStatus, DeleteRow, ResetForParse, row, service, Live
  <2>5. CASE ~Users
    <3>1. deleting' = deleting
      BY <2>5 DEF Next, Work, Disturb, Relay, Expire, Elsewhere, vars, service
    <3>2. docState' = docState
      BY <2>1, <2>2, <2>3, <2>5 DEF Next, Work, WorkerStep, Relay, Expire, Elsewhere, vars, world, row
    <3> QED
      BY <3>1, <3>2 DEF Untouched
  <2> QED
    BY <2>4, <2>5
<1> USE <1>1 DEF PipelineInvariant, ChunksInPlace
<1>2. ASSUME chunks' = chunks, status' = "done" => status = "done" /\ version' = version
      PROVE  DoneInPlace'
  BY <1>2 DEF DoneInPlace, Vectored
<1>3. ASSUME NEW w \in Workers, HandlerStep(w) PROVE ChunksInPlace' /\ DoneInPlace'
  <2>1. Moves(w)
    BY <1>3, HandlerMoves
  <2>2. InPlace(w)'
    BY <1>3, InPlaceStep
  <2>3. ASSUME NEW u \in Workers, u # w PROVE InPlace(u)'
    <3>1. /\ pc'[u] = pc[u] /\ job'[u] = job[u] /\ stage'[u] = stage[u] /\ batch'[u] = batch[u]
      BY <2>1, <2>3 DEF Moves, Locks, NextBatch, Continue, Return, Enter, Goto, TypeOK, WorkerTypeOK
    <3>2. CASE pc[w] \in Critical
      <4>1. pc[u] \notin Critical
        BY <2>3, <3>2 DEF LockHeld
      <4>2. pc'[u] \notin Building
        BY <3>1, <4>1 DEF Building, Critical, Pipeline
      <4> QED
        BY <4>2 DEF InPlace, InStage, Building
    <3>3. CASE pc[w] \notin Critical
      <4>1. chunks' = chunks
        BY <1>3, <3>3 DEF HandlerStep, TryLock, Load, Record, Reload, Precheck, Resolve, Guard, Set,
           Fetch, Clear, Build, Insert, Embed, Recheck, Vector, MarkCancelled, NoteError, store,
           Critical, Pipeline
      <4> QED
        BY <3>1, <4>1, InPlaceStays
    <3> QED
      BY <3>2, <3>3
  <2>4. DoneInPlace'
    <3>1. CASE Clear(w) \/ Insert(w) \/ Vector(w)
      <4>1. status # "done" /\ status' = status
        BY <3>1 DEF Clear, Insert, Vector, row, RunningIsUnfinished, Critical, Pipeline
      <4> QED
        BY <4>1 DEF DoneInPlace
    <3>2. CASE Set(w) /\ UpdateStatusVersionUnless(job[w].ver, StageStatus(stage[w]))
      <4>1. chunks' = chunks /\ version' = version /\ version = job[w].ver
        BY <3>2 DEF Set, UpdateStatusVersionUnless, Advanceable, Current
      <4>2. CASE stage[w] = "done"
        <5>1. chunks = Vectored(job[w].ver, Batches)
          BY <3>2, <4>2 DEF Set, InPlace, InStage
        <5> QED
          BY <4>1, <5>1 DEF DoneInPlace, Vectored
      <4>3. CASE stage[w] # "done"
        BY <3>2, <4>3 DEF UpdateStatusVersionUnless, StageStatus, DoneInPlace
      <4> QED
        BY <4>2, <4>3
    <3>3. CASE Set(w) /\ UNCHANGED row
      BY <1>2, <3>3 DEF Set, row
    <3>4. CASE Record(w) \/ NoteError(w) \/ MarkCancelled(w)
      BY <1>2, <3>4 DEF Record, NoteError, MarkCancelled, RecordParseAttempt, UpdateStatusVersion, row
    <3>5. CASE TryLock(w) \/ Load(w) \/ Reload(w) \/ Precheck(w) \/ Resolve(w) \/ Guard(w) \/ Fetch(w) \/ Build(w) \/ Embed(w) \/ Recheck(w)
      BY <1>2, <3>5 DEF TryLock, Load, Reload, Precheck, Resolve, Guard, Fetch, Build, Embed, Recheck,
         store, row
    <3>6. Set(w) => UNCHANGED row \/ UpdateStatusVersionUnless(job[w].ver, StageStatus(stage[w]))
      BY DEF Set
    <3> QED
      BY <1>3, <3>1, <3>2, <3>3, <3>4, <3>5, <3>6 DEF HandlerStep
  <2> QED
    BY <2>2, <2>3, <2>4
<1>4. ASSUME NEW w \in Workers, ConsumerStep(w) PROVE ChunksInPlace' /\ DoneInPlace'
  <2>1. DoneInPlace'
    BY <1>2, <1>4 DEF ConsumerStep, Receive, Ack, Republish, RecordFinal, MarkFailed, Reject,
       store, row, RecordParseAttempt, UpdateStatusVersion
  <2>2. chunks' = chunks
    BY <1>4 DEF ConsumerStep, Receive, Ack, Republish, RecordFinal, MarkFailed, Reject, store
  <2>3. pc'[w] \notin Building
    BY <1>4 DEF ConsumerStep, Receive, Ack, Republish, RecordFinal, MarkFailed, Reject, Continue,
       BecomeIdle, Goto, Building, TypeOK, WorkerTypeOK
  <2>4. ASSUME NEW u \in Workers, u # w
        PROVE  pc'[u] = pc[u] /\ job'[u] = job[u] /\ stage'[u] = stage[u] /\ batch'[u] = batch[u]
    BY <1>4, <2>4 DEF ConsumerStep, Receive, Ack, Republish, RecordFinal, MarkFailed, Reject,
       Continue, BecomeIdle, Goto, TypeOK, WorkerTypeOK
  <2>5. InPlace(w)'
    BY <2>3 DEF InPlace, InStage, Building
  <2> QED
    BY <2>1, <2>2, <2>4, <2>5, InPlaceStays
<1>5. ASSUME NEW w \in Workers, Disturb(w) PROVE ChunksInPlace' /\ DoneInPlace'
  <2>1. DoneInPlace'
    BY <1>2, <1>5 DEF Disturb, Watch, WorkerFault, ChannelCloses, Crash, LockConnectionDrops, store, row
  <2>2. chunks' = chunks
    BY <1>5 DEF Disturb, Watch, WorkerFault, ChannelCloses, Crash, LockConnectionDrops, store
  <2>3. ASSUME NEW u \in Workers
        PROVE  \/ pc'[u] = pc[u] /\ job'[u] = job[u] /\ stage'[u] = stage[u] /\ batch'[u] = batch[u]
               \/ pc'[u] = "idle"
    BY <1>5 DEF Disturb, Watch, WorkerFault, ChannelCloses, Crash, LockConnectionDrops, Goto,
       TypeOK, WorkerTypeOK
  <2>4. ASSUME NEW u \in Workers, pc'[u] = "idle" PROVE InPlace(u)'
    BY <2>4 DEF InPlace, InStage
  <2> QED
    BY <2>1, <2>2, <2>3, <2>4, InPlaceStays
<1>6. ASSUME UNCHANGED workers, chunks' = chunks,
             status' = "done" => status = "done" /\ version' = version
      PROVE  ChunksInPlace' /\ DoneInPlace'
  BY <1>2, <1>6, InPlaceStays DEF workers
<1>7. CASE Users
  <2>1. UNCHANGED workers
    BY <1>7 DEF Users
  <2>2. chunks' = chunks
    BY <1>7 DEF Untouched, Users, ServiceStep, Register, StopReads, StopWrites, TriggerReads,
       TriggerWrites, DeleteStarts, DeleteChunks, DeleteObject, DeleteFinishes, DeleteFails
  <2>3. status' = "done" => status = "done" /\ version' = version
    BY <1>7 DEF Users, ServiceStep, Register, StopReads, StopWrites, TriggerReads, TriggerWrites,
       DeleteStarts, DeleteChunks, DeleteObject, DeleteFinishes, DeleteFails, CreateRow,
       UpdateStatus, DeleteRow, ResetForParse, row
  <2> QED
    BY <1>6, <2>1, <2>2, <2>3
<1>8. CASE UNCHANGED <<workers, row, chunks>>
  BY <1>6, <1>8 DEF row
<1> QED
  BY <1>3, <1>4, <1>5, <1>7, <1>8 DEF Next, Work, WorkerStep, Relay, Expire, Elsewhere, vars, world

\* Init, and every step, keep the whole inductive invariant.
THEOREM PipelineInvariance ==
  ASSUME "conn" \notin FaultKinds
  PROVE  SafeSpec => []PipelineInvariant
<1>1. Init => PipelineInvariant
  <2> SUFFICES ASSUME Init PROVE PipelineInvariant
    OBVIOUS
  <2>1. LockHeld /\ StagesInOrder /\ RunningIsUnfinished
    BY DEF Init, WorkerInit, LockHeld, StagesInOrder, RunningIsUnfinished, Critical, Pipeline
  <2>2. ChunksInPlace /\ DoneInPlace
    BY DEF Init, WorkerInit, RowInit, ChunksInPlace, InPlace, InStage, DoneInPlace
  <2> QED
    BY <2>1, <2>2, InitTypes DEF PipelineInvariant, TypeInvariant
<1>2. PipelineInvariant /\ [Next]_vars => PipelineInvariant'
  <2> SUFFICES ASSUME PipelineInvariant, [Next]_vars PROVE PipelineInvariant'
    OBVIOUS
  <2>1. TypeOK' /\ Triggerable' /\ RetriesLeft'
    BY TypesStep DEF PipelineInvariant, TypeInvariant
  <2>2. LockHeld' /\ StagesInOrder' /\ RunningIsUnfinished'
    BY LockStep, StagesStep, UnfinishedStep DEF PipelineInvariant
  <2>3. Untouched' => ChunksInPlace' /\ DoneInPlace'
    BY ChunksStep
  <2> QED
    BY <2>1, <2>2, <2>3 DEF PipelineInvariant
<1> QED
  BY <1>1, <1>2, PTL DEF SafeSpec

\* A document that is done, and that no Delete has begun to take apart, has
\* exactly the chunks of its current version, each with its vector, whatever
\* was interrupted, repeated or delayed before.
THEOREM DoneIsComplete ==
  ASSUME "conn" \notin FaultKinds
  PROVE  SafeSpec => []DoneComplete
<1>1. PipelineInvariant => DoneComplete
  <2> SUFFICES ASSUME PipelineInvariant, Live, status = "done", deleting = "none"
               PROVE  chunks = ChunksOf(version, TRUE)
    BY DEF DoneComplete
  <2>1. chunks = Vectored(version, Batches)
    BY DEF PipelineInvariant, Untouched, DoneInPlace, Live
  <2>2. version \in Versions
    BY DEF PipelineInvariant, TypeOK, RowTypeOK
  <2> QED
    BY <2>1, <2>2, VectoredEnds
<1> QED
  BY <1>1, PipelineInvariance, PTL

-----------------------------------------------------------------------------
(* What the dead-letter queue says of a document, whatever fails.          *)

InBroker(m) == main[m] > 0 \/ retry[m] > 0 \/ m \in dead

InHand(w) == owned[w] \/ pc[w] # "idle"

\* No event, message or job is ahead of the row's version.
NotAhead ==
  /\ \A v \in recorded : v <= version
  /\ \A m \in Message : InBroker(m) => m.ver <= version
  /\ \A w \in Workers : job[w].ver <= version

\* Before the document is registered there is nothing to do for it.
NothingYet ==
  docState = "new" =>
    /\ recorded = {}
    /\ \A m \in Message : ~InBroker(m)
    /\ \A w \in Workers : ~InHand(w)

\* A worker that has passed the first statement of the terminal handler has its
\* attempt on the row.
FinalAccounted ==
  \A w \in Workers :
    pc[w] \in {"fail", "reject"} /\ Live /\ job[w].ver = version => attempts >= job[w].att

DeadInvariant == TypeInvariant /\ NotAhead /\ NothingYet /\ FinalAccounted /\ DeadIsAccounted

\* A queue that has gained a message has gained the one that was put.
LEMMA PutOne ==
  ASSUME NEW q \in [Message -> Nat], NEW m \in Message, NEW n \in Message
  PROVE  /\ Put(q, m)[n] > 0 => n = m \/ q[n] > 0
         /\ q[m] > 0 /\ Take(q, m)[n] > 0 => q[n] > 0
BY DEF Put, Take

\* A message in the broker was there before, or a worker had it in hand, or its
\* version's event had been recorded.
LEMMA Sources ==
  ASSUME TypeInvariant, [Next]_vars, NEW m \in Message, InBroker(m)'
  PROVE  \/ InBroker(m)
         \/ \E w \in Workers : InHand(w) /\ m.ver = job[w].ver
         \/ m.ver \in recorded
<1> USE DEF TypeInvariant, TypeOK, QueueTypeOK, InBroker
<1> DEFINE Source == \/ InBroker(m)
                     \/ \E w \in Workers : InHand(w) /\ m.ver = job[w].ver
                     \/ m.ver \in recorded
<1>1. ASSUME UNCHANGED broker PROVE Source
  BY <1>1 DEF broker
<1>2. ASSUME NEW w \in Workers PROVE job[w] \in Message
  BY DEF WorkerTypeOK
<1>3. ASSUME NEW w \in Workers, Requeue(w), UNCHANGED <<retry, dead>>, InHand(w) PROVE Source
  BY <1>2, <1>3, PutOne DEF Requeue
<1>4. ASSUME NEW w \in Workers, HandlerStep(w) PROVE Source
  BY <1>1, <1>4, HandlerTables DEF queues
<1>5. ASSUME NEW w \in Workers, ConsumerStep(w) PROVE Source
  <2>1. CASE Receive(w)
    BY <2>1, PutOne DEF Receive
  <2>2. CASE Ack(w)
    BY <1>1, <2>2 DEF Ack, queues
  <2>3. CASE Republish(w)
    <3>1. RetryMessage(w) \in Message /\ RetryMessage(w).ver = job[w].ver
      <4>1. pc[w] = "republish" => ~Exhausted(job[w])
        BY DEF RetriesLeft
      <4>2. NextAttempt(job[w]).ver = job[w].ver
        BY <1>2 DEF NextAttempt, Message
      <4> QED
        BY <1>2, <2>3, <4>1, <4>2, NextAttemptType DEF Republish, RetryMessage
    <3>2. InHand(w)
      BY <2>3 DEF Republish, InHand
    <3>3. retry'[m] > 0 => retry[m] > 0 \/ m = RetryMessage(w)
      BY <2>3, <3>1, PutOne DEF Republish
    <3>4. main'[m] > 0 => main[m] > 0 \/ m = job[w]
      BY <1>2, <2>3, PutOne DEF Republish, Requeue
    <3> QED
      BY <2>3, <3>1, <3>2, <3>3, <3>4 DEF Republish
  <2>4. CASE RecordFinal(w) \/ MarkFailed(w)
    BY <1>3, <2>4 DEF RecordFinal, MarkFailed, InHand
  <2>5. CASE Reject(w)
    BY <2>5 DEF Reject, InHand
  <2> QED
    BY <1>5, <2>1, <2>2, <2>3, <2>4, <2>5 DEF ConsumerStep
<1>6. ASSUME NEW w \in Workers, Disturb(w) PROVE Source
  BY <1>1, <1>3, <1>6 DEF Disturb, Watch, WorkerFault, ChannelCloses, Crash, LockConnectionDrops,
     queues, InHand
<1>7. ASSUME NEW v \in Versions, Relay(v) PROVE Source
  <2>1. FirstMessage(v) \in Message /\ FirstMessage(v).ver = v /\ v \in recorded
    BY <1>7 DEF FirstMessage, Message, Relay, RelayDelivers, Outbox!Deliver
  <2> QED
    BY <1>7, <2>1, PutOne DEF Relay, RelayDelivers
<1>8. ASSUME NEW n \in Message, Expire(n) PROVE Source
  BY <1>8, PutOne DEF Expire, RetryExpires
<1>9. CASE Users
  BY <1>1, <1>9 DEF Users, ServiceStep, Register, StopReads, StopWrites, TriggerReads,
     TriggerWrites, DeleteStarts, DeleteChunks, DeleteObject, DeleteFinishes, DeleteFails, queues
<1>10. CASE UNCHANGED vars
  BY <1>1, <1>10 DEF vars, world, queues
<1> QED
  BY <1>4, <1>5, <1>6, <1>7, <1>8, <1>9, <1>10 DEF Next, Work, WorkerStep

\* A job is kept, given up, or taken from the main queue, and only a message
\* puts an idle worker to work.
LEMMA Jobs ==
  ASSUME TypeOK, [Next]_vars, NEW w \in Workers
  PROVE  /\ \/ job'[w] \in {job[w], NoJob}
            \/ job'[w] \in Message /\ InBroker(job'[w])
         /\ InHand(w)' => InHand(w) \/ \E m \in Message : InBroker(m)
<1> USE DEF TypeOK, WorkerTypeOK, InHand
<1>1. ASSUME UNCHANGED <<pc, job, owned>>
      PROVE  job'[w] = job[w] /\ (InHand(w)' => InHand(w))
  BY <1>1
<1>2. ASSUME NEW u \in Workers, HandlerStep(u)
      PROVE  job'[w] = job[w] /\ (InHand(w)' => InHand(w))
  <2>1. pc[u] # "idle"
    BY <1>2 DEF HandlerStep, TryLock, Load, Record, Reload, Precheck, Resolve, Guard, Set, Fetch,
       Clear, Build, Insert, Embed, Recheck, Vector, MarkCancelled, NoteError
  <2>2. job' = job /\ owned' = owned /\ \E p : pc' = [pc EXCEPT ![u] = p]
    BY <1>2, HandlerMoves DEF Moves, Continue, Return, Enter, Locks, NextBatch, Goto
  <2> QED
    BY <2>1, <2>2
<1>3. ASSUME NEW u \in Workers, Receive(u)
      PROVE  /\ \/ job'[w] = job[w]
                \/ job'[w] \in Message /\ InBroker(job'[w])
             /\ \E m \in Message : InBroker(m)
  BY <1>3 DEF Receive, InBroker
<1>4. ASSUME NEW u \in Workers, ConsumerStep(u), ~Receive(u)
      PROVE  job'[w] \in {job[w], NoJob} /\ (InHand(w)' => InHand(w))
  BY <1>4 DEF ConsumerStep, Ack, Republish, RecordFinal, MarkFailed, Reject, BecomeIdle, Continue, Goto
<1>5. ASSUME NEW u \in Workers, Disturb(u)
      PROVE  job'[w] \in {job[w], NoJob} /\ (InHand(w)' => InHand(w))
  BY <1>5 DEF Disturb, Watch, WorkerFault, ChannelCloses, Crash, LockConnectionDrops, Goto
<1> QED
  BY <1>1, <1>2, <1>3, <1>4, <1>5 DEF Next, Users, Work, WorkerStep, Relay, Expire, Elsewhere,
     vars, workers

\* Events are recorded when the document is registered and for the version a
\* trigger starts.
LEMMA Events ==
  ASSUME TypeOK, [Next]_vars
  PROVE  \/ recorded' = recorded
         \/ docState' = "live" /\ recorded' = recorded \cup {version'}
<1>1. CASE Users
  BY <1>1 DEF Users, ServiceStep, Register, StopReads, StopWrites, TriggerReads, TriggerWrites,
     DeleteStarts, DeleteChunks, DeleteObject, DeleteFinishes, DeleteFails, CreateRow,
     ResetForParse, Live, queues, Outbox!Record
<1>2. ASSUME NEW w \in Workers, HandlerStep(w) PROVE recorded' = recorded
  BY <1>2, HandlerTables DEF queues
<1>3. ASSUME NEW w \in Workers, ConsumerStep(w) PROVE recorded' = recorded
  BY <1>3 DEF ConsumerStep, Receive, Ack, Republish, RecordFinal, MarkFailed, Reject, queues
<1>4. ASSUME NEW w \in Workers, Disturb(w) PROVE recorded' = recorded
  BY <1>4 DEF Disturb, Watch, WorkerFault, ChannelCloses, Crash, LockConnectionDrops, queues
<1>5. ASSUME NEW v \in Versions, Relay(v) PROVE recorded' = recorded
  BY <1>5 DEF Relay, RelayDelivers, Outbox!Deliver
<1>6. ASSUME NEW m \in Message, Expire(m) PROVE recorded' = recorded
  BY <1>6 DEF Expire, RetryExpires
<1> QED
  BY <1>1, <1>2, <1>3, <1>4, <1>5, <1>6 DEF Next, Work, WorkerStep, vars, world, queues

\* Nothing gets ahead of the row's version.
LEMMA AheadStep ==
  ASSUME TypeInvariant, NotAhead, [Next]_vars
  PROVE  NotAhead'
<1>1. version \in 1..MaxVersion /\ version' \in Nat /\ version' >= version
  BY RowStep DEF TypeInvariant, TypeOK, RowTypeOK, Versions
<1>2. \A v \in recorded' : v <= version'
  <2>1. \A v \in recorded : v \in Nat /\ v <= version
    BY DEF NotAhead, TypeInvariant, TypeOK, QueueTypeOK, Versions
  <2> QED
    BY <1>1, <2>1, Events DEF TypeInvariant
<1>3. ASSUME NEW m \in Message, InBroker(m)' PROVE m.ver <= version'
  <2>1. m.ver \in Nat
    BY DEF Message, Versions
  <2>2. m.ver <= version
    BY <1>3, Sources DEF NotAhead
  <2> QED
    BY <1>1, <2>1, <2>2
<1>4. ASSUME NEW w \in Workers PROVE job'[w].ver <= version'
  <2>1. job[w].ver \in Nat /\ job[w].ver <= version
    BY DEF NotAhead, TypeInvariant, TypeOK, WorkerTypeOK, Message, Versions
  <2>2. ASSUME NEW m \in Message, InBroker(m) PROVE m.ver \in Nat /\ m.ver <= version
    BY <2>2 DEF NotAhead, Message, Versions
  <2>3. NoJob.ver = 1
    BY DEF NoJob, FirstMessage
  <2>4. job'[w].ver \in Nat /\ job'[w].ver <= version
    BY <1>1, <2>1, <2>2, <2>3, Jobs DEF TypeInvariant
  <2> QED
    BY <1>1, <2>4
<1> QED
  BY <1>2, <1>3, <1>4 DEF NotAhead

\* Nothing is to be done before the document is registered.
LEMMA NothingStep ==
  ASSUME TypeInvariant, NothingYet, [Next]_vars
  PROVE  NothingYet'
<1> SUFFICES ASSUME docState' = "new"
             PROVE  /\ recorded' = {}
                    /\ \A m \in Message : ~InBroker(m)'
                    /\ \A w \in Workers : ~InHand(w)'
  BY DEF NothingYet
<1>1. docState = "new"
  BY RowStep DEF TypeInvariant
<1>2. recorded = {} /\ (\A m \in Message : ~InBroker(m)) /\ (\A w \in Workers : ~InHand(w))
  BY <1>1 DEF NothingYet
<1>3. recorded' = {}
  BY <1>2, Events DEF TypeInvariant
<1> QED
  BY <1>2, <1>3, Sources, Jobs DEF TypeInvariant

\* What is on the row stays there: an attempt that is accounted for in the
\* current version is so after every step, for a message of that version.
LEMMA AccountStays ==
  ASSUME TypeInvariant, [Next]_vars, NEW m \in Message, m.ver <= version,
         docState # "new", Live /\ m.ver = version => attempts >= m.att,
         Live', m.ver = version'
  PROVE  attempts' >= m.att
<1>1. version \in Nat /\ attempts \in Nat /\ m.att \in Nat
  BY DEF TypeInvariant, TypeOK, RowTypeOK, Versions, Message
<1>2. version' = version /\ attempts' >= attempts /\ docState = "live"
  BY <1>1, RowStep DEF TypeInvariant, Live
<1>3. attempts' \in Nat
  BY TypesStep DEF TypeInvariant, TypeOK, RowTypeOK
<1> QED
  BY <1>1, <1>2, <1>3 DEF Live

\* The first statement of the terminal handler records the attempt, and a later
\* step does not take it back.
LEMMA FinalStep ==
  ASSUME TypeInvariant, NotAhead, NothingYet, FinalAccounted, [Next]_vars
  PROVE  FinalAccounted'
<1> SUFFICES ASSUME NEW w \in Workers, pc'[w] \in {"fail", "reject"}, Live', job'[w].ver = version'
             PROVE  attempts' >= job'[w].att
  BY DEF FinalAccounted
<1>1. job[w] \in Message /\ job[w].ver <= version
  BY DEF TypeInvariant, TypeOK, WorkerTypeOK, NotAhead
<1>2. ASSUME job'[w] = job[w], pc[w] \in {"fail", "reject"} PROVE attempts' >= job'[w].att
  <2>1. docState # "new"
    BY <1>2 DEF NothingYet, InHand
  <2>2. Live /\ job[w].ver = version => attempts >= job[w].att
    BY <1>2 DEF FinalAccounted
  <2> QED
    BY <1>1, <1>2, <2>1, <2>2, AccountStays
<1>3. ASSUME RecordFinal(w), pc'[w] = "fail" PROVE attempts' >= job'[w].att
  <2>1. pc[w] = "final" /\ RecordParseAttempt(job[w].ver, job[w].att) /\ job'[w] = job[w]
    BY <1>3 DEF RecordFinal, BecomeIdle, Goto, Continue, TypeInvariant, TypeOK, WorkerTypeOK
  <2>2. Current(job[w].ver)
    BY <2>1 DEF RecordParseAttempt, Current, Live
  <2>3. attempts \in Nat /\ job[w].att \in Nat
    BY <1>1 DEF TypeInvariant, TypeOK, RowTypeOK, Message
  <2> QED
    BY <2>1, <2>2, <2>3 DEF RecordParseAttempt, Greatest
<1>4. \/ job'[w] = job[w] /\ pc[w] \in {"fail", "reject"}
      \/ RecordFinal(w) /\ pc'[w] = "fail"
  <2> USE DEF TypeInvariant, TypeOK, WorkerTypeOK, Goto
  <2>1. ASSUME NEW u \in Workers, HandlerStep(u)
        PROVE  job'[w] = job[w] /\ pc[w] \in {"fail", "reject"}
    BY <2>1, HandlerMoves DEF Moves, Continue, Return, Enter, Locks, NextBatch
  <2>2. ASSUME NEW u \in Workers, ConsumerStep(u)
        PROVE  \/ job'[w] = job[w] /\ pc[w] \in {"fail", "reject"}
               \/ RecordFinal(w) /\ pc'[w] = "fail"
    <3>1. CASE Receive(u) \/ Ack(u) \/ Republish(u) \/ Reject(u)
      BY <3>1 DEF Receive, Ack, Republish, Reject, BecomeIdle, Continue
    <3>2. CASE MarkFailed(u)
      BY <3>2 DEF MarkFailed, BecomeIdle, Continue
    <3>3. CASE RecordFinal(u)
      <4>1. CASE u = w
        <5>1. pc'[w] \in {"fail", "idle"}
          BY <3>3, <4>1 DEF RecordFinal, BecomeIdle, Continue
        <5> QED
          BY <3>3, <4>1, <5>1
      <4>2. CASE u # w
        BY <3>3, <4>2 DEF RecordFinal, BecomeIdle, Continue
      <4> QED
        BY <4>1, <4>2
    <3> QED
      BY <2>2, <3>1, <3>2, <3>3 DEF ConsumerStep
  <2>3. ASSUME NEW u \in Workers, Disturb(u)
        PROVE  job'[w] = job[w] /\ pc[w] \in {"fail", "reject"}
    BY <2>3 DEF Disturb, Watch, WorkerFault, ChannelCloses, Crash, LockConnectionDrops
  <2>4. ASSUME UNCHANGED workers PROVE job'[w] = job[w] /\ pc[w] \in {"fail", "reject"}
    BY <2>4 DEF workers
  <2> QED
    BY <2>1, <2>2, <2>3, <2>4 DEF Next, Users, Work, WorkerStep, Relay, Expire, Elsewhere, vars
<1> QED
  BY <1>2, <1>3, <1>4

\* A message is dead-lettered by a worker that has its attempt on the row.
LEMMA DeadStep ==
  ASSUME TypeInvariant, NotAhead, NothingYet, FinalAccounted, DeadIsAccounted, [Next]_vars
  PROVE  DeadIsAccounted'
<1> SUFFICES ASSUME NEW m \in dead', Live', m.ver = version' PROVE attempts' >= m.att
  BY DEF DeadIsAccounted
<1>1. CASE m \in dead
  <2>1. m \in Message
    BY <1>1 DEF TypeInvariant, TypeOK, QueueTypeOK
  <2>2. m.ver <= version /\ docState # "new"
    BY <1>1, <2>1 DEF NotAhead, NothingYet, InBroker
  <2>3. Live /\ m.ver = version => attempts >= m.att
    BY <1>1 DEF DeadIsAccounted
  <2> QED
    BY <2>1, <2>2, <2>3, AccountStays
<1>2. CASE \E w \in Workers : Reject(w) /\ m = job[w]
  <2>1. PICK w \in Workers : Reject(w) /\ m = job[w]
    BY <1>2
  <2>2. m \in Message /\ m.ver <= version /\ docState # "new"
    BY <2>1 DEF Reject, TypeInvariant, TypeOK, WorkerTypeOK, NotAhead, NothingYet, InHand
  <2>3. Live /\ m.ver = version => attempts >= m.att
    BY <2>1 DEF FinalAccounted, Reject
  <2> QED
    BY <2>2, <2>3, AccountStays
<1>3. m \in dead \/ \E w \in Workers : Reject(w) /\ m = job[w]
  <2>1. ASSUME NEW w \in Workers, HandlerStep(w) PROVE dead' = dead
    BY <2>1, HandlerTables DEF queues, broker, TypeInvariant
  <2>2. ASSUME NEW w \in Workers, ConsumerStep(w) PROVE dead' = dead \/ Reject(w)
    BY <2>2 DEF ConsumerStep, Receive, Ack, Republish, RecordFinal, MarkFailed, queues, broker
  <2>3. ASSUME NEW w \in Workers, Disturb(w) PROVE dead' = dead
    BY <2>3 DEF Disturb, Watch, WorkerFault, ChannelCloses, Crash, LockConnectionDrops, queues, broker
  <2>4. CASE Users
    BY <2>4 DEF Users, ServiceStep, Register, StopReads, StopWrites, TriggerReads, TriggerWrites,
       DeleteStarts, DeleteChunks, DeleteObject, DeleteFinishes, DeleteFails, queues, broker
  <2>5. ASSUME NEW w \in Workers, Reject(w) PROVE m \in dead \/ m = job[w]
    BY <2>5 DEF Reject
  <2>6. CASE (\E v \in Versions : Relay(v)) \/ (\E n \in Message : Expire(n)) \/ UNCHANGED vars
    BY <2>6 DEF Relay, RelayDelivers, Expire, RetryExpires, vars, world, queues, broker
  <2> QED
    BY <2>1, <2>2, <2>3, <2>4, <2>5, <2>6 DEF Next, Work, WorkerStep
<1> QED
  BY <1>1, <1>2, <1>3

\* A message in the dead-letter queue has its attempt on the row of its version,
\* whichever statements fail and whoever crashes in between.
THEOREM DeadLettersAccounted == SafeSpec => []DeadIsAccounted
<1>1. Init => DeadInvariant
  <2> SUFFICES ASSUME Init PROVE DeadInvariant
    OBVIOUS
  <2> USE DEF Init, QueueInit, WorkerInit, RowInit, Outbox!Init
  <2>1. NotAhead
    BY DEF NotAhead, InBroker, NoJob, FirstMessage
  <2>2. NothingYet /\ FinalAccounted /\ DeadIsAccounted
    BY DEF NothingYet, InBroker, InHand, FinalAccounted, DeadIsAccounted
  <2> QED
    BY <2>1, <2>2, InitTypes DEF DeadInvariant
<1>2. DeadInvariant /\ [Next]_vars => DeadInvariant'
  BY TypesStep, AheadStep, NothingStep, FinalStep, DeadStep DEF DeadInvariant
<1>3. DeadInvariant => DeadIsAccounted
  BY DEF DeadInvariant
<1> QED
  BY <1>1, <1>2, <1>3, PTL DEF SafeSpec

-----------------------------------------------------------------------------
(* The task of a busy document.                                            *)

\* What a worker that has lost its delivery may still meet: nothing that would
\* make it give up its task, when channels close at all.
TaskFaults ==
  "channel" \notin FaultKinds \/ FaultKinds \cap {"db", "publish", "crash"} = {}

\* While channels do not close, a worker owns the delivery it handles.
OwnedInHand == "channel" \notin FaultKinds => \A w \in Workers : pc[w] # "idle" => owned[w]

\* Only recorded events are delivered.
CopiesRecorded == \A v \in Versions : copies[v] # 0 => v \in recorded

\* The three places the task of version v may be at.
EventWaits(v) == v \in recorded /\ copies[v] = 0
Queued(v) == \E m \in Message : m.ver = v /\ main[m] + retry[m] > 0
AtWork(w) == pc[w] \notin {"idle", "ack", "reject"}

TaskInvariant ==
  TypeInvariant /\ NotAhead /\ NothingYet /\ OwnedInHand /\ CopiesRecorded /\ BusyHasTask

\* A message in one of the queues.
LEMMA QueuedBy ==
  ASSUME QueueTypeOK
  PROVE  \A v \in Versions :
           Queued(v) <=> \E m \in Message : m.ver = v /\ (main[m] > 0 \/ retry[m] > 0)
<1>1. ASSUME NEW m \in Message
      PROVE  main[m] + retry[m] > 0 <=> main[m] > 0 \/ retry[m] > 0
  <2>1. main[m] \in Nat /\ retry[m] \in Nat
    BY DEF QueueTypeOK
  <2>2. \A a, b \in Nat : a + b > 0 <=> a > 0 \/ b > 0
    OBVIOUS
  <2> QED
    BY <2>1, <2>2
<1> QED
  BY <1>1 DEF Queued

\* A message that is put is there, and no other goes.
LEMMA PutThere ==
  ASSUME NEW q \in [Message -> Nat], NEW m \in Message
  PROVE  /\ Put(q, m)[m] > 0 /\ \A n \in Message : q[n] > 0 => Put(q, m)[n] > 0
         /\ \A n \in Message \ {m} : q[n] > 0 => Take(q, m)[n] > 0
BY DEF Put, Take

\* Deliveries stay owned while channels do not close.
LEMMA OwnedStep ==
  ASSUME TypeOK, OwnedInHand, [Next]_vars
  PROVE  OwnedInHand'
<1> SUFFICES ASSUME "channel" \notin FaultKinds, NEW w \in Workers, pc'[w] # "idle" PROVE owned'[w]
  BY DEF OwnedInHand
<1> USE DEF TypeOK, WorkerTypeOK
<1>1. pc[w] # "idle" => owned[w]
  BY DEF OwnedInHand
<1>2. ASSUME NEW u \in Workers, HandlerStep(u) PROVE owned'[w]
  <2>1. pc[u] # "idle"
    BY <1>2 DEF HandlerStep, TryLock, Load, Record, Reload, Precheck, Resolve, Guard, Set, Fetch,
       Clear, Build, Insert, Embed, Recheck, Vector, MarkCancelled, NoteError
  <2>2. owned' = owned /\ \E p : pc' = [pc EXCEPT ![u] = p]
    BY <1>2, HandlerMoves DEF Moves, Continue, Return, Enter, Locks, NextBatch, Goto
  <2> QED
    BY <1>1, <2>1, <2>2
<1>3. ASSUME NEW u \in Workers, ConsumerStep(u) PROVE owned'[w]
  BY <1>1, <1>3 DEF ConsumerStep, Receive, Ack, Republish, RecordFinal, MarkFailed, Reject,
     BecomeIdle, Continue, Goto
<1>4. ASSUME NEW u \in Workers, Disturb(u) PROVE owned'[w]
  BY <1>1, <1>4 DEF Disturb, Watch, WorkerFault, ChannelCloses, Crash, LockConnectionDrops, Goto, Fault
<1>5. ASSUME UNCHANGED workers PROVE owned'[w]
  BY <1>1, <1>5 DEF workers
<1> QED
  BY <1>2, <1>3, <1>4, <1>5 DEF Next, Users, Work, WorkerStep, Relay, Expire, Elsewhere, vars

\* Events are delivered once they are recorded.
LEMMA CopiesStep ==
  ASSUME TypeOK, CopiesRecorded, [Next]_vars
  PROVE  CopiesRecorded'
<1> USE DEF CopiesRecorded
<1>1. ASSUME copies' = copies PROVE CopiesRecorded'
  BY <1>1, Events
<1>2. ASSUME NEW w \in Workers, HandlerStep(w) PROVE copies' = copies
  BY <1>2, HandlerTables DEF queues
<1>3. ASSUME NEW w \in Workers, ConsumerStep(w) PROVE copies' = copies
  BY <1>3 DEF ConsumerStep, Receive, Ack, Republish, RecordFinal, MarkFailed, Reject, queues
<1>4. ASSUME NEW w \in Workers, Disturb(w) PROVE copies' = copies
  BY <1>4 DEF Disturb, Watch, WorkerFault, ChannelCloses, Crash, LockConnectionDrops, queues
<1>5. ASSUME Users PROVE copies' = copies
  BY <1>5 DEF Users, ServiceStep, Register, StopReads, StopWrites, TriggerReads, TriggerWrites,
     DeleteStarts, DeleteChunks, DeleteObject, DeleteFinishes, DeleteFails, queues, Outbox!Record
<1>6. ASSUME NEW v \in Versions, Relay(v) PROVE CopiesRecorded'
  BY <1>6 DEF Relay, RelayDelivers, Outbox!Deliver, TypeOK, QueueTypeOK
<1>7. ASSUME NEW m \in Message, Expire(m) PROVE copies' = copies
  BY <1>7 DEF Expire, RetryExpires
<1>8. ASSUME UNCHANGED vars PROVE copies' = copies
  BY <1>8 DEF vars, world, queues
<1> QED
  BY <1>1, <1>2, <1>3, <1>4, <1>5, <1>6, <1>7, <1>8 DEF Next, Work, WorkerStep

\* An event that waits for the relay waits on or is queued.
LEMMA EventStays ==
  ASSUME TypeOK, [Next]_vars, NEW v \in Versions, EventWaits(v)
  PROVE  EventWaits(v)' \/ Queued(v)'
<1> USE DEF EventWaits
<1>1. v \in recorded'
  BY Events
<1>2. ASSUME NEW w \in Workers, HandlerStep(w) PROVE copies' = copies
  BY <1>2, HandlerTables DEF queues
<1>3. ASSUME NEW w \in Workers, ConsumerStep(w) PROVE copies' = copies
  BY <1>3 DEF ConsumerStep, Receive, Ack, Republish, RecordFinal, MarkFailed, Reject, queues
<1>4. ASSUME NEW w \in Workers, Disturb(w) PROVE copies' = copies
  BY <1>4 DEF Disturb, Watch, WorkerFault, ChannelCloses, Crash, LockConnectionDrops, queues
<1>5. ASSUME Users PROVE copies' = copies
  BY <1>5 DEF Users, ServiceStep, Register, StopReads, StopWrites, TriggerReads, TriggerWrites,
     DeleteStarts, DeleteChunks, DeleteObject, DeleteFinishes, DeleteFails, queues, Outbox!Record
<1>6. ASSUME NEW u \in Versions, Relay(u) PROVE copies'[v] = copies[v] \/ Queued(v)'
  <2>1. main' = Put(main, FirstMessage(u)) /\ retry' = retry /\ copies' = [copies EXCEPT ![u] = @ + 1]
    BY <1>6 DEF Relay, RelayDelivers, Outbox!Deliver
  <2>2. CASE u # v
    BY <2>1, <2>2 DEF TypeOK, QueueTypeOK
  <2>3. CASE u = v
    <3>1. FirstMessage(v) \in Message /\ FirstMessage(v).ver = v
      BY TaskAssumption DEF FirstMessage, Message
    <3>2. main'[FirstMessage(v)] = main[FirstMessage(v)] + 1
      BY <2>1, <2>3, <3>1 DEF Put, TypeOK, QueueTypeOK
    <3>3. main[FirstMessage(v)] \in Nat /\ retry'[FirstMessage(v)] \in Nat
      BY <2>1, <3>1 DEF TypeOK, QueueTypeOK
    <3>4. main'[FirstMessage(v)] + retry'[FirstMessage(v)] > 0
      BY <3>2, <3>3
    <3> QED
      BY <3>1, <3>4 DEF Queued
  <2> QED
    BY <2>2, <2>3
<1>7. ASSUME NEW m \in Message, Expire(m) PROVE copies' = copies
  BY <1>7 DEF Expire, RetryExpires
<1>8. ASSUME UNCHANGED vars PROVE copies' = copies
  BY <1>8 DEF vars, world, queues
<1> QED
  BY <1>1, <1>2, <1>3, <1>4, <1>5, <1>6, <1>7, <1>8 DEF Next, Work, WorkerStep

\* A queued message stays in a queue until a worker takes it.
LEMMA QueuedStays ==
  ASSUME TypeInvariant, [Next]_vars, NEW v \in Versions, Queued(v)
  PROVE  Queued(v)' \/ \E w \in Workers : AtWork(w)' /\ job'[w].ver = v
<1> USE DEF TypeInvariant, TypeOK, QueueTypeOK
<1>1. PICK m \in Message : m.ver = v /\ (main[m] > 0 \/ retry[m] > 0)
  BY QueuedBy
<1>2. QueueTypeOK'
  BY TypesStep
<1>3. ASSUME NEW n \in Message, n.ver = v, main'[n] > 0 \/ retry'[n] > 0 PROVE Queued(v)'
  BY <1>2, <1>3, QueuedBy DEF Queued, QueueTypeOK
<1>4. ASSUME main[m] > 0 => main'[m] > 0, retry[m] > 0 => retry'[m] > 0 PROVE Queued(v)'
  BY <1>1, <1>3, <1>4
<1>5. ASSUME UNCHANGED broker PROVE Queued(v)'
  BY <1>4, <1>5 DEF broker
<1>6. \A w \in Workers : job[w] \in Message
  BY DEF WorkerTypeOK
<1>7. ASSUME NEW w \in Workers, Requeue(w), retry' = retry PROVE Queued(v)'
  BY <1>4, <1>6, <1>7, PutThere DEF Requeue
<1>8. ASSUME NEW w \in Workers, HandlerStep(w) PROVE Queued(v)'
  BY <1>5, <1>8, HandlerTables DEF queues
<1>9. ASSUME NEW w \in Workers, Receive(w)
      PROVE  Queued(v)' \/ (AtWork(w)' /\ job'[w].ver = v)
  <2>1. PICK n \in Message : main[n] > 0 /\ main' = Take(main, n) /\ job' = [job EXCEPT ![w] = n]
    BY <1>9 DEF Receive
  <2>2. pc'[w] = "lock" /\ retry' = retry
    BY <1>9 DEF Receive, Goto, WorkerTypeOK
  <2>3. CASE n = m
    <3>1. job'[w] = m
      BY <2>1, <2>3 DEF WorkerTypeOK
    <3> QED
      BY <1>1, <2>2, <3>1 DEF AtWork
  <2>4. CASE n # m
    BY <1>4, <2>1, <2>2, <2>4, PutThere
  <2> QED
    BY <2>3, <2>4
<1>10. ASSUME NEW w \in Workers, Republish(w) PROVE Queued(v)'
  <2>1. main' = main \/ Requeue(w)
    BY <1>10 DEF Republish
  <2>2. RetryMessage(w) \in Message
    <3>1. pc[w] = "republish" => ~Exhausted(job[w])
      BY DEF RetriesLeft
    <3> QED
      BY <1>6, <1>10, <3>1, NextAttemptType DEF Republish, RetryMessage
  <2>3. retry' = retry \/ retry' = Put(retry, RetryMessage(w))
    BY <1>10 DEF Republish
  <2>4. main[m] > 0 => main'[m] > 0
    BY <1>6, <2>1, PutThere DEF Requeue
  <2>5. retry[m] > 0 => retry'[m] > 0
    BY <2>2, <2>3, PutThere
  <2> QED
    BY <1>4, <2>4, <2>5
<1>11. ASSUME NEW w \in Workers, ConsumerStep(w), ~Receive(w), ~Republish(w) PROVE Queued(v)'
  <2>1. retry' = retry /\ (main' = main \/ Requeue(w))
    BY <1>11 DEF ConsumerStep, Ack, RecordFinal, MarkFailed, Reject, queues, broker
  <2> QED
    BY <1>4, <1>7, <2>1
<1>12. ASSUME NEW w \in Workers, Disturb(w) PROVE Queued(v)'
  <2>1. retry' = retry /\ (main' = main \/ Requeue(w))
    BY <1>12 DEF Disturb, Watch, WorkerFault, ChannelCloses, Crash, LockConnectionDrops, queues, broker
  <2> QED
    BY <1>4, <1>7, <2>1
<1>13. ASSUME NEW u \in Versions, Relay(u) PROVE Queued(v)'
  <2>1. FirstMessage(u) \in Message
    BY TaskAssumption DEF FirstMessage, Message
  <2> QED
    BY <1>4, <1>13, <2>1, PutThere DEF Relay, RelayDelivers
<1>14. ASSUME NEW n \in Message, Expire(n) PROVE Queued(v)'
  <2>1. retry' = Take(retry, n) /\ main' = Put(main, n)
    BY <1>14 DEF Expire, RetryExpires
  <2>2. CASE n = m
    BY <1>1, <1>3, <2>1, <2>2, PutThere
  <2>3. CASE n # m
    BY <1>4, <2>1, <2>3, PutThere
  <2> QED
    BY <2>2, <2>3
<1>15. ASSUME Users PROVE Queued(v)'
  BY <1>5, <1>15 DEF Users, ServiceStep, Register, StopReads, StopWrites, TriggerReads,
     TriggerWrites, DeleteStarts, DeleteChunks, DeleteObject, DeleteFinishes, DeleteFails, queues
<1>16. ASSUME UNCHANGED vars PROVE Queued(v)'
  BY <1>5, <1>16 DEF vars, world, queues
<1> QED
  BY <1>8, <1>9, <1>10, <1>11, <1>12, <1>13, <1>14, <1>15, <1>16 DEF Next, Work, WorkerStep

\* A handler ends its task only when the document is not busy with it.
LEMMA HandlerKeepsTask ==
  ASSUME TypeOK, NEW w \in Workers, HandlerStep(w)
  PROVE  /\ job' = job /\ version' = version
         /\ AtWork(w)' \/ ~(Live' /\ Busy(status') /\ job[w].ver = version)
         /\ \A u \in Workers \ {w} : pc'[u] = pc[u]
<1>1. job' = job /\ \E p : pc' = [pc EXCEPT ![w] = p]
  BY HandlerMoves DEF Moves, Continue, Return, Enter, Locks, NextBatch, Goto
<1>2. version' = version
  BY HandlerTables DEF row, RecordParseAttempt, UpdateStatusVersion, UpdateStatusVersionUnless
<1>3. ASSUME NEW q, Goto(w, q) PROVE pc'[w] = q
  BY <1>3 DEF Goto, TypeOK, WorkerTypeOK
<1>4. ASSUME NEW q \in {"final", "republish", "defer", "stopped", "note"} \cup Pipeline \cup {"record"},
             Continue(w, q) \/ Return(w, q)
      PROVE  AtWork(w)'
  <2>1. pc'[w] = q
    BY <1>3, <1>4 DEF Continue, Return
  <2> QED
    BY <2>1 DEF AtWork, Pipeline
<1>5. ASSUME NEW s, Enter(w, s) PROVE AtWork(w)'
  BY <1>3, <1>5 DEF Enter, AtWork
<1>6. ASSUME ReturnError(w) \/ ReturnPermanent(w) \/ Continue(w, AfterError(w)) PROVE AtWork(w)'
  BY <1>4, <1>6, AfterErrorPoint DEF ReturnError, ReturnPermanent
<1>7. ASSUME NEW next \in Pipeline, CheckCancelled(w, next) PROVE AtWork(w)'
  BY <1>4, <1>6, <1>7 DEF CheckCancelled
<1>8. ASSUME NEW kind, CallFails(w, kind) PROVE AtWork(w)'
  BY <1>4, <1>8 DEF CallFails
<1>9. {"resolve", "set", "vector", "fetch", "clear", "build", "insert", "embed", "recheck",
       "reload", "precheck"} \subseteq Pipeline
  BY DEF Pipeline
<1>10. ASSUME TryLock(w) PROVE AtWork(w)'
  BY <1>3, <1>4, <1>6, <1>10 DEF TryLock, AtWork
<1>11. ASSUME Resolve(w) \/ NoteError(w) PROVE AtWork(w)'
  BY <1>5, <1>6, <1>11 DEF Resolve, NoteError
<1>12. ASSUME Precheck(w) \/ Guard(w) \/ Recheck(w) PROVE AtWork(w)'
  BY <1>7, <1>9, <1>12 DEF Precheck, Guard, Recheck
<1>13. ASSUME Fetch(w) \/ Clear(w) \/ Build(w) PROVE AtWork(w)'
  BY <1>4, <1>5, <1>6, <1>8, <1>9, <1>13 DEF Fetch, Clear, Build
<1>14. ASSUME Insert(w) \/ Embed(w) \/ Vector(w) PROVE AtWork(w)'
  BY <1>4, <1>5, <1>8, <1>9, <1>14 DEF Insert, Embed, Vector
<1>15. CASE Load(w)
  <2>1. UNCHANGED row
    BY <1>15 DEF Load, store
  <2>2. ASSUME Continue(w, "record") PROVE AtWork(w)'
    BY <1>4, <2>2
  <2>3. AtWork(w)' \/ (Live /\ ~Worthwhile(w))
    BY <1>6, <1>15, <2>2 DEF Load, Worthwhile, Current
  <2> QED
    BY <1>1, <1>2, <2>1, <2>3 DEF Worthwhile, Current, Live, row, Busy
<1>16. CASE Record(w)
  <2>1. ASSUME Continue(w, "reload") PROVE AtWork(w)'
    BY <1>4, <1>9, <2>1
  <2>2. AtWork(w)' \/ (~Current(job[w].ver) /\ docState' = docState)
    BY <1>6, <1>16, <2>1 DEF Record, RecordParseAttempt, Current, Live
  <2> QED
    BY <1>1, <1>2, <2>2 DEF Current, Live
<1>17. CASE Reload(w)
  <2>1. AtWork(w)' \/ status' = "done"
    BY <1>4, <1>6, <1>9, <1>17 DEF Reload, store, row
  <2> QED
    BY <1>1, <1>2, <2>1 DEF Busy
<1>18. CASE Set(w)
  <2>1. ASSUME AfterStage(w, stage[w]), stage[w] # "done" PROVE AtWork(w)'
    BY <1>3, <1>4, <1>5, <1>9, <2>1 DEF AfterStage, AtWork
  <2>2. AtWork(w)' \/ status' = "done"
    BY <1>4, <1>18, <2>1 DEF Set, UpdateStatusVersionUnless, StageStatus
  <2> QED
    BY <1>1, <1>2, <2>2 DEF Busy
<1>19. CASE MarkCancelled(w)
  <2>1. AtWork(w)' \/ UpdateStatusVersion(job[w].ver, "cancelled", "stopped")
    BY <1>6, <1>19 DEF MarkCancelled
  <2> QED
    BY <1>1, <1>2, <2>1 DEF Busy, UpdateStatusVersion, Current, Live
<1> QED
  BY <1>1, <1>2, <1>10, <1>11, <1>12, <1>13, <1>14, <1>15, <1>16, <1>17, <1>18, <1>19 DEF HandlerStep

\* A worker keeps its task, or hands it back to a queue, or leaves a document
\* that is not busy with it.
LEMMA WorkStays ==
  ASSUME TypeInvariant, OwnedInHand, TaskFaults, [Next]_vars, NEW v \in Versions,
         NEW w \in Workers, AtWork(w), job[w].ver = v
  PROVE  \/ AtWork(w)' /\ job'[w].ver = v
         \/ Queued(v)'
         \/ ~(Live' /\ Busy(status') /\ v = version)
<1> USE DEF TypeInvariant, TypeOK, WorkerTypeOK
<1> DEFINE Goal == \/ AtWork(w)' /\ job'[w].ver = v
                   \/ Queued(v)'
                   \/ ~(Live' /\ Busy(status') /\ v = version)
<1>1. job[w] \in Message
  OBVIOUS
<1>2. QueueTypeOK'
  BY TypesStep
<1>3. ASSUME NEW n \in Message, n.ver = v, main'[n] > 0 \/ retry'[n] > 0 PROVE Goal
  <2>1. main'[n] \in Nat /\ retry'[n] \in Nat
    BY <1>2 DEF QueueTypeOK
  <2>2. main'[n] + retry'[n] > 0
    BY <1>3, <2>1
  <2>3. Queued(v)'
    BY <1>3, <2>2 DEF Queued
  <2> QED
    BY <2>3
<1>4. ASSUME Requeue(w), owned[w] PROVE Goal
  BY <1>1, <1>3, <1>4, PutThere DEF Requeue, QueueTypeOK
<1>5. ASSUME pc'[w] = pc[w], job'[w] = job[w] PROVE Goal
  BY <1>5 DEF AtWork
<1>6. ASSUME NEW k \in {"db", "publish", "crash"}, Fault(k) PROVE owned[w]
  BY <1>6 DEF Fault, TaskFaults, OwnedInHand, AtWork
<1>7. ASSUME NEW u \in Workers, HandlerStep(u) PROVE Goal
  <2>1. CASE u = w
    BY <1>7, <2>1, HandlerKeepsTask
  <2>2. CASE u # w
    BY <1>5, <1>7, <2>2, HandlerKeepsTask
  <2> QED
    BY <2>1, <2>2
<1>8. ASSUME NEW u \in Workers, ConsumerStep(u) PROVE Goal
  <2>1. CASE u # w
    BY <1>5, <1>8, <2>1 DEF ConsumerStep, Receive, Ack, Republish, RecordFinal, MarkFailed, Reject,
       BecomeIdle, Continue, Goto
  <2>2. CASE u = w /\ Republish(w)
    <3>1. CASE retry' = Put(retry, RetryMessage(w)) /\ UNCHANGED main
      <4>1. RetryMessage(w) \in Message /\ RetryMessage(w).ver = v
        <5>1. pc[w] = "republish" => ~Exhausted(job[w])
          BY DEF RetriesLeft
        <5>2. NextAttempt(job[w]).ver = v
          BY <1>1 DEF NextAttempt, Message
        <5> QED
          BY <1>1, <2>2, <5>1, <5>2, NextAttemptType DEF Republish, RetryMessage
      <4> QED
        BY <1>3, <3>1, <4>1, PutThere DEF QueueTypeOK
    <3>2. CASE Fault("publish") /\ Requeue(w)
      BY <1>4, <1>6, <3>2
    <3> QED
      BY <2>2, <3>1, <3>2 DEF Republish
  <2>3. CASE u = w /\ RecordFinal(w)
    <3>1. CASE Fault("db") /\ Requeue(w)
      BY <1>4, <1>6, <3>1
    <3>2. CASE Continue(w, "fail")
      BY <3>2 DEF Continue, Goto, AtWork
    <3> QED
      BY <2>3, <3>1, <3>2 DEF RecordFinal
  <2>4. CASE u = w /\ MarkFailed(w)
    <3>1. CASE Fault("db") /\ Requeue(w)
      BY <1>4, <1>6, <3>1
    <3>2. CASE UpdateStatusVersion(job[w].ver, "failed", "cause")
      BY <3>2 DEF UpdateStatusVersion, Current, Live, Busy
    <3> QED
      BY <2>4, <3>1, <3>2 DEF MarkFailed
  <2> QED
    BY <1>8, <2>1, <2>2, <2>3, <2>4 DEF ConsumerStep, Receive, Ack, Reject, AtWork
<1>9. ASSUME NEW u \in Workers, Disturb(u) PROVE Goal
  <2>1. CASE u = w /\ Crash(w)
    BY <1>4, <1>6, <2>1 DEF Crash
  <2>2. CASE u # w \/ ~Crash(w)
    BY <1>5, <1>9, <2>2 DEF Disturb, Watch, WorkerFault, ChannelCloses, Crash, LockConnectionDrops, Goto
  <2> QED
    BY <2>1, <2>2
<1>10. ASSUME UNCHANGED workers PROVE Goal
  BY <1>5, <1>10 DEF workers
<1> QED
  BY <1>7, <1>8, <1>9, <1>10 DEF Next, Users, Work, WorkerStep, Relay, Expire, Elsewhere, vars

\* A document becomes busy with an event, or by a worker that is at work on it.
LEMMA BusyFrom ==
  ASSUME TypeInvariant, NotAhead, NothingYet, CopiesRecorded, [Next]_vars, Live', Busy(status')
  PROVE  \/ Live /\ Busy(status) /\ version' = version
         \/ version' \in recorded' /\ copies'[version'] = 0
         \/ \E w \in Workers : AtWork(w)' /\ job'[w].ver = version'
<1> USE DEF TypeInvariant, TypeOK
<1> DEFINE Goal == \/ Live /\ Busy(status) /\ version' = version
                   \/ version' \in recorded' /\ copies'[version'] = 0
                   \/ \E w \in Workers : AtWork(w)' /\ job'[w].ver = version'
<1>1. ASSUME UNCHANGED row PROVE Goal
  BY <1>1 DEF row, Live
<1>2. ASSUME docState' = docState, version' = version, status' = status \/ ~Busy(status') PROVE Goal
  BY <1>2 DEF Live
<1>3. ASSUME NEW w \in Workers, HandlerStep(w) PROVE Goal
  <2>1. CASE Set(w)
    <3>1. CASE UpdateStatusVersionUnless(job[w].ver, StageStatus(stage[w]))
      <4>1. version' = version /\ job[w].ver = version /\ Live
        BY <3>1 DEF UpdateStatusVersionUnless, Advanceable, Current
      <4> QED
        BY <1>3, <4>1, HandlerKeepsTask
    <3> QED
      BY <1>1, <2>1, <3>1 DEF Set
  <2>2. CASE ~Set(w)
    BY <1>1, <1>2, <1>3, <2>2 DEF HandlerStep, TryLock, Load, Record, Reload, Precheck, Resolve, Guard,
       Fetch, Clear, Build, Insert, Embed, Recheck, Vector, MarkCancelled, NoteError,
       store, RecordParseAttempt, UpdateStatusVersion, Busy, CallFails
  <2> QED
    BY <2>1, <2>2
<1>4. ASSUME NEW w \in Workers, ConsumerStep(w) PROVE Goal
  BY <1>1, <1>2, <1>4 DEF ConsumerStep, Receive, Ack, Republish, RecordFinal, MarkFailed, Reject,
     store, RecordParseAttempt, UpdateStatusVersion, Busy
<1>5. ASSUME NEW w \in Workers, Disturb(w) PROVE Goal
  BY <1>1, <1>5 DEF Disturb, Watch, WorkerFault, ChannelCloses, Crash, LockConnectionDrops, store
<1>6. CASE Users
  <2>1. CASE Register
    <3>1. version' = version /\ recorded' = recorded \cup {version} /\ copies' = copies /\ recorded = {}
      BY <2>1 DEF Register, CreateRow, Outbox!Record, NothingYet
    <3>2. version \in Versions
      BY DEF RowTypeOK
    <3>3. copies[version] = 0
      BY <3>1, <3>2 DEF CopiesRecorded
    <3> QED
      BY <3>1, <3>3
  <2>2. CASE TriggerWrites /\ ResetForParse
    <3>1. /\ version' = version + 1 /\ recorded' = recorded \cup {version + 1} /\ copies' = copies
          /\ version + 1 \in Versions
      BY <2>2 DEF TriggerWrites, ResetForParse, Outbox!Record, Live, row
    <3>2. version + 1 \notin recorded
      BY DEF NotAhead, RowTypeOK, Versions
    <3>3. copies[version + 1] = 0
      BY <3>1, <3>2 DEF CopiesRecorded
    <3> QED
      BY <3>1, <3>3
  <2>3. CASE StopWrites
    BY <1>1, <1>2, <2>3 DEF StopWrites, UpdateStatus, Busy
  <2>4. CASE DeleteFinishes
    BY <2>4 DEF DeleteFinishes, DeleteRow, Live
  <2> QED
    BY <1>1, <1>6, <2>1, <2>2, <2>3, <2>4 DEF Users, ServiceStep, StopReads, TriggerReads,
       TriggerWrites, DeleteStarts, DeleteChunks, DeleteObject, DeleteFails
<1>7. ASSUME NEW v \in Versions, Relay(v) PROVE Goal
  BY <1>1, <1>7 DEF Relay, Elsewhere
<1>8. ASSUME NEW m \in Message, Expire(m) PROVE Goal
  BY <1>1, <1>8 DEF Expire, Elsewhere
<1>9. ASSUME UNCHANGED vars PROVE Goal
  BY <1>1, <1>9 DEF vars, world
<1> QED
  BY <1>3, <1>4, <1>5, <1>6, <1>7, <1>8, <1>9 DEF Next, Work, WorkerStep

\* The task of a document that is busy is never lost: as long as it is busy its
\* event waits, a message is queued, or a worker has it in hand, whatever
\* statements, calls and publishes fail, whoever crashes, and whatever users do
\* (Consumer.process requeues what it cannot retry or reject).
THEOREM TasksAreNotLost ==
  ASSUME TaskFaults
  PROVE  SafeSpec => []BusyHasTask
<1>1. Init => TaskInvariant
  <2> SUFFICES ASSUME Init PROVE TaskInvariant
    OBVIOUS
  <2> USE DEF Init, QueueInit, WorkerInit, RowInit, Outbox!Init
  <2>1. NotAhead
    BY DEF NotAhead, InBroker, NoJob, FirstMessage
  <2>2. NothingYet
    BY DEF NothingYet, InBroker, InHand
  <2>3. OwnedInHand /\ CopiesRecorded /\ BusyHasTask
    BY DEF OwnedInHand, CopiesRecorded, BusyHasTask, Live
  <2> QED
    BY <2>1, <2>2, <2>3, InitTypes DEF TaskInvariant
<1>2. TaskInvariant /\ [Next]_vars => TaskInvariant'
  <2> SUFFICES ASSUME TaskInvariant, [Next]_vars PROVE TaskInvariant'
    OBVIOUS
  <2> USE DEF TaskInvariant
  <2>1. ASSUME Live', Busy(status') PROVE TaskPending'
    <3>1. CASE Live /\ Busy(status) /\ version' = version
      <4>1. PICK v \in Versions : v = version /\ v = version'
        BY <3>1 DEF TypeInvariant, TypeOK, RowTypeOK
      <4>2. EventWaits(v) \/ Queued(v) \/ \E w \in Workers : AtWork(w) /\ job[w].ver = v
        BY <3>1, <4>1 DEF BusyHasTask, TaskPending, EventWaits, Queued, AtWork
      <4>3. EventWaits(v)' \/ Queued(v)' \/ \E w \in Workers : AtWork(w)' /\ job'[w].ver = v
        BY <2>1, <4>1, <4>2, EventStays, QueuedStays, WorkStays DEF TypeInvariant
      <4> QED
        BY <4>1, <4>3 DEF TaskPending, EventWaits, Queued, AtWork
    <3>2. CASE version' \in recorded' /\ copies'[version'] = 0
      BY <3>2 DEF TaskPending
    <3>3. CASE \E w \in Workers : AtWork(w)' /\ job'[w].ver = version'
      BY <3>3 DEF TaskPending, AtWork
    <3> QED
      BY <2>1, <3>1, <3>2, <3>3, BusyFrom
  <2>2. BusyHasTask'
    BY <2>1 DEF BusyHasTask
  <2> QED
    BY <2>2, TypesStep, AheadStep, NothingStep, OwnedStep, CopiesStep DEF TypeInvariant
<1>3. TaskInvariant => BusyHasTask
  BY DEF TaskInvariant
<1> QED
  BY <1>1, <1>2, <1>3, PTL DEF SafeSpec
=============================================================================
