----------------------------- MODULE TaskQueue -----------------------------
(***************************************************************************)
(* The parse tasks on their way: outbox events of one document (one per    *)
(* parse version) and the RabbitMQ queues DeclareTopology declares.  The   *)
(* relay appears as the at-least-once channel it implements; MaxCopies     *)
(* bounds how often it delivers one event.  Prefetching, requeueing and    *)
(* several consumers make the order of the queues meaningless, so a queue  *)
(* is a bag: the number of copies of each message.                         *)
(***************************************************************************)
EXTENDS ParseTask

CONSTANT MaxCopies

ASSUME CopiesAssumption == MaxCopies \in Nat \ {0}

VARIABLES
  recorded,            \* versions whose outbox event is committed
  copies,              \* copies[v]: how often the relay delivered event v
  main,                \* main queue
  retry,               \* delayed retry queue
  dead                 \* messages in the DLQ

broker == <<main, retry, dead>>
queues == <<recorded, copies, broker>>

Outbox == INSTANCE AtLeastOnce WITH Events <- Versions

QueueInit ==
  /\ Outbox!Init
  /\ main = [m \in Message |-> 0]
  /\ retry = [m \in Message |-> 0]
  /\ dead = {}

QueueTypeOK ==
  /\ recorded \in SUBSET Versions
  /\ copies \in [Versions -> Nat]
  /\ main \in [Message -> Nat]
  /\ retry \in [Message -> Nat]
  /\ dead \in SUBSET Message

Put(q, m) == [q EXCEPT ![m] = @ + 1]
Take(q, m) == [q EXCEPT ![m] = @ - 1]

\* The relay publishes event v to the main queue.
RelayDelivers(v) ==
  /\ copies[v] < MaxCopies
  /\ Outbox!Deliver(v)
  /\ main' = Put(main, FirstMessage(v))
  /\ UNCHANGED <<retry, dead>>

\* The TTL of the retry queue dead-letters a message back to the main queue.
RetryExpires(m) ==
  /\ retry[m] > 0
  /\ retry' = Take(retry, m)
  /\ main' = Put(main, m)
  /\ UNCHANGED <<recorded, copies, dead>>
=============================================================================
