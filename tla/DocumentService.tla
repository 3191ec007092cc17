-------------------------- MODULE DocumentService --------------------------
(***************************************************************************)
(* The HTTP API's document operations that change the pipeline's state.    *)
(* Stop, TriggerParse and Delete read the row first and write later, with  *)
(* no lock and no condition in between, so each is several steps here.     *)
(* Operations names the operations the users of a model perform.           *)
(***************************************************************************)
EXTENDS DocumentRow, TaskQueue, Faults

CONSTANT Operations

ASSUME OperationsAssumption == Operations \subseteq {"stop", "trigger", "delete"}

VARIABLES
  stopSeen,            \* status an unfinished Stop has read, or "none"
  triggered,           \* an unfinished TriggerParse has passed its check
  deleting             \* control point of Delete

service == <<stopSeen, triggered, deleting>>

DeletePoints == {"none", "chunks", "object", "row", "failed"}

ServiceInit ==
  /\ stopSeen = "none"
  /\ triggered = FALSE
  /\ deleting = "none"

ServiceTypeOK ==
  /\ stopSeen \in Statuses \cup {"none"}
  /\ triggered \in BOOLEAN
  /\ deleting \in DeletePoints

-----------------------------------------------------------------------------
\* Register: the row and its outbox event in one transaction.  A second
\* registration of the same hash finds the row and changes nothing.
Register ==
  /\ CreateRow
  /\ Outbox!Record(version)
  /\ UNCHANGED <<chunks, stored, broker, service, faults>>

-----------------------------------------------------------------------------
(* Stop.                                                                   *)

StopReads ==
  /\ "stop" \in Operations
  /\ stopSeen = "none"
  /\ Live /\ Busy(status)
  /\ stopSeen' = status
  /\ UNCHANGED <<row, chunks, queues, triggered, deleting, stored, faults>>

\* The write goes by what was read; a row deleted meanwhile is reported as
\* not found.
StopWrites ==
  /\ stopSeen # "none"
  /\ \/ stopSeen = "pending" /\ UpdateStatus("cancelled", "stopped")
     \/ stopSeen # "pending" /\ UpdateStatus("cancelling", "null")
     \/ ~Live /\ UNCHANGED row
  /\ stopSeen' = "none"
  /\ UNCHANGED <<chunks, queues, triggered, deleting, stored, faults>>

-----------------------------------------------------------------------------
(* TriggerParse.                                                           *)

TriggerReads ==
  /\ "trigger" \in Operations
  /\ ~triggered
  /\ Live /\ version < MaxVersion
  /\ status \notin {"parsing", "chunking", "embedding"}
  /\ triggered' = TRUE
  /\ UNCHANGED <<row, chunks, queues, stopSeen, deleting, stored, faults>>

\* ResetForParse and the new event in one transaction.
TriggerWrites ==
  /\ triggered
  /\ \/ ResetForParse /\ Outbox!Record(version + 1)
     \/ ~Live /\ UNCHANGED <<row, recorded, copies>>
  /\ triggered' = FALSE
  /\ UNCHANGED <<chunks, broker, stopSeen, deleting, stored, faults>>

-----------------------------------------------------------------------------
(* Delete: chunks, then the object, then the row, each on its own.         *)

DeleteStarts ==
  /\ "delete" \in Operations
  /\ deleting \in {"none", "failed"}
  /\ Live
  /\ deleting' = "chunks"
  /\ UNCHANGED <<row, chunks, queues, stopSeen, triggered, stored, faults>>

DeleteChunks ==
  /\ deleting = "chunks"
  /\ DeleteByDocument
  /\ deleting' = "object"
  /\ UNCHANGED <<row, queues, stopSeen, triggered, stored, faults>>

\* A failure to delete the object is only logged.
DeleteObject ==
  /\ deleting = "object"
  /\ \/ stored' = FALSE /\ NoFault
     \/ stored' = stored /\ Fault("io")
  /\ deleting' = "row"
  /\ UNCHANGED <<row, chunks, queues, stopSeen, triggered>>

DeleteFinishes ==
  /\ deleting = "row"
  /\ DeleteRow
  /\ deleting' = "none"
  /\ UNCHANGED <<chunks, queues, stopSeen, triggered, stored, faults>>

\* A failed statement, or the death of the server, leaves Delete half done.
DeleteFails ==
  /\ \/ deleting \in {"chunks", "row"} /\ Fault("db")
     \/ deleting \in {"chunks", "object", "row"} /\ Fault("crash")
  /\ deleting' = "failed"
  /\ UNCHANGED <<row, chunks, queues, stopSeen, triggered, stored>>

ServiceStep ==
  \/ Register
  \/ StopReads \/ StopWrites
  \/ TriggerReads \/ TriggerWrites
  \/ DeleteStarts \/ DeleteChunks \/ DeleteObject \/ DeleteFinishes \/ DeleteFails
=============================================================================
