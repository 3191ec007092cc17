---------------------------- MODULE DocumentRow ----------------------------
(***************************************************************************)
(* One row of t_document and the t_chunk rows that belong to it, with the  *)
(* statements of DocumentRepository and ChunkRepository that change them.  *)
(* Every statement is one atomic step.  Documents do not share rows, so    *)
(* one document shows all the interference there is.                       *)
(***************************************************************************)
EXTENDS ParseTask

CONSTANT Batches       \* embedding batches a parsed document is cut into

ASSUME BatchAssumption == Batches \in Nat \ {0}

VARIABLES
  docState,            \* "new" before Register, "live", "gone" after Delete
  status,              \* t_document.status
  version,             \* t_document.parse_version
  attempts,            \* t_document.attempt_count
  parseError,          \* t_document.parse_error: "null", "stopped" or "cause"
  chunks,              \* the document's rows of t_chunk, one per batch
  stored               \* the uploaded object exists in the object store

row == <<docState, status, version, attempts, parseError>>

Statuses == {"pending", "parsing", "chunking", "embedding", "done",
             "failed", "cancelling", "cancelled"}
StopStatuses == {"cancelling", "cancelled"}

\* A chunk row: the parse version that inserted it, its batch, and whether its
\* vector has been written.
Chunk == [run : Versions, n : 1..Batches, vec : BOOLEAN]

RowInit ==
  /\ docState = "new"
  /\ status = "pending"
  /\ version = 1
  /\ attempts = 0
  /\ parseError = "null"
  /\ chunks = {}
  /\ stored = TRUE

RowTypeOK ==
  /\ docState \in {"new", "live", "gone"}
  /\ status \in Statuses
  /\ version \in Versions
  /\ attempts \in 0..MaxDeliveries
  /\ parseError \in {"null", "stopped", "cause"}
  /\ chunks \in SUBSET Chunk
  /\ stored \in BOOLEAN

Live == docState = "live"

\* pipelineBusy
Busy(s) == s \in {"pending", "parsing", "chunking", "embedding"}

-----------------------------------------------------------------------------
(* DocumentRepository.                                                     *)

CreateRow ==
  /\ docState = "new"
  /\ docState' = "live"
  /\ UNCHANGED <<status, version, attempts, parseError>>

\* Variant of Current without the version condition.
CurrentAnyVersion(v) == Live /\ v \in Versions

\* WHERE id = ? AND parse_version = ?
Current(v) == Live /\ version = v

\* UpdateStatus: unconditional, by id.
UpdateStatus(s, e) ==
  /\ Live
  /\ status' = s
  /\ parseError' = e
  /\ UNCHANGED <<docState, version, attempts>>

\* ResetForParse
ResetForParse ==
  /\ Live
  /\ status' = "pending"
  /\ version' = version + 1
  /\ attempts' = 0
  /\ parseError' = "null"
  /\ UNCHANGED docState

\* Variants of Greatest: the last writer wins; every run is counted.
LastWriter(a, b) == IF b > 0 THEN b ELSE a

CountEveryRun(a, b) == IF b > 0 THEN a + 1 ELSE a

\* SQL GREATEST
Greatest(a, b) == IF a >= b THEN a ELSE b

\* RecordParseAttempt, a no-op on a row of another version.
RecordParseAttempt(v, a) ==
  /\ attempts' = IF Current(v) THEN Greatest(attempts, a) ELSE attempts
  /\ UNCHANGED <<docState, status, version, parseError>>

\* UpdateStatusVersion, a no-op on a row of another version.
UpdateStatusVersion(v, s, e) ==
  /\ status' = IF Current(v) THEN s ELSE status
  /\ parseError' = IF Current(v) THEN e ELSE parseError
  /\ UNCHANGED <<docState, version, attempts>>

\* Variant of Advanceable that lets a stage overwrite a stop request.
AdvanceableAlways(v) == Current(v)

\* The WHERE clause of UpdateStatusVersionUnless, as setStatus calls it.
Advanceable(v) == Current(v) /\ status \notin StopStatuses

\* UpdateStatusVersionUnless on a matching row.
UpdateStatusVersionUnless(v, s) ==
  /\ Advanceable(v)
  /\ status' = s
  /\ parseError' = "null"
  /\ UNCHANGED <<docState, version, attempts>>

DeleteRow ==
  /\ Live
  /\ docState' = "gone"
  /\ UNCHANGED <<status, version, attempts, parseError>>

-----------------------------------------------------------------------------
(* ChunkRepository.                                                        *)

ChunksOf(v, vectors) == [run : {v}, n : 1..Batches, vec : {vectors}]

\* Variant of DeleteByDocument that only removes rows without a vector.
DeleteBareChunks == chunks' = {c \in chunks : c.vec}

DeleteByDocument == chunks' = {}

\* One INSERT for all rows; it collides with rows of the same content, whose
\* ids are derived from the content, unless the contents differ.
BulkInsert(v) == chunks' = chunks \cup ChunksOf(v, FALSE)

\* Rows of batch n that run v inserted, and those of any run, which have the
\* same ids when the contents are the same.
OwnRows(v, n) == {c \in chunks : c.run = v /\ c.n = n}
SameRows(n) == {c \in chunks : c.n = n}

\* UpdateVector for every row of a batch.
UpdateVector(v, n) ==
  \E rows \in {OwnRows(v, n), SameRows(n)} :
    /\ rows # {}
    /\ chunks' = (chunks \ rows) \cup {[c EXCEPT !.vec = TRUE] : c \in rows}
=============================================================================
