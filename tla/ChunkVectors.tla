---------------------------- MODULE ChunkVectors ----------------------------
(***************************************************************************)
(* One chunk, its text and its vectors.  The server edits the text and     *)
(* embeds it anew; the worker replaces the chunk when its document is      *)
(* parsed again, under the same id when the parsed text is the same.  A    *)
(* vector of dimension N lives in a column of its own, which each process  *)
(* adds and indexes on first use.                                          *)
(***************************************************************************)
EXTENDS Integers, FiniteSets, Faults

CONSTANTS
  Edits,               \* edits that may be under way at a time
  Dims,                \* dimensions of embedding models
  MaxVectorDim,        \* the largest dimension a column may have
  MaxTexts             \* bound on the texts edited in

ASSUME VectorAssumption == Dims \subseteq Nat /\ MaxVectorDim \in Nat /\ MaxTexts \in Nat

VARIABLES
  chunk,               \* the chunk's row
  modelDim,            \* dimension of the dataset's embedding model
  columns, indexes,    \* dimensions that have a column, an index
  vecEnsured,          \* [Procs -> dimensions known to be ready]
  vecDDLMu,            \* [Procs -> writer holding the mutex, or "free"]
  writer,              \* [Writers -> write under way]
  texts,               \* texts edited in so far
  settled              \* history: the last write succeeded and ran alone

vectorVars == <<chunk, modelDim, columns, indexes, vecEnsured, vecDDLMu, writer, texts, settled, faults>>

Procs == {"server", "worker"}
Writers == Edits \cup {"parse"}
ProcOf(w) == IF w = "parse" THEN "worker" ELSE "server"

\* Text 0 is what parsing finds.
Texts == 0..MaxTexts
Unset == -1
Row == [there : BOOLEAN, text : Texts, vec : [Dims -> Texts \cup {Unset}]]
NoVectors == [d \in Dims |-> Unset]

NoWrite == [at |-> "idle", text |-> 0, old |-> 0, dim |-> 0, alone |-> FALSE]
Busy == {w \in Writers : writer[w] # NoWrite}

VectorInit ==
  /\ chunk = [there |-> FALSE, text |-> 0, vec |-> NoVectors]
  /\ modelDim \in Dims
  /\ columns = {} /\ indexes = {}
  /\ vecEnsured = [p \in Procs |-> {}]
  /\ vecDDLMu = [p \in Procs |-> "free"]
  /\ writer = [w \in Writers |-> NoWrite]
  /\ texts = 0 /\ settled = FALSE
  /\ FaultInit

\* A write begins: nobody runs alone while another is under way.
BeginWrite(w, at, text) ==
  /\ writer[w] = NoWrite
  /\ writer' = [v \in Writers |->
       IF v = w THEN [NoWrite EXCEPT !.at = at, !.text = text, !.old = chunk.text, !.alone = (Busy = {})]
       ELSE [writer[v] EXCEPT !.alone = FALSE]]
  /\ settled' = FALSE

WriterAt(w, at) == writer[w].at = at
WriterTo(w, at) == writer' = [writer EXCEPT ![w].at = at]
EndWrite(w) == writer' = [writer EXCEPT ![w] = NoWrite]
P(w) == ProcOf(w)
Dim(w) == writer[w].dim
Database == <<chunk, columns, indexes>>
Cache == <<vecEnsured, vecDDLMu>>

-----------------------------------------------------------------------------
(* ChunkService.Update: the content is stored first, then embedded.        *)

BeginEdit(w) ==
  /\ w \in Edits /\ chunk.there /\ texts < MaxTexts
  /\ texts' = texts + 1
  /\ BeginWrite(w, "write", texts + 1)
  /\ UNCHANGED <<Database, Cache, modelDim, faults>>

\* The chunk may have gone since it was read.
UpdateContent(w) ==
  /\ WriterAt(w, "write")
  /\ IF chunk.there
     THEN chunk' = [chunk EXCEPT !.text = writer[w].text] /\ WriterTo(w, "embed")
     ELSE chunk' = chunk /\ EndWrite(w)
  /\ UNCHANGED <<columns, indexes, Cache, modelDim, texts, settled, faults>>

\* The worker deletes the document's chunks and inserts the new ones.
BeginParse(w) ==
  /\ w = "parse"
  /\ BeginWrite(w, "insert", 0)
  /\ chunk' = [chunk EXCEPT !.there = FALSE, !.vec = NoVectors]
  /\ UNCHANGED <<columns, indexes, Cache, modelDim, texts, faults>>

InsertChunk(w) ==
  /\ WriterAt(w, "insert")
  /\ chunk' = [there |-> TRUE, text |-> 0, vec |-> NoVectors]
  /\ WriterTo(w, "embed")
  /\ UNCHANGED <<columns, indexes, Cache, modelDim, texts, settled, faults>>

\* Mutated: the text the request has read is embedded.
OldText(w) == writer[w].old
EmbedText(w) == writer[w].text

\* Mutated: every dimension has a column.
AnyDim(d) == TRUE
VectorColumn(d) == d \in 1..MaxVectorDim

\* The text is embedded by the model of the moment; a dimension out of range is
\* an error, one known to be ready needs no lock.
Embed(w) ==
  /\ WriterAt(w, "embed")
  /\ \/ VectorColumn(modelDim) /\ writer' = [writer EXCEPT
          ![w].at = IF modelDim \in vecEnsured[P(w)] THEN "update" ELSE "lock",
          ![w].dim = modelDim, ![w].text = EmbedText(w), ![w].old = 0]
     \/ ~VectorColumn(modelDim) /\ EndWrite(w)
  /\ UNCHANGED <<Database, Cache, modelDim, texts, settled, faults>>

-----------------------------------------------------------------------------
(* The rest of EnsureVectorColumn, and UpdateVector.                       *)

\* Mutated: the mutex is kept.
KeepMutex(w) == vecDDLMu' = vecDDLMu
UnlockDDL(w) == vecDDLMu' = [vecDDLMu EXCEPT ![P(w)] = "free"]

\* Under the mutex: another writer of the process may have finished while this
\* one waited; otherwise the database is asked whether the column exists.
LockDDL(w) ==
  /\ WriterAt(w, "lock") /\ vecDDLMu[P(w)] = "free"
  /\ IF Dim(w) \in vecEnsured[P(w)]
     THEN WriterTo(w, "update") /\ UNCHANGED vecDDLMu
     ELSE /\ WriterTo(w, IF Dim(w) \in columns THEN "index" ELSE "alter")
          /\ vecDDLMu' = [vecDDLMu EXCEPT ![P(w)] = w]
  /\ UNCHANGED <<Database, vecEnsured, modelDim, texts, settled, faults>>

Remember(w) == vecEnsured' = [vecEnsured EXCEPT ![P(w)] = @ \cup {Dim(w)}]

\* Mutated: the dimension is remembered as soon as it has its column.
RememberColumn(w) == Remember(w)
AfterColumn(w) == UNCHANGED vecEnsured

\* The other process may have added the column since: the statement fails.
AddColumn(w) ==
  /\ WriterAt(w, "alter")
  /\ IF Dim(w) \in columns
     THEN EndWrite(w) /\ UnlockDDL(w) /\ UNCHANGED <<columns, vecEnsured>>
     ELSE WriterTo(w, "index") /\ columns' = columns \cup {Dim(w)} /\ AfterColumn(w) /\ UNCHANGED vecDDLMu
  /\ UNCHANGED <<chunk, indexes, modelDim, texts, settled, faults>>

\* Creating an index that exists changes nothing.
AddIndex(w) ==
  /\ WriterAt(w, "index")
  /\ indexes' = indexes \cup {Dim(w)}
  /\ Remember(w) /\ UnlockDDL(w)
  /\ WriterTo(w, "update")
  /\ UNCHANGED <<chunk, columns, modelDim, texts, settled, faults>>

UpdateVector(w) ==
  /\ WriterAt(w, "update")
  /\ chunk' = IF chunk.there THEN [chunk EXCEPT !.vec[Dim(w)] = writer[w].text] ELSE chunk
  /\ settled' = (chunk.there /\ writer[w].alone)
  /\ EndWrite(w)
  /\ UNCHANGED <<columns, indexes, Cache, modelDim, texts, faults>>

-----------------------------------------------------------------------------
(* Failures, and a model changed under the dataset.                        *)

\* A statement or the embedding service fails; the write ends with an error.
WriteFails(w) ==
  /\ writer[w].at \in {"write", "insert", "embed", "lock", "alter", "index", "update"}
  /\ Fault(IF writer[w].at = "embed" THEN "io" ELSE "db")
  /\ EndWrite(w)
  /\ IF vecDDLMu[P(w)] = w THEN UnlockDDL(w) ELSE UNCHANGED vecDDLMu
  /\ UNCHANGED <<Database, vecEnsured, modelDim, texts, settled>>

ProcessCrash(p) ==
  /\ Fault("crash")
  /\ writer' = [w \in Writers |-> IF P(w) = p THEN NoWrite ELSE writer[w]]
  /\ vecEnsured' = [vecEnsured EXCEPT ![p] = {}]
  /\ vecDDLMu' = [vecDDLMu EXCEPT ![p] = "free"]
  /\ UNCHANGED <<Database, modelDim, texts, settled>>

\* EmbedModelService.Update: no chunk is embedded again.
ChangeModel ==
  /\ \E d \in Dims \ {modelDim} : modelDim' = d
  /\ settled' = FALSE
  /\ writer' = [w \in Writers |-> [writer[w] EXCEPT !.alone = FALSE]]
  /\ UNCHANGED <<Database, Cache, texts, faults>>

WriteStep(w) ==
  \/ UpdateContent(w) \/ InsertChunk(w) \/ Embed(w)
  \/ LockDDL(w) \/ AddColumn(w) \/ AddIndex(w) \/ UpdateVector(w)

VectorNext ==
  \/ \E w \in Writers : BeginEdit(w) \/ BeginParse(w) \/ WriteStep(w) \/ WriteFails(w)
  \/ \E p \in Procs : ProcessCrash(p)
  \/ ChangeModel

\* A write that has begun is carried on by its goroutine.
VectorFairness == \A w \in Writers : WF_vectorVars(WriteStep(w))

VectorSpec == VectorInit /\ [][VectorNext]_vectorVars /\ VectorFairness

-----------------------------------------------------------------------------
(* Properties.                                                             *)

\* Types; columns only for the dimensions the database can index.
VectorTypeOK ==
  /\ chunk \in Row /\ modelDim \in Dims /\ texts \in Texts /\ settled \in BOOLEAN
  /\ columns \subseteq 1..MaxVectorDim /\ indexes \subseteq columns

\* What a process believes to be ready has its column and its index, whatever
\* the other process does and wherever an earlier attempt broke off.
EnsuredIsReady == \A p \in Procs : vecEnsured[p] \subseteq columns \cap indexes

\* After a write that succeeded and ran alone the chunk is found by its own
\* text, whatever earlier writes have left behind.
SettledVectorIsCurrent == settled => chunk.there /\ chunk.vec[modelDim] = chunk.text

\* Every edit and every parse ends: none waits for ever for the mutex.
WritesEnd == \A w \in Writers : writer[w] # NoWrite ~> writer[w] = NoWrite

\* The vector columns and every process' memory of them are sound, and a
\* settled chunk is found by its text.
VectorInvariant == VectorTypeOK /\ EnsuredIsReady /\ SettledVectorIsCurrent
=============================================================================
