-------------------------- MODULE Processes_proofs --------------------------
(***************************************************************************)
(* The invariants of the components that run by themselves: the vector     *)
(* columns, the publisher, the migrations and the MinerU client.           *)
(***************************************************************************)
EXTENDS ChunkVectors, Publisher, Migration, MinerU, DataLemmas, TLAPS

-----------------------------------------------------------------------------
(***************************************************************************)
(* VectorInvariant holds for any number of edits and of faults, and for    *)
(* any dimensions.                                                         *)
(***************************************************************************)

AfterEmbed == {"lock", "alter", "index", "update"}
Write == [at : {"idle", "write", "insert", "embed"} \cup AfterEmbed, text : Texts, old : Texts,
          dim : Nat, alone : BOOLEAN]

WriterTypes ==
  /\ writer \in [Writers -> Write]
  /\ vecEnsured \in [Procs -> SUBSET Nat]
  /\ DOMAIN vecDDLMu = Procs

\* A write past the embedding has a dimension that may have a column; one that
\* creates the index has found or added it.
WritesInPlace ==
  \A w \in Writers :
    /\ writer[w].at \in AfterEmbed => Dim(w) \in Dims /\ Dim(w) \in 1..MaxVectorDim
    /\ WriterAt(w, "index") => Dim(w) \in columns
    /\ WriterAt(w, "insert") => writer[w].text = 0

\* Who runs alone is really alone, embeds the text that is stored, and with the
\* model of the moment.
AloneInPlace ==
  \A w \in Writers : writer[w].alone =>
    /\ \A v \in Writers \ {w} : WriterAt(v, "idle")
    /\ writer[w].at \in AfterEmbed => Dim(w) = modelDim
    /\ writer[w].at \in {"embed"} \cup AfterEmbed => (chunk.there => chunk.text = writer[w].text)

\* Nobody writes while the chunk is settled.
SettledInPlace == settled => \A w \in Writers : WriterAt(w, "idle")

VectorStrong ==
  /\ VectorTypeOK /\ WriterTypes /\ WritesInPlace /\ AloneInPlace /\ SettledInPlace
  /\ EnsuredIsReady /\ SettledVectorIsCurrent

\* Nothing is written, and nobody remembers anything, at the start.
LEMMA VectorStarts == VectorInit => VectorStrong
<1> SUFFICES ASSUME VectorInit PROVE VectorStrong
  OBVIOUS
<1> USE VectorAssumption DEF VectorInit, Texts
<1>1. chunk \in Row
  BY DEF Row, NoVectors, Unset
<1>2. VectorTypeOK
  <2>1. settled \in BOOLEAN
    OBVIOUS
  <2>2. modelDim \in Dims /\ texts \in Texts /\ columns \subseteq 1..MaxVectorDim /\ indexes \subseteq columns
    OBVIOUS
  <2> QED
    BY <1>1, <2>1, <2>2 DEF VectorTypeOK
<1>3. NoWrite \in Write
  BY DEF NoWrite, Write
<1>4. WriterTypes
  BY <1>3 DEF WriterTypes
<1>5. WritesInPlace /\ AloneInPlace /\ SettledInPlace
  BY DEF WritesInPlace, AloneInPlace, SettledInPlace, NoWrite, AfterEmbed, WriterAt
<1>6. EnsuredIsReady /\ SettledVectorIsCurrent
  BY DEF EnsuredIsReady, SettledVectorIsCurrent
<1> QED
  BY <1>2, <1>4, <1>5, <1>6 DEF VectorStrong

\* What each operation on the writes under way does to them.
LEMMA WriteMoves ==
  ASSUME WriterTypes, NEW w \in Writers
  PROVE  /\ \A a \in AfterEmbed \cup {"embed"} : WriterTo(w, a) =>
              /\ writer' \in [Writers -> Write]
              /\ writer'[w].at = a /\ writer'[w].text = writer[w].text
              /\ writer'[w].dim = writer[w].dim /\ writer'[w].alone = writer[w].alone
              /\ \A v \in Writers \ {w} : writer'[v] = writer[v]
         /\ EndWrite(w) =>
              /\ writer' \in [Writers -> Write]
              /\ writer'[w] = NoWrite /\ NoWrite.at = "idle" /\ ~NoWrite.alone
              /\ \A v \in Writers \ {w} : writer'[v] = writer[v]
<1> USE VectorAssumption DEF WriterTypes
<1>1. ASSUME NEW a \in AfterEmbed \cup {"embed"}, WriterTo(w, a)
      PROVE  /\ writer' \in [Writers -> Write]
             /\ writer'[w].at = a /\ writer'[w].text = writer[w].text
             /\ writer'[w].dim = writer[w].dim /\ writer'[w].alone = writer[w].alone
             /\ \A v \in Writers \ {w} : writer'[v] = writer[v]
  <2>1. writer[w] \in Write
    OBVIOUS
  <2>2. writer' = [writer EXCEPT ![w] = [writer[w] EXCEPT !.at = a]]
    BY <1>1 DEF WriterTo
  <2>3. [writer[w] EXCEPT !.at = a] \in Write
    BY <2>1 DEF Write
  <2>4. writer'[w] = [writer[w] EXCEPT !.at = a]
    BY <2>2
  <2> QED
    BY <2>1, <2>2, <2>3, <2>4 DEF Write
<1>2. ASSUME EndWrite(w)
      PROVE  /\ writer' \in [Writers -> Write]
             /\ writer'[w] = NoWrite /\ NoWrite.at = "idle" /\ ~NoWrite.alone
             /\ \A v \in Writers \ {w} : writer'[v] = writer[v]
  <2>1. NoWrite \in Write
    BY DEF NoWrite, Write, Texts
  <2> QED
    BY <1>2, <2>1 DEF EndWrite, NoWrite
<1> QED
  BY <1>1, <1>2

\* A write that ends, for whatever reason, leaves the others as they are.
LEMMA EndKeeps ==
  ASSUME VectorStrong, NEW w \in Writers, EndWrite(w),
         DOMAIN vecDDLMu' = Procs,
         UNCHANGED <<chunk, columns, indexes, vecEnsured, modelDim, texts, settled>>
  PROVE  VectorStrong'
<1> USE VectorAssumption DEF VectorStrong
<1>1. /\ writer' \in [Writers -> Write]
      /\ writer'[w] = NoWrite /\ NoWrite.at = "idle" /\ ~NoWrite.alone
      /\ \A v \in Writers \ {w} : writer'[v] = writer[v]
  BY WriteMoves
<1>2. VectorTypeOK' /\ EnsuredIsReady' /\ SettledVectorIsCurrent'
  BY DEF VectorTypeOK, EnsuredIsReady, SettledVectorIsCurrent, Row, Texts
<1>3. WriterTypes'
  BY <1>1 DEF WriterTypes, Write, Texts
<1>4. WritesInPlace'
  BY <1>1 DEF WritesInPlace, AfterEmbed, WriterAt, Dim
<1>5. AloneInPlace'
  BY <1>1 DEF AloneInPlace, AfterEmbed, Dim, WriterAt
<1>6. SettledInPlace'
  BY <1>1 DEF SettledInPlace, WriterAt
<1> QED
  BY <1>2, <1>3, <1>4, <1>5, <1>6

\* A write that begins ends everybody's being alone, and what was settled.
LEMMA BeginEditKeeps ==
  ASSUME VectorStrong, NEW w \in Writers, BeginEdit(w) \/ BeginParse(w)
  PROVE  VectorStrong'
<1> USE VectorAssumption DEF VectorStrong
<1>1. PICK at \in {"write", "insert"}, text \in Texts : BeginWrite(w, at, text) /\ texts' \in Texts /\ (at = "insert" => text = 0)
  <2>1. CASE BeginEdit(w)
    BY <2>1 DEF BeginEdit, VectorTypeOK, Texts
  <2>2. CASE BeginParse(w)
    BY <2>2 DEF BeginParse, VectorTypeOK, Texts
  <2> QED
    BY <2>1, <2>2
<1>2. /\ UNCHANGED <<columns, indexes, vecEnsured, vecDDLMu, modelDim>> /\ settled' = FALSE
      /\ chunk' \in Row
  <2>1. [chunk EXCEPT !.there = FALSE, !.vec = NoVectors] \in Row
    BY DEF VectorTypeOK, Row, NoVectors, Unset
  <2> QED
    BY <2>1 DEF BeginEdit, BeginParse, BeginWrite, Database, Cache, VectorTypeOK
<1>3. /\ writer'[w].at = at /\ writer'[w].text = text /\ writer'[w].alone = (Busy = {}) /\ writer'[w] \in Write
      /\ \A v \in Writers \ {w} : writer'[v] = [writer[v] EXCEPT !.alone = FALSE]
      /\ writer' = [v \in Writers |-> writer'[v]]
  <2>1. chunk.text \in Texts /\ (Busy = {}) \in BOOLEAN /\ 0 \in Nat
    BY DEF VectorTypeOK, Row
  <2>2. [at |-> at, text |-> text, old |-> chunk.text, dim |-> 0, alone |-> (Busy = {})] \in Write
    BY <2>1 DEF Write
  <2>3. writer'[w] = [at |-> at, text |-> text, old |-> chunk.text, dim |-> 0, alone |-> (Busy = {})]
    BY <1>1 DEF BeginWrite, NoWrite
  <2> QED
    BY <1>1, <2>2, <2>3 DEF BeginWrite
<1>4. \A v \in Writers \ {w} :
        /\ writer'[v] \in Write /\ ~writer'[v].alone
        /\ writer'[v].at = writer[v].at /\ writer'[v].dim = writer[v].dim
        /\ writer'[v].text = writer[v].text
  <2> TAKE v \in Writers \ {w}
  <2>1. writer[v] \in Write
    BY DEF WriterTypes
  <2>2. [writer[v] EXCEPT !.alone = FALSE] \in Write
    BY <2>1 DEF Write
  <2> QED
    BY <1>3, <2>1, <2>2 DEF Write
<1>5. VectorTypeOK'
  BY <1>1, <1>2 DEF VectorTypeOK, Row, Texts
<1>6. WriterTypes'
  BY <1>2, <1>3, <1>4 DEF WriterTypes, Write, Texts
<1>7. WritesInPlace'
  BY <1>1, <1>2, <1>3, <1>4 DEF WritesInPlace, AfterEmbed, WriterAt, Dim
<1>8. AloneInPlace'
  <2>1. NoWrite.at = "idle" /\ (Busy = {} => \A v \in Writers : writer[v] = NoWrite)
    BY DEF NoWrite, Busy
  <2>2. Busy = {} => \A v \in Writers \ {w} : writer'[v].at = "idle"
    BY <1>4, <2>1
  <2>3. writer'[w].alone => Busy = {}
    BY <1>3
  <2>4. writer'[w].at \notin {"embed"} \cup AfterEmbed
    BY <1>1, <1>3 DEF AfterEmbed
  <2> QED
    BY <1>4, <2>2, <2>3, <2>4 DEF AloneInPlace, WriterAt
<1>9. SettledInPlace' /\ SettledVectorIsCurrent' /\ EnsuredIsReady'
  BY <1>2 DEF SettledInPlace, SettledVectorIsCurrent, EnsuredIsReady
<1> QED
  BY <1>5, <1>6, <1>7, <1>8, <1>9

\* A step of a write that leaves the row and the memory of the processes alone.
LEMMA MoveKeeps ==
  ASSUME VectorStrong, NEW w \in Writers, NEW a \in AfterEmbed \cup {"embed"},
         WriterTo(w, a), ~WriterAt(w, "idle"),
         a # "embed" => writer[w].at \in AfterEmbed,
         columns' \in {columns, columns \cup {Dim(w)}}, a = "index" => Dim(w) \in columns',
         a = "embed" => chunk'.there /\ chunk'.text = writer[w].text,
         a # "embed" => chunk' = chunk,
         a = "embed" => columns' = columns,
         chunk' \in Row, indexes' \in {indexes, indexes \cup {Dim(w)}}, indexes' # indexes => WriterAt(w, "index"),
         DOMAIN vecDDLMu' = Procs,
         \/ vecEnsured' = vecEnsured
         \/ vecEnsured' = [vecEnsured EXCEPT ![P(w)] = @ \cup {Dim(w)}] /\ Dim(w) \in columns \cap indexes',
         UNCHANGED <<modelDim, texts, settled>>
  PROVE  VectorStrong'
<1> USE VectorAssumption DEF VectorStrong
<1>1. /\ writer' \in [Writers -> Write]
      /\ writer'[w].at = a /\ writer'[w].text = writer[w].text
      /\ writer'[w].dim = writer[w].dim /\ writer'[w].alone = writer[w].alone
      /\ \A v \in Writers \ {w} : writer'[v] = writer[v]
  BY WriteMoves
<1>2. ~settled /\ ~settled'
  BY DEF SettledInPlace
<1>3. writer[w].at \in AfterEmbed => Dim(w) \in 1..MaxVectorDim
  BY DEF WritesInPlace
<1>4. VectorTypeOK'
  <2>1. columns' \subseteq 1..MaxVectorDim
    BY <1>3 DEF VectorTypeOK
  <2>2. indexes' \subseteq columns'
    BY DEF VectorTypeOK, WritesInPlace
  <2>3. settled' \in BOOLEAN
    BY DEF VectorTypeOK
  <2> QED
    BY <2>1, <2>2, <2>3 DEF VectorTypeOK, Row, Texts
<1>5. WriterTypes'
  <2>1. vecEnsured' \in [Procs -> SUBSET Nat]
    <3>1. Dim(w) \in Nat
      BY DEF WriterTypes, Write, Dim
    <3> QED
      BY <3>1 DEF WriterTypes
  <2> QED
    BY <1>1, <2>1 DEF WriterTypes, Write, Texts
<1>6. WritesInPlace'
  <2> SUFFICES ASSUME NEW v \in Writers
               PROVE  /\ writer'[v].at \in AfterEmbed => writer'[v].dim \in Dims /\ writer'[v].dim \in 1..MaxVectorDim
                      /\ writer'[v].at = "index" => writer'[v].dim \in columns'
                      /\ writer'[v].at = "insert" => writer'[v].text = 0
    BY DEF WritesInPlace, WriterAt, Dim
  <2>1. CASE v = w
    BY <1>1, <2>1 DEF WritesInPlace, AfterEmbed, Dim
  <2>2. CASE v # w
    BY <1>1, <2>2 DEF WritesInPlace, WriterAt, Dim
  <2> QED
    BY <2>1, <2>2
<1>7. AloneInPlace'
  <2> SUFFICES ASSUME NEW v \in Writers, writer'[v].alone
               PROVE  /\ \A u \in Writers \ {v} : writer'[u].at = "idle"
                      /\ writer'[v].at \in AfterEmbed => writer'[v].dim = modelDim
                      /\ writer'[v].at \in {"embed"} \cup AfterEmbed => (chunk'.there => chunk'.text = writer'[v].text)
    BY DEF AloneInPlace, WriterAt, Dim
  <2>1. v = w
    BY <1>1 DEF AloneInPlace, WriterAt
  <2>2. \A u \in Writers \ {w} : writer'[u].at = "idle"
    BY <1>1, <2>1 DEF AloneInPlace, WriterAt
  <2>3. a # "embed" => writer[w].dim = modelDim /\ (chunk.there => chunk.text = writer[w].text)
    BY <1>1, <2>1 DEF AloneInPlace, Dim
  <2>4. a \in AfterEmbed => a # "embed"
    BY DEF AfterEmbed
  <2> QED
    BY <1>1, <2>1, <2>2, <2>3, <2>4
<1>8. SettledInPlace' /\ SettledVectorIsCurrent'
  BY <1>2 DEF SettledInPlace, SettledVectorIsCurrent
<1>9. EnsuredIsReady'
  <2>1. columns \subseteq columns' /\ indexes \subseteq indexes'
    OBVIOUS
  <2>2. \A p \in Procs : vecEnsured'[p] \subseteq vecEnsured[p] \cup (columns \cap indexes')
    BY DEF WriterTypes
  <2> QED
    BY <2>1, <2>2 DEF EnsuredIsReady
<1> QED
  BY <1>4, <1>5, <1>6, <1>7, <1>8, <1>9

\* The process of a writer is one of the two.
LEMMA MutexStays ==
  ASSUME DOMAIN vecDDLMu = Procs, NEW w, NEW x
  PROVE  DOMAIN [vecDDLMu EXCEPT ![P(w)] = x] = Procs /\ P(w) \in Procs
  BY DEF P, ProcOf, Procs

\* The statements of an edit and of a parse.
LEMMA TextKeeps ==
  ASSUME VectorStrong, NEW w \in Writers, UpdateContent(w) \/ InsertChunk(w)
  PROVE  VectorStrong'
<1> USE VectorAssumption DEF VectorStrong
<1>1. /\ UNCHANGED <<columns, indexes, vecEnsured, vecDDLMu, modelDim, texts, settled>>
      /\ ~WriterAt(w, "idle") /\ writer[w].text \in Texts /\ DOMAIN vecDDLMu' = Procs
  BY DEF UpdateContent, InsertChunk, WriterAt, Cache, WriterTypes, Write
<1>2. CASE UpdateContent(w) /\ ~chunk.there
  BY <1>1, <1>2, EndKeeps DEF UpdateContent
<1>3. CASE UpdateContent(w) /\ chunk.there
  <2>1. chunk' = [chunk EXCEPT !.text = writer[w].text] /\ WriterTo(w, "embed")
    BY <1>3 DEF UpdateContent
  <2>2. chunk' \in Row /\ chunk'.there /\ chunk'.text = writer[w].text
    BY <1>1, <1>3, <2>1 DEF VectorTypeOK, Row
  <2>3. "embed" \notin AfterEmbed /\ "embed" # "index"
    BY DEF AfterEmbed
  <2> QED
    BY <1>1, <2>1, <2>2, <2>3, MoveKeeps
<1>4. CASE InsertChunk(w)
  <2>1. chunk' = [there |-> TRUE, text |-> 0, vec |-> NoVectors] /\ WriterTo(w, "embed")
    BY <1>4 DEF InsertChunk
  <2>2. chunk' \in Row /\ chunk'.there /\ chunk'.text = 0
    BY <2>1 DEF Row, NoVectors, Unset, Texts
  <2>3. writer[w].text = 0
    BY <1>4 DEF InsertChunk, WritesInPlace
  <2>4. "embed" \notin AfterEmbed /\ "embed" # "index"
    BY DEF AfterEmbed
  <2> QED
    BY <1>1, <2>1, <2>2, <2>3, <2>4, MoveKeeps
<1> QED
  BY <1>2, <1>3, <1>4

\* The text that is embedded is the write's own, the model that of the moment.
LEMMA EmbedKeeps ==
  ASSUME VectorStrong, NEW w \in Writers, Embed(w)
  PROVE  VectorStrong'
<1> USE VectorAssumption DEF VectorStrong
<1>1. /\ UNCHANGED <<chunk, columns, indexes, vecEnsured, vecDDLMu, modelDim, texts, settled>>
      /\ WriterAt(w, "embed") /\ DOMAIN vecDDLMu' = Procs
  BY DEF Embed, Database, Cache, WriterTypes
<1>2. CASE EndWrite(w)
  BY <1>1, <1>2, EndKeeps DEF WriterAt
<1>3. ASSUME VectorColumn(modelDim), NEW at \in {"update", "lock"},
             writer' = [writer EXCEPT ![w].at = at, ![w].dim = modelDim,
                          ![w].text = EmbedText(w), ![w].old = 0]
      PROVE  VectorStrong'
  <2>1. modelDim \in Dims /\ modelDim \in 1..MaxVectorDim /\ modelDim \in Nat
    BY <1>3 DEF VectorTypeOK, VectorColumn
  <2>2. writer[w] \in Write /\ 0 \in Texts
    BY DEF WriterTypes, Texts
  <2>3. /\ writer' \in [Writers -> Write]
        /\ writer'[w].at = at /\ writer'[w].dim = modelDim
        /\ writer'[w].text = writer[w].text /\ writer'[w].alone = writer[w].alone
        /\ \A v \in Writers \ {w} : writer'[v] = writer[v]
    BY <1>3, <2>1, <2>2 DEF WriterTypes, Write, AfterEmbed, EmbedText
  <2>4. VectorTypeOK' /\ EnsuredIsReady'
    BY <1>1 DEF VectorTypeOK, EnsuredIsReady, Row, Texts
  <2>5. WriterTypes'
    BY <1>1, <2>3 DEF WriterTypes, Write, Texts
  <2>6. WritesInPlace'
    BY <1>1, <2>1, <2>3 DEF WritesInPlace, AfterEmbed, WriterAt, Dim
  <2>7. AloneInPlace'
    BY <1>1, <2>3 DEF AloneInPlace, AfterEmbed, WriterAt, Dim
  <2>8. SettledInPlace' /\ SettledVectorIsCurrent'
    <3>1. ~settled
      BY <1>1 DEF SettledInPlace, WriterAt
    <3> QED
      BY <1>1, <3>1 DEF SettledInPlace, SettledVectorIsCurrent
  <2> QED
    BY <2>4, <2>5, <2>6, <2>7, <2>8
<1>4. CASE VectorColumn(modelDim) /\ writer' = [writer EXCEPT
             ![w].at = IF modelDim \in vecEnsured[P(w)] THEN "update" ELSE "lock",
             ![w].dim = modelDim, ![w].text = EmbedText(w), ![w].old = 0]
  <2>1. CASE modelDim \in vecEnsured[P(w)]
    BY <1>3, <1>4, <2>1
  <2>2. CASE modelDim \notin vecEnsured[P(w)]
    BY <1>3, <1>4, <2>2
  <2> QED
    BY <2>1, <2>2
<1> QED
  BY <1>2, <1>4 DEF Embed

\* The column is looked for, added and indexed; the other process may be ahead.
LEMMA ColumnKeeps ==
  ASSUME VectorStrong, NEW w \in Writers, LockDDL(w) \/ AddColumn(w) \/ AddIndex(w)
  PROVE  VectorStrong'
<1> USE VectorAssumption DEF VectorStrong
<1>1. /\ UNCHANGED <<chunk, modelDim, texts, settled>>
      /\ writer[w].at \in AfterEmbed /\ chunk' \in Row
      /\ DOMAIN vecDDLMu' = Procs
  BY MutexStays DEF LockDDL, AddColumn, AddIndex, WriterAt, AfterEmbed, VectorTypeOK, Database, UnlockDDL,
     WriterTypes
<1>2. ~WriterAt(w, "idle")
  BY <1>1 DEF WriterAt, AfterEmbed
<1>3. {"update", "alter", "index"} \subseteq AfterEmbed /\ "update" # "index" /\ "alter" # "index"
      /\ "embed" \notin {"update", "alter", "index"}
  BY DEF AfterEmbed
<1>4. CASE LockDDL(w)
  <2>1. UNCHANGED <<columns, indexes, vecEnsured>>
    BY <1>4 DEF LockDDL, Database
  <2>2. PICK a \in {"update", "alter", "index"} : WriterTo(w, a) /\ (a = "index" => Dim(w) \in columns)
    BY <1>4 DEF LockDDL
  <2> QED
    BY <1>1, <1>2, <1>3, <2>1, <2>2, MoveKeeps
<1>5. CASE AddColumn(w)
  <2>1. indexes' = indexes
    BY <1>5 DEF AddColumn
  <2>2. CASE Dim(w) \in columns
    <3>1. EndWrite(w) /\ UNCHANGED <<columns, vecEnsured>>
      BY <1>5, <2>2 DEF AddColumn
    <3> QED
      BY <1>1, <1>2, <2>1, <3>1, EndKeeps
  <2>3. CASE Dim(w) \notin columns
    <3>1. WriterTo(w, "index") /\ columns' = columns \cup {Dim(w)} /\ vecEnsured' = vecEnsured
      BY <1>5, <2>3 DEF AddColumn, AfterColumn
    <3> QED
      BY <1>1, <1>2, <1>3, <2>1, <3>1, MoveKeeps
  <2> QED
    BY <2>2, <2>3
<1>6. CASE AddIndex(w)
  <2>1. /\ WriterTo(w, "update") /\ columns' = columns /\ indexes' = indexes \cup {Dim(w)}
        /\ vecEnsured' = [vecEnsured EXCEPT ![P(w)] = @ \cup {Dim(w)}]
        /\ WriterAt(w, "index")
    BY <1>6 DEF AddIndex, Remember
  <2>2. Dim(w) \in columns \cap indexes'
    BY <2>1 DEF WritesInPlace
  <2> QED
    BY <1>1, <1>2, <1>3, <2>1, <2>2, MoveKeeps
<1> QED
  BY <1>4, <1>5, <1>6

\* The vector is stored; if the write ran alone, it is the one that counts.
LEMMA StoreKeeps ==
  ASSUME VectorStrong, NEW w \in Writers, UpdateVector(w)
  PROVE  VectorStrong'
<1> USE VectorAssumption DEF VectorStrong
<1>1. /\ UNCHANGED <<columns, indexes, vecEnsured, vecDDLMu, modelDim, texts>>
      /\ WriterAt(w, "update") /\ EndWrite(w)
      /\ settled' = (chunk.there /\ writer[w].alone)
      /\ chunk' = IF chunk.there THEN [chunk EXCEPT !.vec[Dim(w)] = writer[w].text] ELSE chunk
  BY DEF UpdateVector, Cache
<1>2. /\ writer' \in [Writers -> Write]
      /\ writer'[w] = NoWrite /\ NoWrite.at = "idle" /\ ~NoWrite.alone
      /\ \A v \in Writers \ {w} : writer'[v] = writer[v]
  BY <1>1, WriteMoves
<1>3. Dim(w) \in Dims /\ writer[w].text \in Texts /\ writer[w].alone \in BOOLEAN
  BY <1>1 DEF WritesInPlace, WriterAt, AfterEmbed, WriterTypes, Write
<1>4. /\ chunk' \in Row /\ chunk'.there = chunk.there /\ chunk'.text = chunk.text
      /\ chunk.there => chunk'.vec[Dim(w)] = writer[w].text
  BY <1>1, <1>3 DEF VectorTypeOK, Row
<1>5. VectorTypeOK'
  <2>1. settled' \in BOOLEAN
    BY <1>1
  <2> QED
    BY <1>1, <1>4, <2>1 DEF VectorTypeOK, Row, Texts
<1>6. WriterTypes'
  BY <1>1, <1>2 DEF WriterTypes, Write, Texts
<1>7. WritesInPlace'
  BY <1>1, <1>2 DEF WritesInPlace, AfterEmbed, WriterAt, Dim
<1>8. AloneInPlace'
  BY <1>1, <1>2, <1>4 DEF AloneInPlace, AfterEmbed, WriterAt, Dim
<1>9. SettledInPlace' /\ SettledVectorIsCurrent'
  <2> SUFFICES ASSUME settled'
               PROVE  SettledInPlace' /\ SettledVectorIsCurrent'
    BY DEF SettledInPlace, SettledVectorIsCurrent
  <2>1. chunk.there /\ writer[w].alone
    BY <1>1
  <2>2. Dim(w) = modelDim /\ chunk.text = writer[w].text /\ \A v \in Writers \ {w} : WriterAt(v, "idle")
    BY <1>1, <2>1 DEF AloneInPlace, AfterEmbed, WriterAt
  <2>3. chunk'.there /\ chunk'.vec[modelDim'] = chunk'.text
    BY <1>1, <1>4, <2>1, <2>2
  <2> QED
    BY <1>2, <2>2, <2>3 DEF SettledInPlace, SettledVectorIsCurrent, WriterAt
<1>10. EnsuredIsReady'
  BY <1>1 DEF EnsuredIsReady
<1> QED
  BY <1>5, <1>6, <1>7, <1>8, <1>9, <1>10

\* Failures, crashes and another model only take knowledge away.
LEMMA FailuresKeep ==
  ASSUME VectorStrong,
         (\E w \in Writers : WriteFails(w)) \/ (\E p \in Procs : ProcessCrash(p)) \/ ChangeModel
  PROVE  VectorStrong'
<1> USE VectorAssumption DEF VectorStrong
<1>1. ASSUME NEW w \in Writers, WriteFails(w)
      PROVE  VectorStrong'
  <2>1. /\ EndWrite(w) /\ ~WriterAt(w, "idle") /\ DOMAIN vecDDLMu' = Procs
        /\ UNCHANGED <<chunk, columns, indexes, vecEnsured, modelDim, texts, settled>>
    BY <1>1, MutexStays DEF WriteFails, Database, UnlockDDL, WriterAt, WriterTypes
  <2> QED
    BY <2>1, EndKeeps
<1>2. ASSUME NEW p \in Procs, ProcessCrash(p)
      PROVE  VectorStrong'
  <2>1. /\ UNCHANGED <<chunk, columns, indexes, modelDim, texts, settled>>
        /\ DOMAIN vecDDLMu' = Procs
        /\ vecEnsured' = [vecEnsured EXCEPT ![p] = {}]
    BY <1>2 DEF ProcessCrash, Database, WriterTypes
  <2>2. NoWrite \in Write /\ NoWrite.at = "idle" /\ ~NoWrite.alone
    BY DEF NoWrite, Write, Texts
  <2>3. writer' \in [Writers -> Write] /\ \A w \in Writers : writer'[w] \in {NoWrite, writer[w]}
    BY <1>2, <2>2 DEF ProcessCrash, WriterTypes
  <2>4. VectorTypeOK' /\ SettledVectorIsCurrent'
    BY <2>1 DEF VectorTypeOK, SettledVectorIsCurrent, Row, Texts
  <2>5. WriterTypes'
    BY <2>1, <2>3 DEF WriterTypes, Write, Texts
  <2>6. WritesInPlace'
    BY <2>1, <2>2, <2>3 DEF WritesInPlace, AfterEmbed, WriterAt, Dim
  <2>7. AloneInPlace' /\ SettledInPlace'
    BY <2>1, <2>2, <2>3 DEF AloneInPlace, SettledInPlace, AfterEmbed, WriterAt, Dim
  <2>8. EnsuredIsReady'
    BY <2>1 DEF EnsuredIsReady, WriterTypes
  <2> QED
    BY <2>4, <2>5, <2>6, <2>7, <2>8
<1>3. CASE ChangeModel
  <2>1. /\ UNCHANGED <<chunk, columns, indexes, vecEnsured, vecDDLMu, texts>>
        /\ modelDim' \in Dims /\ settled' = FALSE
    BY <1>3 DEF ChangeModel, Database, Cache
  <2>2. writer' = [w \in Writers |-> [writer[w] EXCEPT !.alone = FALSE]]
    BY <1>3 DEF ChangeModel
  <2>3. writer' \in [Writers -> Write] /\ \A w \in Writers :
          /\ ~writer'[w].alone /\ writer'[w].at = writer[w].at
          /\ writer'[w].dim = writer[w].dim /\ writer'[w].text = writer[w].text
    BY <2>2 DEF WriterTypes, Write
  <2>4. VectorTypeOK'
    BY <2>1 DEF VectorTypeOK, Row, Texts
  <2>5. WriterTypes'
    BY <2>1, <2>3 DEF WriterTypes, Write, Texts
  <2>6. WritesInPlace'
    BY <2>1, <2>3 DEF WritesInPlace, AfterEmbed, WriterAt, Dim
  <2>7. AloneInPlace' /\ SettledInPlace' /\ SettledVectorIsCurrent' /\ EnsuredIsReady'
    BY <2>1, <2>3 DEF AloneInPlace, SettledInPlace, SettledVectorIsCurrent, EnsuredIsReady
  <2> QED
    BY <2>4, <2>5, <2>6, <2>7
<1> QED
  BY <1>1, <1>2, <1>3

\* Every step keeps the invariant.
LEMMA VectorSteps ==
  ASSUME VectorStrong, [VectorNext]_vectorVars
  PROVE  VectorStrong'
<1>1. ASSUME NEW w \in Writers, BeginEdit(w) \/ BeginParse(w)
      PROVE  VectorStrong'
  BY <1>1, BeginEditKeeps
<1>2. ASSUME NEW w \in Writers, WriteStep(w)
      PROVE  VectorStrong'
  BY <1>2, TextKeeps, EmbedKeeps, ColumnKeeps, StoreKeeps DEF WriteStep
<1>3. CASE UNCHANGED vectorVars
  <2>1. UNCHANGED <<chunk, modelDim, columns, indexes, vecEnsured, vecDDLMu, writer, texts, settled>>
    BY <1>3 DEF vectorVars
  <2>2. VectorTypeOK' /\ WriterTypes'
    BY <2>1 DEF VectorStrong, VectorTypeOK, WriterTypes, Row, Texts, Write
  <2>3. WritesInPlace' /\ AloneInPlace' /\ SettledInPlace' /\ EnsuredIsReady' /\ SettledVectorIsCurrent'
    BY <2>1 DEF VectorStrong, WritesInPlace, AloneInPlace, SettledInPlace, EnsuredIsReady,
       SettledVectorIsCurrent, AfterEmbed, WriterAt, Dim
  <2> QED
    BY <2>2, <2>3 DEF VectorStrong
<1> QED
  BY <1>1, <1>2, <1>3, FailuresKeep DEF VectorNext

\* For any edits, dimensions and faults: what a process believes to be ready has
\* its column and its index, and after a write that succeeded alone the chunk is
\* found by its own text.
THEOREM VectorsAreSound == VectorSpec => []VectorInvariant
<1>1. VectorStrong => VectorInvariant
  BY DEF VectorStrong, VectorInvariant
<1> QED
  BY <1>1, VectorStarts, VectorSteps, PTL DEF VectorSpec

-----------------------------------------------------------------------------
(***************************************************************************)
(* PublisherInvariant holds for any callers and any number of messages and *)
(* of faults: a channel carries the answers to one message at a time.      *)
(***************************************************************************)

Points == {"idle", "lock", "open", "send", "wait"}
Calls == [Callers -> [at : Points, msg : 0..MaxMessages]]
Results == {"none", "ok", "error", "unroutable", "refused"}

PublisherTypes ==
  /\ mu \in Callers \cup {"free"} /\ closed \in BOOLEAN /\ alive \in BOOLEAN
  /\ opened \in Nat /\ channel \in 0..opened
  /\ call \in Calls
  /\ inflight \in Seq((Nat \ {0}) \X Messages)
  /\ \A i \in DOMAIN inflight : inflight[i][1] <= opened
  /\ confirmation \in [Messages -> {"none", "ack", "nack"}]
  /\ result \in [Messages -> Results]
  /\ stored \subseteq Messages /\ returned \subseteq Messages

\* Who has the mutex, and with which channel; a message is one call's.
CallsInPlace ==
  /\ \A c \in Callers : call[c].at \in {"open", "send", "wait"} => mu = c
  /\ \A c \in Callers : CallAt(c, "open") => channel = 0
  /\ \A c \in Callers : call[c].at \in {"send", "wait"} => channel # 0
  /\ \A c \in Callers : IF CallAt(c, "idle") THEN Msg(c) = 0
                        ELSE Msg(c) \in Messages /\ result[Msg(c)] = "none"
  /\ \A c, d \in Callers : Msg(c) = Msg(d) /\ Msg(c) # 0 => c = d

\* A message that was not sent is not confirmed.
ConfirmedLater ==
  \A m \in Messages :
    result[m] = "none" /\ ~(\E c \in Callers : CallAt(c, "wait") /\ Msg(c) = m)
      => confirmation[m] = "none"

UnderWay == {i \in DOMAIN inflight : inflight[i][1] = channel}

\* Nothing that belongs to the current channel is under way.
Quiet == wire = <<>> /\ returns = <<>> /\ UnderWay = {}

\* The stages of the answer to message m on a channel that stands.
Unanswered(m) ==
  /\ wire = <<>> /\ returns = <<>> /\ confirmation[m] = "none"
  /\ \A i \in UnderWay : inflight[i][2] = m
  /\ \A i, j \in UnderWay : i = j
AckComes(m) ==
  /\ UnderWay = {} /\ wire = <<<<"ack", m>>>> /\ confirmation[m] = "none"
  /\ \/ returns = <<>> /\ m \in stored
     \/ returns = <<m>>
ReturnComes(m) ==
  /\ UnderWay = {} /\ wire = <<<<"return", m>>, <<"ack", m>>>> /\ confirmation[m] = "none"
  /\ returns = <<>> /\ m \in returned
NackComes(m) ==
  UnderWay = {} /\ wire = <<<<"nack", m>>>> /\ returns = <<>> /\ confirmation[m] = "none"
Answered(m) ==
  /\ UnderWay = {} /\ wire = <<>>
  /\ \/ confirmation[m] = "ack" /\ (returns = <<>> => m \in stored)
     \/ confirmation[m] = "nack" /\ returns = <<>>

OwnAnswer(m) ==
  /\ returns = <<>> \/ (returns = <<m>> /\ m \in returned)
  /\ alive => Unanswered(m) \/ AckComes(m) \/ ReturnComes(m) \/ NackComes(m) \/ Answered(m)
  /\ ~alive => wire = <<>>

\* The channel is that of the call that waits, and quiet when none does.
ChannelInPlace ==
  /\ channel = 0 => wire = <<>> /\ returns = <<>>
  /\ \A c \in Callers : CallAt(c, "wait") => OwnAnswer(Msg(c))
  /\ channel # 0 /\ (\A c \in Callers : ~CallAt(c, "wait")) => Quiet

PublisherStrong ==
  /\ PublisherTypes /\ CallsInPlace /\ ConfirmedLater /\ ChannelInPlace
  /\ NilMeansStored /\ ReturnIsOwn

(* The start, and one lemma for each part of the invariant.                *)

\* Nothing has been published at the start.
LEMMA PublisherStarts == PublisherInit => PublisherStrong
<1> SUFFICES ASSUME PublisherInit PROVE PublisherStrong
  OBVIOUS
<1> USE PublisherAssumption DEF PublisherInit, NoCall, Messages
<1>1. PublisherTypes
  <2>1. NoCall \in [at : Points, msg : 0..MaxMessages]
    BY DEF Points
  <2>2. call \in [Callers -> [at : Points, msg : 0..MaxMessages]]
    BY <2>1
  <2>3. inflight \in Seq((Nat \ {0}) \X Messages) /\ DOMAIN inflight = {}
    OBVIOUS
  <2>4. \A i \in DOMAIN inflight : inflight[i][1] <= opened
    BY <2>3
  <2>5. /\ confirmation \in [Messages -> {"none", "ack", "nack"}]
        /\ result \in [Messages -> Results]
    BY DEF Results
  <2>6. /\ mu \in Callers \cup {"free"} /\ closed \in BOOLEAN /\ alive \in BOOLEAN
        /\ opened \in Nat /\ channel \in 0..opened
        /\ stored \subseteq Messages /\ returned \subseteq Messages
    <3>1. closed \in BOOLEAN /\ alive \in BOOLEAN
      OBVIOUS
    <3>2. mu \in Callers \cup {"free"} /\ stored \subseteq Messages /\ returned \subseteq Messages
      OBVIOUS
    <3>3. opened \in Nat /\ channel \in 0..opened
      OBVIOUS
    <3> QED
      BY <3>1, <3>2, <3>3
  <2> HIDE DEF PublisherInit, NoCall, Messages
  <2> QED
    BY <2>2, <2>3, <2>4, <2>5, <2>6 DEF PublisherTypes, Calls
<1>2. CallsInPlace /\ ConfirmedLater
  BY DEF CallsInPlace, ConfirmedLater, CallAt, Msg
<1>3. ChannelInPlace /\ NilMeansStored /\ ReturnIsOwn
  BY DEF ChannelInPlace, NilMeansStored, ReturnIsOwn, CallAt
<1> QED
  BY <1>1, <1>2, <1>3 DEF PublisherStrong

\* What is appended to or taken from the messages in flight.
LEMMA InflightTypes ==
  ASSUME PublisherTypes
  PROVE  /\ \A e \in (Nat \ {0}) \X Messages :
              /\ Append(inflight, e) \in Seq((Nat \ {0}) \X Messages)
              /\ DOMAIN Append(inflight, e) = DOMAIN inflight \cup {Len(inflight) + 1}
              /\ \A i \in DOMAIN inflight : Append(inflight, e)[i] = inflight[i]
              /\ Append(inflight, e)[Len(inflight) + 1] = e
         /\ inflight # <<>> =>
              /\ Tail(inflight) \in Seq((Nat \ {0}) \X Messages)
              /\ Head(inflight) = inflight[1] /\ 1 \in DOMAIN inflight
              /\ \A i \in DOMAIN Tail(inflight) :
                   i + 1 \in DOMAIN inflight /\ Tail(inflight)[i] = inflight[i + 1]
  BY DEF PublisherTypes

\* What a call that moves on, begins or returns does to the calls.
LEMMA CallMoves ==
  ASSUME PublisherTypes, NEW c \in Callers
  PROVE  /\ \A a \in Points : CallTo(c, a) =>
              /\ call' \in Calls
              /\ call'[c].at = a /\ call'[c].msg = call[c].msg
              /\ \A d \in Callers \ {c} : call'[d] = call[d]
         /\ \A a \in Points, m \in Messages : call' = [call EXCEPT ![c] = [at |-> a, msg |-> m]] =>
              /\ call' \in Calls
              /\ call'[c].at = a /\ call'[c].msg = m
              /\ \A d \in Callers \ {c} : call'[d] = call[d]
<1> USE DEF PublisherTypes, Calls
<1>1. ASSUME NEW a \in Points, CallTo(c, a)
      PROVE  /\ call' \in Calls
             /\ call'[c].at = a /\ call'[c].msg = call[c].msg
             /\ \A d \in Callers \ {c} : call'[d] = call[d]
  <2>1. call[c] \in [at : Points, msg : 0..MaxMessages]
    OBVIOUS
  <2>2. call' = [call EXCEPT ![c] = [call[c] EXCEPT !.at = a]]
    BY <1>1 DEF CallTo
  <2>3. [call[c] EXCEPT !.at = a] \in [at : Points, msg : 0..MaxMessages]
    BY <2>1
  <2> QED
    BY <2>1, <2>2, <2>3
<1>2. ASSUME NEW a \in Points, NEW m \in Messages, call' = [call EXCEPT ![c] = [at |-> a, msg |-> m]]
      PROVE  /\ call' \in Calls
             /\ call'[c].at = a /\ call'[c].msg = m
             /\ \A d \in Callers \ {c} : call'[d] = call[d]
  <2>1. [at |-> a, msg |-> m] \in [at : Points, msg : 0..MaxMessages]
    BY PublisherAssumption DEF Messages
  <2> QED
    BY <1>2, <2>1
<1> QED
  BY <1>1, <1>2

\* A call that returns gives its message a result, the mutex back, and is idle.
LEMMA CallReturns ==
  ASSUME PublisherTypes, CallsInPlace, NEW c \in Callers, ~CallAt(c, "idle"),
         NEW res \in Results, Return(c, res)
  PROVE  /\ call' \in Calls /\ result' \in [Messages -> Results]
         /\ call'[c].at = "idle" /\ call'[c].msg = 0 /\ mu' = "free"
         /\ \A d \in Callers \ {c} : call'[d] = call[d]
         /\ Msg(c) \in Messages /\ result[Msg(c)] = "none" /\ result'[Msg(c)] = res
         /\ \A m \in Messages \ {Msg(c)} : result'[m] = result[m]
<1>1. Msg(c) \in Messages /\ result[Msg(c)] = "none"
  BY DEF CallsInPlace
<1>2. /\ result' \in [Messages -> Results] /\ result'[Msg(c)] = res
      /\ \A m \in Messages \ {Msg(c)} : result'[m] = result[m]
  BY <1>1 DEF Return, PublisherTypes
<1>3. NoCall \in [at : Points, msg : 0..MaxMessages]
  BY PublisherAssumption DEF NoCall, Points
<1>4. /\ call' \in Calls /\ call'[c] = NoCall
      /\ \A d \in Callers \ {c} : call'[d] = call[d]
  BY <1>3 DEF Return, PublisherTypes, Calls
<1> QED
  BY <1>1, <1>2, <1>4 DEF NoCall, Return
\* A call returns: the channel is given up, or has nothing on it.
LEMMA ReturnKeeps ==
  ASSUME PublisherStrong, NEW c \in Callers, ~CallAt(c, "idle"), mu \in {c, "free"},
         NEW res \in Results \ {"none"}, Return(c, res),
         res = "ok" => Msg(c) \in stored,
         res = "unroutable" => Msg(c) \in returned,
         closed' = closed, alive' = alive, opened' = opened,
         UNCHANGED <<confirmation, stored, returned>>,
         inflight' \in Seq((Nat \ {0}) \X Messages),
         \A i \in DOMAIN inflight' : inflight'[i][1] <= opened,
         \/ channel' = 0 /\ wire' = <<>> /\ returns' = <<>>
         \/ /\ UNCHANGED <<channel, wire, returns, inflight>>
            /\ channel = 0 \/ Quiet
  PROVE  PublisherStrong'
<1> USE PublisherAssumption DEF PublisherStrong
<1>1. /\ call' \in Calls /\ result' \in [Messages -> Results]
      /\ call'[c].at = "idle" /\ call'[c].msg = 0 /\ mu' = "free"
      /\ \A d \in Callers \ {c} : call'[d] = call[d]
      /\ Msg(c) \in Messages /\ result[Msg(c)] = "none" /\ result'[Msg(c)] = res
      /\ \A m \in Messages \ {Msg(c)} : result'[m] = result[m]
  BY CallReturns
<1>2. \A d \in Callers : call'[d].at \in {"idle", "lock"}
  <2> TAKE d \in Callers
  <2>1. CASE d = c
    BY <1>1, <2>1
  <2>2. CASE d # c
    <3>1. call'[d] = call[d] /\ mu # d /\ call[d].at \in Points
      BY <1>1, <2>2 DEF PublisherTypes, Calls
    <3> QED
      BY <3>1 DEF CallsInPlace, Points
  <2> QED
    BY <2>1, <2>2
<1>3. PublisherTypes'
  <2>1. channel' \in 0..opened' /\ opened' \in Nat
    BY DEF PublisherTypes
  <2> QED
    BY <1>1, <2>1 DEF PublisherTypes, Messages
<1>4. CallsInPlace'
  <2>1. \A d \in Callers : IF CallAt(d, "idle")' THEN Msg(d)' = 0
                           ELSE Msg(d)' \in Messages /\ result'[Msg(d)'] = "none"
    <3> TAKE d \in Callers
    <3>1. CASE d = c
      BY <1>1, <3>1 DEF CallAt, Msg
    <3>2. CASE d # c
      <4>1. call'[d] = call[d] /\ Msg(d)' = Msg(d)
        BY <1>1, <3>2 DEF Msg
      <4>2. CASE CallAt(d, "idle")
        BY <4>1, <4>2 DEF CallsInPlace, CallAt
      <4>3. CASE ~CallAt(d, "idle")
        <5>1. Msg(d) \in Messages /\ result[Msg(d)] = "none" /\ Msg(d) # 0
          BY <4>3 DEF CallsInPlace, Messages
        <5>2. Msg(d) # Msg(c)
          BY <3>2, <5>1 DEF CallsInPlace
        <5>3. result'[Msg(d)] = "none" /\ ~CallAt(d, "idle")'
          BY <1>1, <4>1, <4>3, <5>1, <5>2 DEF CallAt
        <5> QED
          BY <4>1, <5>1, <5>3
      <4> QED
        BY <4>2, <4>3
    <3> QED
      BY <3>1, <3>2
  <2>2. \A d, e \in Callers : Msg(d)' = Msg(e)' /\ Msg(d)' # 0 => d = e
    BY <1>1 DEF CallsInPlace, Msg
  <2> QED
    BY <1>2, <2>1, <2>2 DEF CallsInPlace, CallAt, Messages
<1>5. ConfirmedLater'
  <2> SUFFICES ASSUME NEW m \in Messages, result'[m] = "none",
                      ~(\E d \in Callers : CallAt(d, "wait")' /\ Msg(d)' = m)
               PROVE  confirmation[m] = "none"
    BY DEF ConfirmedLater, Messages
  <2>1. result[m] = "none" \/ m = Msg(c)
    BY <1>1
  <2>2. m # Msg(c)
    BY <1>1
  <2> QED
    BY <1>1, <2>1, <2>2 DEF ConfirmedLater, CallAt, Msg
<1>6. ChannelInPlace'
  <2>1. \A d \in Callers : ~CallAt(d, "wait")'
    BY <1>2 DEF CallAt
  <2> QED
    BY <2>1 DEF ChannelInPlace, Quiet, UnderWay
<1>7. NilMeansStored' /\ ReturnIsOwn'
  BY <1>1 DEF NilMeansStored, ReturnIsOwn, Messages
<1> QED
  BY <1>3, <1>4, <1>5, <1>6, <1>7
\* While the mutex is free, or held by a call that does not wait, the channel
\* is quiet or there is none.
LEMMA QuietBetween ==
  ASSUME PublisherStrong, mu = "free" \/ \E c \in Callers : mu = c /\ ~CallAt(c, "wait")
  PROVE  /\ \A d \in Callers : ~CallAt(d, "wait")
         /\ channel = 0 \/ Quiet
         /\ wire = <<>> /\ returns = <<>>
<1>1. \A d \in Callers : ~CallAt(d, "wait")
  BY PublisherAssumption DEF PublisherStrong, CallsInPlace, CallAt
<1> QED
  BY <1>1 DEF PublisherStrong, ChannelInPlace, Quiet

\* The mutex is taken, or the publisher was closed.
LEMMA LockKeeps ==
  ASSUME PublisherStrong, NEW c \in Callers, LockPublisher(c)
  PROVE  PublisherStrong'
<1> USE PublisherAssumption DEF PublisherStrong
<1>1. /\ CallAt(c, "lock") /\ mu = "free"
      /\ UNCHANGED <<closed, channel, opened, alive, returns, inflight, wire, confirmation, stored, returned>>
  BY DEF LockPublisher, broker
<1>2. channel = 0 \/ Quiet
  BY <1>1, QuietBetween
<1>3. CASE Return(c, "error")
  <2>1. inflight' \in Seq((Nat \ {0}) \X Messages) /\ \A i \in DOMAIN inflight' : inflight'[i][1] <= opened
    BY <1>1 DEF PublisherTypes
  <2>2. "error" \in Results \ {"none"} /\ ~CallAt(c, "idle")
    BY <1>1 DEF Results, CallAt
  <2> QED
    BY <1>1, <1>2, <1>3, <2>1, <2>2, ReturnKeeps
<1>4. CASE mu' = c /\ CallTo(c, IF channel = 0 THEN "open" ELSE "send") /\ result' = result
  <2> DEFINE at == IF channel = 0 THEN "open" ELSE "send"
  <2>1. /\ call' \in Calls
        /\ call'[c].at = at /\ call'[c].msg = call[c].msg
        /\ \A d \in Callers \ {c} : call'[d] = call[d]
    BY <1>4, CallMoves DEF Points
  <2>2. \A d \in Callers : /\ call[d].at \in {"idle", "lock"} /\ Msg(d)' = Msg(d)
                           /\ (CallAt(d, "idle")' <=> CallAt(d, "idle"))
                           /\ ~CallAt(d, "wait")' /\ ~CallAt(d, "wait")
    BY <1>1, <2>1 DEF PublisherTypes, Calls, Points, CallsInPlace, CallAt, Msg
  <2>3. PublisherTypes'
    BY <1>1, <1>4, <2>1 DEF PublisherTypes, Messages
  <2>4. CallsInPlace'
    BY <1>1, <1>4, <2>1, <2>2 DEF CallsInPlace, CallAt, Messages
  <2>5. ConfirmedLater'
    BY <1>1, <1>4, <2>2 DEF ConfirmedLater, Messages
  <2>6. ChannelInPlace'
    BY <1>1, <1>2, <2>2, QuietBetween DEF ChannelInPlace, Quiet, UnderWay
  <2>7. NilMeansStored' /\ ReturnIsOwn'
    BY <1>1, <1>4 DEF NilMeansStored, ReturnIsOwn, Messages
  <2> QED
    BY <2>3, <2>4, <2>5, <2>6, <2>7
<1> QED
  BY <1>3, <1>4 DEF LockPublisher

\* A new channel has nothing on it, and messages in flight are of older ones.
LEMMA OpenKeeps ==
  ASSUME PublisherStrong, NEW c \in Callers, openChannel(c)
  PROVE  PublisherStrong'
<1> USE PublisherAssumption DEF PublisherStrong
<1>1. CallAt(c, "open") /\ mu = c /\ channel = 0
  BY DEF openChannel, CallsInPlace, CallAt
<1>2. (\A d \in Callers : ~CallAt(d, "wait")) /\ wire = <<>> /\ returns = <<>>
  BY <1>1, QuietBetween DEF CallAt
<1>3. CASE /\ alive /\ channel' = opened + 1 /\ opened' = opened + 1 /\ returns' = <<>>
           /\ CallTo(c, "send") /\ UNCHANGED <<mu, closed, alive, broker, result, faults>>
  <2>1. /\ call' \in Calls
        /\ call'[c].at = "send" /\ call'[c].msg = call[c].msg
        /\ \A d \in Callers \ {c} : call'[d] = call[d]
    BY <1>3, CallMoves DEF Points
  <2>2. \A d \in Callers : /\ Msg(d)' = Msg(d) /\ ~CallAt(d, "wait")' /\ ~CallAt(d, "open")'
                           /\ (CallAt(d, "idle")' <=> CallAt(d, "idle"))
                           /\ call'[d].at \in {"send", "wait"} => d = c
    BY <1>1, <1>2, <2>1 DEF CallsInPlace, CallAt, Msg
  <2>3. channel' \in 0..opened' /\ channel' # 0 /\ opened' \in Nat
    BY <1>3 DEF PublisherTypes
  <2>4. \A i \in DOMAIN inflight : inflight[i][1] <= opened' /\ inflight[i][1] # channel'
    BY <1>3 DEF PublisherTypes
  <2>5. PublisherTypes'
    BY <1>3, <2>1, <2>3, <2>4 DEF PublisherTypes, Messages, broker
  <2>6. CallsInPlace'
    BY <1>1, <1>3, <2>1, <2>2, <2>3 DEF CallsInPlace, CallAt, Messages
  <2>7. ConfirmedLater'
    BY <1>2, <1>3, <2>2 DEF ConfirmedLater, Messages, broker
  <2>8. ChannelInPlace'
    BY <1>2, <1>3, <2>2, <2>3, <2>4 DEF ChannelInPlace, Quiet, UnderWay, broker
  <2>9. NilMeansStored' /\ ReturnIsOwn'
    BY <1>3 DEF NilMeansStored, ReturnIsOwn, Messages, broker
  <2> QED
    BY <2>5, <2>6, <2>7, <2>8, <2>9
<1>4. CASE Return(c, "error") /\ UNCHANGED <<closed, channel, opened, alive, returns, broker>>
  <2>1. inflight' \in Seq((Nat \ {0}) \X Messages) /\ \A i \in DOMAIN inflight' : inflight'[i][1] <= opened
    BY <1>4 DEF PublisherTypes, broker
  <2>2. "error" \in Results \ {"none"} /\ ~CallAt(c, "idle")
    BY <1>1 DEF Results, CallAt
  <2> QED
    BY <1>1, <1>4, <2>1, <2>2, ReturnKeeps DEF broker
<1> QED
  BY <1>3, <1>4 DEF openChannel
\* A message is given to a call, or refused; it was nobody's before.
LEMMA BeginKeeps ==
  ASSUME PublisherStrong, NEW c \in Callers, BeginPublish(c)
  PROVE  PublisherStrong'
<1> USE PublisherAssumption DEF PublisherStrong
<1>1. CallAt(c, "idle") /\ Msg(c) = 0 /\ UNCHANGED <<publisher, broker>>
  BY DEF BeginPublish, CallsInPlace
<1>2. PICK m \in Messages :
        /\ result[m] = "none" /\ \A d \in Callers : Msg(d) # m
        /\ \/ call' = [call EXCEPT ![c] = [at |-> "lock", msg |-> m]] /\ result' = result
           \/ call' = call /\ result' = [result EXCEPT ![m] = "refused"]
  BY DEF BeginPublish, Used, Msg
<1>3. /\ UNCHANGED <<mu, closed, channel, opened, alive, returns, inflight, wire, confirmation>>
      /\ UNCHANGED <<stored, returned>>
  BY <1>1 DEF publisher, broker
<1>4. CASE call' = [call EXCEPT ![c] = [at |-> "lock", msg |-> m]] /\ result' = result
  <2>1. /\ call' \in Calls
        /\ call'[c].at = "lock" /\ call'[c].msg = m
        /\ \A d \in Callers \ {c} : call'[d] = call[d]
    BY <1>4, CallMoves DEF Points
  <2>2. m # 0
    BY DEF Messages
  <2>3. \A d \in Callers : (CallAt(d, "wait")' <=> CallAt(d, "wait")) /\ (CallAt(d, "wait") => Msg(d)' = Msg(d))
    BY <1>1, <2>1 DEF CallAt, Msg
  <2>4. PublisherTypes'
    BY <1>3, <1>4, <2>1 DEF PublisherTypes, Messages
  <2>5. CallsInPlace'
    <3>1. \A d \in Callers : call'[d].at \in {"open", "send", "wait"} => d # c /\ call'[d] = call[d]
      BY <2>1
    <3>2. \A d \in Callers : IF CallAt(d, "idle")' THEN Msg(d)' = 0
                             ELSE Msg(d)' \in Messages /\ result'[Msg(d)'] = "none"
      <4> TAKE d \in Callers
      <4>1. CASE d = c
        BY <1>2, <1>4, <2>1, <4>1 DEF CallAt, Msg
      <4>2. CASE d # c
        BY <1>4, <2>1, <4>2 DEF CallsInPlace, CallAt, Msg
      <4> QED
        BY <4>1, <4>2
    <3>3. \A d, e \in Callers : Msg(d)' = Msg(e)' /\ Msg(d)' # 0 => d = e
      BY <1>2, <2>1 DEF CallsInPlace, Msg
    <3> QED
      BY <1>3, <3>1, <3>2, <3>3 DEF CallsInPlace, CallAt, Messages
  <2>6. ConfirmedLater'
    BY <1>3, <1>4, <2>3 DEF ConfirmedLater, Messages
  <2>7. ChannelInPlace'
    BY <1>3, <2>3 DEF ChannelInPlace, Quiet, UnderWay, OwnAnswer, Unanswered, AckComes, ReturnComes,
       NackComes, Answered
  <2>8. NilMeansStored' /\ ReturnIsOwn'
    BY <1>3, <1>4 DEF NilMeansStored, ReturnIsOwn, Messages
  <2> QED
    BY <2>4, <2>5, <2>6, <2>7, <2>8
<1>5. CASE call' = call /\ result' = [result EXCEPT ![m] = "refused"]
  <2>1. /\ result' \in [Messages -> Results] /\ result'[m] = "refused"
        /\ \A l \in Messages \ {m} : result'[l] = result[l]
    BY <1>5 DEF PublisherTypes, Results
  <2>2. PublisherTypes'
    BY <1>3, <1>5, <2>1 DEF PublisherTypes, Messages
  <2>3. CallsInPlace'
    BY <1>2, <1>3, <1>5, <2>1 DEF CallsInPlace, CallAt, Msg, Messages
  <2>4. ConfirmedLater'
    BY <1>2, <1>3, <1>5, <2>1 DEF ConfirmedLater, CallAt, Msg, Messages
  <2>5. ChannelInPlace'
    BY <1>3, <1>5 DEF ChannelInPlace, Quiet, UnderWay, OwnAnswer, Unanswered, AckComes, ReturnComes,
       NackComes, Answered, CallAt, Msg
  <2>6. NilMeansStored' /\ ReturnIsOwn'
    BY <1>3, <2>1 DEF NilMeansStored, ReturnIsOwn, Messages
  <2> QED
    BY <2>2, <2>3, <2>4, <2>5, <2>6
<1> QED
  BY <1>2, <1>4, <1>5

\* A message is sent on a quiet channel, or the channel is given up.
LEMMA SendKeeps ==
  ASSUME PublisherStrong, NEW c \in Callers, Send(c)
  PROVE  PublisherStrong'
<1> USE PublisherAssumption DEF PublisherStrong
<1>1. CallAt(c, "send") /\ mu = c /\ channel # 0 /\ UNCHANGED <<confirmation, stored, returned>>
  BY DEF Send, CallsInPlace, CallAt
<1>2. (\A d \in Callers : ~CallAt(d, "wait")) /\ Quiet
  BY <1>1, QuietBetween DEF CallAt
<1>3. Msg(c) \in Messages /\ result[Msg(c)] = "none" /\ confirmation[Msg(c)] = "none"
  BY <1>1, <1>2 DEF CallsInPlace, CallAt, ConfirmedLater
<1> DEFINE e == <<channel, Msg(c)>>
           longer == Append(inflight, e)
<1>4. e \in (Nat \ {0}) \X Messages /\ e[1] = channel /\ e[2] = Msg(c)
  BY <1>1, <1>3 DEF PublisherTypes
<1>5. /\ longer \in Seq((Nat \ {0}) \X Messages)
      /\ DOMAIN longer = DOMAIN inflight \cup {Len(inflight) + 1}
      /\ \A i \in DOMAIN inflight : longer[i] = inflight[i]
      /\ longer[Len(inflight) + 1] = e
  BY <1>4, InflightTypes
<1>6. \A i \in DOMAIN longer : longer[i][1] <= opened
  BY <1>4, <1>5 DEF PublisherTypes
<1>7. CASE alive /\ inflight' = longer /\ CallTo(c, "wait") /\ UNCHANGED <<publisher, wire, result, faults>>
  <2>1. /\ call' \in Calls
        /\ call'[c].at = "wait" /\ call'[c].msg = call[c].msg
        /\ \A d \in Callers \ {c} : call'[d] = call[d]
    BY <1>7, CallMoves DEF Points
  <2>2. UNCHANGED <<mu, closed, channel, opened, alive, returns, wire, result>>
    BY <1>7 DEF publisher
  <2>3. \A d \in Callers : /\ Msg(d)' = Msg(d) /\ (CallAt(d, "wait")' <=> d = c)
                           /\ (CallAt(d, "idle")' <=> CallAt(d, "idle"))
    BY <1>1, <1>2, <2>1 DEF CallAt, Msg
  <2>4. PublisherTypes'
    BY <1>1, <1>5, <1>6, <1>7, <2>1, <2>2 DEF PublisherTypes, Messages
  <2>5. CallsInPlace'
    BY <1>1, <2>1, <2>2, <2>3 DEF CallsInPlace, CallAt, Messages
  <2>6. ConfirmedLater'
    BY <1>1, <1>2, <2>2, <2>3 DEF ConfirmedLater, Messages
  <2>7. \A i \in UnderWay' : i = Len(inflight) + 1
    BY <1>2, <1>5, <1>7, <2>2 DEF Quiet, UnderWay
  <2>8. Unanswered(Msg(c))'
    BY <1>1, <1>2, <1>3, <1>4, <1>5, <1>7, <2>2, <2>3, <2>7 DEF Unanswered, Quiet
  <2>9. ChannelInPlace'
    BY <1>1, <1>2, <1>7, <2>2, <2>3, <2>8 DEF ChannelInPlace, OwnAnswer, Quiet
  <2>10. NilMeansStored' /\ ReturnIsOwn'
    BY <1>1, <2>2 DEF NilMeansStored, ReturnIsOwn, Messages
  <2> QED
    BY <2>4, <2>5, <2>6, <2>9, <2>10
<1>8. CASE /\ inflight' \in {inflight, longer}
           /\ closeChannel /\ Return(c, "error") /\ UNCHANGED <<closed, opened>>
  <2>1. inflight' \in Seq((Nat \ {0}) \X Messages) /\ \A i \in DOMAIN inflight' : inflight'[i][1] <= opened
    BY <1>5, <1>6, <1>8 DEF PublisherTypes
  <2>2. "error" \in Results \ {"none"} /\ ~CallAt(c, "idle")
    BY <1>1 DEF Results, CallAt
  <2>3. channel' = 0 /\ wire' = <<>> /\ returns' = <<>> /\ alive' = alive
    BY <1>8 DEF closeChannel
  <2> QED
    BY <1>1, <1>8, <2>1, <2>2, <2>3, ReturnKeeps
<1> QED
  BY <1>7, <1>8 DEF Send
\* The call that waits has the mutex, and the channel is its own.
LEMMA Waiter ==
  ASSUME PublisherStrong, NEW c \in Callers, CallAt(c, "wait")
  PROVE  /\ mu = c /\ channel # 0 /\ Msg(c) \in Messages /\ result[Msg(c)] = "none"
         /\ OwnAnswer(Msg(c))
         /\ \A d \in Callers : CallAt(d, "wait") => d = c
  BY PublisherAssumption DEF PublisherStrong, CallsInPlace, ChannelInPlace, CallAt

\* A call that is told ok had its answer in full, and leaves a quiet channel.
LEMMA ConfirmedKeeps ==
  ASSUME PublisherStrong, NEW c \in Callers, Confirmed(c)
  PROVE  PublisherStrong'
<1>1. /\ CallAt(c, "wait") /\ alive /\ confirmation[Msg(c)] = "ack" /\ returns = <<>>
      /\ Return(c, "ok")
      /\ UNCHANGED <<closed, channel, opened, alive, returns, inflight, wire, confirmation, stored, returned>>
  BY DEF Confirmed, broker
<1>2. Answered(Msg(c))
  BY <1>1, Waiter DEF OwnAnswer, Unanswered, AckComes, ReturnComes, NackComes
<1>3. Quiet /\ Msg(c) \in stored
  BY <1>1, <1>2 DEF Answered, Quiet
<1>4. inflight' \in Seq((Nat \ {0}) \X Messages) /\ \A i \in DOMAIN inflight' : inflight'[i][1] <= opened
  BY <1>1 DEF PublisherStrong, PublisherTypes
<1>5. "ok" \in Results \ {"none"} /\ ~CallAt(c, "idle") /\ mu = c
  BY <1>1, Waiter DEF Results, CallAt
<1> QED
  BY <1>1, <1>3, <1>4, <1>5, ReturnKeeps

\* A call that fails gives its channel up; a returned message is its own.
LEMMA GivesUpKeeps ==
  ASSUME PublisherStrong, NEW c \in Callers, Rejected(c) \/ GiveUp(c)
  PROVE  PublisherStrong'
<1>1. /\ CallAt(c, "wait") /\ closeChannel
      /\ UNCHANGED <<closed, opened, inflight, confirmation, stored, returned>>
      /\ (returns # <<>> /\ Return(c, "unroutable")) \/ Return(c, "error")
  BY DEF Rejected, GiveUp, TimedOut
<1>2. returns # <<>> => Msg(c) \in returned
  BY <1>1, Waiter DEF OwnAnswer
<1>3. inflight' \in Seq((Nat \ {0}) \X Messages) /\ \A i \in DOMAIN inflight' : inflight'[i][1] <= opened
  BY <1>1 DEF PublisherStrong, PublisherTypes
<1>4. {"error", "unroutable"} \subseteq Results \ {"none"} /\ ~CallAt(c, "idle") /\ mu = c
  BY <1>1, Waiter DEF Results, CallAt
<1>5. channel' = 0 /\ wire' = <<>> /\ returns' = <<>> /\ alive' = alive
  BY <1>1 DEF closeChannel
<1>6. CASE returns # <<>> /\ Return(c, "unroutable")
  <2>1. "unroutable" # "ok"
    OBVIOUS
  <2> QED
    BY <1>1, <1>2, <1>3, <1>4, <1>5, <1>6, <2>1, ReturnKeeps
<1>7. CASE Return(c, "error")
  BY <1>1, <1>3, <1>4, <1>5, <1>7, ReturnKeeps
<1> QED
  BY <1>1, <1>6, <1>7

\* Closing leaves no channel.
LEMMA CloseKeeps ==
  ASSUME PublisherStrong, Close
  PROVE  PublisherStrong'
<1> USE PublisherAssumption DEF PublisherStrong
<1>1. /\ mu = "free" /\ closed' = TRUE /\ channel' = 0 /\ returns' = <<>> /\ wire' = <<>>
      /\ UNCHANGED <<mu, opened, alive, inflight, confirmation, stored, returned, call, result>>
  BY DEF Close, closeChannel
<1>2. \A d \in Callers : call[d].at \notin {"open", "send", "wait"}
  BY <1>1 DEF CallsInPlace
<1>3. PublisherTypes'
  BY <1>1 DEF PublisherTypes, Messages
<1>4. CallsInPlace'
  BY <1>1, <1>2 DEF CallsInPlace, CallAt, Msg, Messages
<1>5. ConfirmedLater'
  BY <1>1 DEF ConfirmedLater, CallAt, Msg, Messages
<1>6. ChannelInPlace'
  BY <1>1, <1>2 DEF ChannelInPlace, CallAt
<1>7. NilMeansStored' /\ ReturnIsOwn'
  BY <1>1 DEF NilMeansStored, ReturnIsOwn, Messages
<1> QED
  BY <1>3, <1>4, <1>5, <1>6, <1>7

\* A lost connection leaves the buffer only.
LEMMA LoseKeeps ==
  ASSUME PublisherStrong, LoseConnection
  PROVE  PublisherStrong'
<1> USE PublisherAssumption DEF PublisherStrong
<1>1. /\ alive' = FALSE /\ wire' = <<>>
      /\ UNCHANGED <<mu, closed, channel, opened, returns, inflight, confirmation, stored, returned, call, result>>
  BY DEF LoseConnection
<1>2. PublisherTypes'
  BY <1>1 DEF PublisherTypes, Messages
<1>3. CallsInPlace' /\ ConfirmedLater'
  BY <1>1 DEF CallsInPlace, ConfirmedLater, CallAt, Msg, Messages
<1>4. ChannelInPlace'
  BY <1>1 DEF ChannelInPlace, CallAt, Msg, OwnAnswer, Quiet, UnderWay
<1>5. NilMeansStored' /\ ReturnIsOwn'
  BY <1>1 DEF NilMeansStored, ReturnIsOwn, Messages
<1> QED
  BY <1>2, <1>3, <1>4, <1>5

\* The broker handles a message: the answer to one of the current channel is
\* that to the call that waits.
LEMMA HandleKeeps ==
  ASSUME PublisherStrong, Handle
  PROVE  PublisherStrong'
<1> USE PublisherAssumption DEF PublisherStrong
<1> DEFINE ch == Head(inflight)[1]
           m == Head(inflight)[2]
<1>1. /\ inflight # <<>> /\ inflight' = Tail(inflight)
      /\ UNCHANGED <<mu, closed, channel, opened, alive, returns, confirmation, call, result>>
  BY DEF Handle, publisher
<1>2. /\ inflight' \in Seq((Nat \ {0}) \X Messages)
      /\ Head(inflight) = inflight[1] /\ 1 \in DOMAIN inflight
      /\ \A i \in DOMAIN inflight' : i + 1 \in DOMAIN inflight /\ inflight'[i] = inflight[i + 1]
  BY <1>1, InflightTypes
<1>3. ch \in Nat \ {0} /\ m \in Messages
  <2>1. inflight[1] \in (Nat \ {0}) \X Messages
    BY <1>2 DEF PublisherTypes
  <2> QED
    BY <1>2, <2>1
<1> DEFINE ack == <<<<"ack", m>>>>
           back == <<<<"return", m>>, <<"ack", m>>>>
           nack == <<<<"nack", m>>>>
<1>4. \/ /\ stored' = stored \cup {m} /\ returned' = returned
         /\ wire' = IF ch = channel /\ alive THEN wire \o ack ELSE wire
      \/ /\ returned' = returned \cup {m} /\ stored' = stored
         /\ wire' = IF ch = channel /\ alive THEN wire \o back ELSE wire
      \/ /\ UNCHANGED <<stored, returned>>
         /\ wire' = IF ch = channel /\ alive THEN wire \o nack ELSE wire
      \/ UNCHANGED <<stored, returned, wire>> /\ (ch # channel \/ ~alive)
  BY DEF Handle
<1>5. /\ stored \subseteq stored' /\ returned \subseteq returned'
      /\ stored' \subseteq Messages /\ returned' \subseteq Messages
  <2>1. stored \subseteq Messages /\ returned \subseteq Messages
    BY DEF PublisherTypes
  <2> HIDE DEF m, ch
  <2> QED
    BY <1>3, <1>4, <2>1
<1>6. PublisherTypes'
  <2>1. \A i \in DOMAIN inflight' : inflight'[i][1] <= opened
    BY <1>2 DEF PublisherTypes
  <2> HIDE DEF m, ch
  <2> QED
    BY <1>1, <1>2, <1>5, <2>1 DEF PublisherTypes, Messages
<1>7. CallsInPlace' /\ ConfirmedLater'
  BY <1>1 DEF CallsInPlace, ConfirmedLater, CallAt, Msg, Messages
<1>8. NilMeansStored' /\ ReturnIsOwn'
  BY <1>1, <1>5 DEF NilMeansStored, ReturnIsOwn, Messages
<1>9. \A i \in UnderWay' : i + 1 \in UnderWay /\ i \in Nat \ {0} /\ inflight'[i] = inflight[i + 1]
  <2>1. DOMAIN inflight' \subseteq Nat \ {0}
    BY <1>2
  <2> QED
    BY <1>1, <1>2, <2>1 DEF UnderWay
<1>10. ChannelInPlace'
  <2>1. CASE ch = channel /\ alive
    <3>1. 1 \in UnderWay /\ channel # 0
      BY <1>2, <1>3, <2>1 DEF UnderWay
    <3>2. PICK c \in Callers : CallAt(c, "wait")
      BY <3>1 DEF ChannelInPlace, Quiet
    <3>3. OwnAnswer(Msg(c)) /\ \A d \in Callers : CallAt(d, "wait") => d = c
      BY <3>2, Waiter
    <3>4. Unanswered(Msg(c))
      BY <2>1, <3>1, <3>3 DEF OwnAnswer, AckComes, ReturnComes, NackComes, Answered
    <3>5. m = Msg(c)
      BY <1>2, <3>1, <3>4 DEF Unanswered
    <3>6. UnderWay' = {}
      BY <1>9, <3>1, <3>4 DEF Unanswered
    <3>7. wire = <<>> /\ returns = <<>> /\ confirmation[m] = "none"
      BY <3>4, <3>5 DEF Unanswered
    <3>8. /\ <<>> \o ack = ack /\ <<>> \o back = back /\ <<>> \o nack = nack
      OBVIOUS
    <3>9. PICK k \in Messages : k = m
      BY <1>3
    <3>10. AckComes(k)' \/ ReturnComes(k)' \/ NackComes(k)'
      <4>1. \/ wire' = ack /\ k \in stored'
            \/ wire' = back /\ k \in returned'
            \/ wire' = nack
        <5> HIDE DEF m, ch, ack, back, nack
        <5> QED
          BY <1>4, <2>1, <3>7, <3>8, <3>9
      <4>2. ack = <<<<"ack", k>>>> /\ back = <<<<"return", k>>, <<"ack", k>>>> /\ nack = <<<<"nack", k>>>>
        BY <3>9
      <4>3. returns' = <<>> /\ confirmation'[k] = "none"
        BY <1>1, <3>7, <3>9
      <4> HIDE DEF m, ch, ack, back, nack
      <4> QED
        BY <3>6, <4>1, <4>2, <4>3 DEF AckComes, ReturnComes, NackComes
    <3>11. \A d \in Callers : CallAt(d, "wait")' => Msg(d)' = k
      BY <1>1, <3>3, <3>5, <3>9 DEF CallAt, Msg
    <3>12. OwnAnswer(k)'
      <4>1. returns' = <<>> /\ alive'
        BY <1>1, <2>1, <3>7
      <4> HIDE DEF m, ch, ack, back, nack
      <4> QED
        BY <3>10, <4>1 DEF OwnAnswer
    <3>13. CallAt(c, "wait")' /\ channel' # 0
      BY <1>1, <3>1, <3>2 DEF CallAt
    <3> HIDE DEF m, ch, ack, back, nack
    <3> QED
      BY <3>11, <3>12, <3>13 DEF ChannelInPlace
  <2>2. CASE ~(ch = channel /\ alive)
    <3>1. wire' = wire
      BY <1>4, <2>2
    <3>2. UnderWay = {} => UnderWay' = {}
      BY <1>9
    <3>3. ASSUME NEW k, Unanswered(k)
          PROVE  Unanswered(k)'
      <4> HIDE DEF m, ch, ack, back, nack
      <4>1. \A i \in UnderWay' : inflight'[i][2] = k
        BY <1>9, <3>3 DEF Unanswered
      <4>2. \A i, j \in UnderWay' : i = j
        <5> TAKE i, j \in UnderWay'
        <5>1. i + 1 = j + 1 /\ i \in Nat /\ j \in Nat
          BY <1>9, <3>3 DEF Unanswered
        <5> QED
          BY <5>1
      <4> QED
        BY <1>1, <3>1, <3>3, <4>1, <4>2 DEF Unanswered
    <3>4. \A k : /\ AckComes(k) => AckComes(k)'
                 /\ ReturnComes(k) => ReturnComes(k)'
                 /\ NackComes(k) => NackComes(k)'
                 /\ Answered(k) => Answered(k)'
      BY <1>1, <1>5, <3>1, <3>2 DEF AckComes, ReturnComes, NackComes, Answered
    <3>5. \A k : OwnAnswer(k) => OwnAnswer(k)'
      BY <1>1, <1>5, <3>1, <3>3, <3>4 DEF OwnAnswer
    <3>6. \A d \in Callers : (CallAt(d, "wait")' <=> CallAt(d, "wait")) /\ Msg(d)' = Msg(d)
      BY <1>1 DEF CallAt, Msg
    <3>7. Quiet => Quiet'
      BY <1>1, <3>1, <3>2 DEF Quiet
    <3> HIDE DEF m, ch, ack, back, nack
    <3> QED
      BY <1>1, <3>1, <3>5, <3>6, <3>7 DEF ChannelInPlace
  <2> QED
    BY <2>1, <2>2
<1> QED
  BY <1>6, <1>7, <1>8, <1>10

\* An answer reaches the publisher: it is for the call that waits.
LEMMA DeliverKeeps ==
  ASSUME PublisherStrong, Deliver
  PROVE  PublisherStrong'
<1> USE PublisherAssumption DEF PublisherStrong
<1>1. /\ wire # <<>> /\ wire' = Tail(wire)
      /\ UNCHANGED <<mu, closed, channel, opened, alive, inflight, stored, returned, call, result>>
  BY DEF Deliver
<1>2. PICK c \in Callers : CallAt(c, "wait")
  BY <1>1 DEF ChannelInPlace, Quiet
<1>3. PICK k \in Messages : k = Msg(c)
  BY <1>2, Waiter
<1>4. /\ OwnAnswer(k) /\ channel # 0 /\ alive /\ result[k] = "none"
      /\ \A d \in Callers : CallAt(d, "wait") => d = c
  BY <1>1, <1>2, <1>3, Waiter DEF OwnAnswer
<1>5. UnderWay' = UnderWay
  BY <1>1 DEF UnderWay
<1>6. \/ AckComes(k) /\ confirmation' = [confirmation EXCEPT ![k] = "ack"] /\ returns' = returns
      \/ NackComes(k) /\ confirmation' = [confirmation EXCEPT ![k] = "nack"] /\ returns' = returns
      \/ ReturnComes(k) /\ confirmation' = confirmation /\ returns' = <<k>>
  BY <1>1, <1>4 DEF OwnAnswer, Unanswered, AckComes, NackComes, ReturnComes, Answered, Deliver
<1>7. confirmation' \in [Messages -> {"none", "ack", "nack"}]
      /\ \A l \in Messages \ {k} : confirmation'[l] = confirmation[l]
  BY <1>6 DEF PublisherTypes
<1>8. OwnAnswer(k)'
  <2>1. CASE AckComes(k) /\ confirmation' = [confirmation EXCEPT ![k] = "ack"] /\ returns' = returns
    <3>1. UnderWay = {} /\ wire' = <<>> /\ confirmation'[k] = "ack"
      BY <1>1, <2>1 DEF AckComes, PublisherTypes
    <3>2. returns' = <<>> => k \in stored
      BY <2>1 DEF AckComes
    <3> QED
      BY <1>1, <1>4, <1>5, <2>1, <3>1, <3>2 DEF OwnAnswer, Answered
  <2>2. CASE NackComes(k) /\ confirmation' = [confirmation EXCEPT ![k] = "nack"] /\ returns' = returns
    <3>1. UnderWay = {} /\ wire' = <<>> /\ confirmation'[k] = "nack" /\ returns' = <<>>
      BY <1>1, <2>2 DEF NackComes, PublisherTypes
    <3> QED
      BY <1>1, <1>4, <1>5, <3>1 DEF OwnAnswer, Answered
  <2>3. CASE ReturnComes(k) /\ confirmation' = confirmation /\ returns' = <<k>>
    <3>1. UnderWay = {} /\ wire' = <<<<"ack", k>>>> /\ k \in returned /\ confirmation[k] = "none"
      BY <1>1, <2>3 DEF ReturnComes
    <3> QED
      BY <1>1, <1>4, <1>5, <2>3, <3>1 DEF OwnAnswer, AckComes
  <2> QED
    BY <1>6, <2>1, <2>2, <2>3
<1>9. PublisherTypes'
  BY <1>1, <1>7 DEF PublisherTypes, Messages
<1>10. CallsInPlace'
  BY <1>1 DEF CallsInPlace, CallAt, Msg, Messages
<1>11. ConfirmedLater'
  <2>1. CallAt(c, "wait")' /\ Msg(c)' = k
    BY <1>1, <1>2, <1>3 DEF CallAt, Msg
  <2> QED
    BY <1>1, <1>7, <2>1 DEF ConfirmedLater, CallAt, Msg, Messages
<1>12. ChannelInPlace'
  <2>1. \A d \in Callers : CallAt(d, "wait")' => Msg(d)' = k
    BY <1>1, <1>3, <1>4 DEF CallAt, Msg
  <2>2. CallAt(c, "wait")' /\ channel' # 0
    BY <1>1, <1>2, <1>4 DEF CallAt
  <2> QED
    BY <1>8, <2>1, <2>2 DEF ChannelInPlace
<1>13. NilMeansStored' /\ ReturnIsOwn'
  BY <1>1 DEF NilMeansStored, ReturnIsOwn, Messages
<1> QED
  BY <1>9, <1>10, <1>11, <1>12, <1>13

\* The parts of the invariant say that nothing but one return is buffered.
LEMMA StrongIsEnough ==
  ASSUME PublisherStrong
  PROVE  PublisherInvariant
<1> USE DEF PublisherStrong
<1>1. Len(returns) <= 1
  <2>1. CASE \E c \in Callers : CallAt(c, "wait")
    <3>1. PICK c \in Callers : OwnAnswer(Msg(c))
      BY <2>1, Waiter
    <3>2. returns = <<>> \/ returns = <<Msg(c)>>
      BY <3>1 DEF OwnAnswer
    <3> HIDE DEF PublisherStrong
    <3>3. CASE returns = <<>>
      BY <3>3
    <3>4. CASE returns = <<Msg(c)>>
      BY <3>4
    <3> QED
      BY <3>2, <3>3, <3>4
  <2>2. CASE \A c \in Callers : ~CallAt(c, "wait")
    <3>1. returns = <<>>
      BY <2>2 DEF ChannelInPlace, Quiet
    <3> HIDE DEF PublisherStrong
    <3> QED
      BY <3>1
  <2> QED
    BY <2>1, <2>2
<1>2. PublisherTypeOK
  BY <1>1 DEF PublisherTypeOK, PublisherTypes, Results, ChannelInPlace
<1> QED
  BY <1>2 DEF PublisherInvariant

\* Every step keeps the invariant.
LEMMA PublisherSteps ==
  ASSUME PublisherStrong, [PublisherNext]_publishVars
  PROVE  PublisherStrong'
<1>1. ASSUME NEW c \in Callers, BeginPublish(c)
      PROVE  PublisherStrong'
  BY <1>1, BeginKeeps
<1>2. ASSUME NEW c \in Callers, CallStep(c)
      PROVE  PublisherStrong'
  BY <1>2, LockKeeps, OpenKeeps, SendKeeps, ConfirmedKeeps, GivesUpKeeps DEF CallStep
<1>3. CASE Close
  BY <1>3, CloseKeeps
<1>4. CASE Handle
  BY <1>4, HandleKeeps
<1>5. CASE Deliver
  BY <1>5, DeliverKeeps
<1>6. CASE LoseConnection
  BY <1>6, LoseKeeps
<1>7. CASE UNCHANGED publishVars
  <2>1. /\ UNCHANGED <<mu, closed, channel, opened, alive, returns, inflight, wire, confirmation>>
        /\ UNCHANGED <<stored, returned, call, result>>
    BY <1>7 DEF publishVars, publisher, broker
  <2>2. PublisherTypes'
    BY <2>1 DEF PublisherStrong, PublisherTypes, Messages
  <2>3. CallsInPlace' /\ ConfirmedLater'
    BY <2>1 DEF PublisherStrong, CallsInPlace, ConfirmedLater, CallAt, Msg, Messages
  <2>4. ChannelInPlace'
    BY <2>1 DEF PublisherStrong, ChannelInPlace, Quiet, UnderWay, OwnAnswer, Unanswered, AckComes,
       ReturnComes, NackComes, Answered, CallAt, Msg
  <2>5. NilMeansStored' /\ ReturnIsOwn'
    BY <2>1 DEF PublisherStrong, NilMeansStored, ReturnIsOwn, Messages
  <2> QED
    BY <2>2, <2>3, <2>4, <2>5 DEF PublisherStrong
<1> QED
  BY <1>1, <1>2, <1>3, <1>4, <1>5, <1>6, <1>7 DEF PublisherNext

\* What publish answers is true for any number of callers, messages and faults:
\* no error means that the message is stored, and a return is the caller's own.
THEOREM AnswersAreTrue == PublisherSpec => []PublisherInvariant
<1>1. PublisherInit => PublisherStrong
  BY PublisherStarts
<1>2. PublisherStrong /\ [PublisherNext]_publishVars => PublisherStrong'
  BY PublisherSteps
<1>3. PublisherStrong => PublisherInvariant
  BY StrongIsEnough
<1> QED
  BY <1>1, <1>2, <1>3, PTL DEF PublisherSpec

-----------------------------------------------------------------------------
(***************************************************************************)
(* MigrationInvariant holds for any number of processes and of faults, and *)
(* any releases.                                                           *)
(***************************************************************************)

Todo(p) == starter[p].todo
Ran(p) == starter[p].ran
Sorted(s) == \A i, j \in DOMAIN s : i < j => s[i] < s[j]
Before(s, t) == \A i \in DOMAIN s, j \in DOMAIN t : s[i] < t[j]

MigrationTypes ==
  /\ files \in [Starters -> Listings] /\ lock \in Starters \cup {"free"}
  /\ executed \in Seq(Nat)
  /\ starter \in [Starters -> [at : {"discover", "lock", "apply"} \cup Ended, todo : Seq(Nat), ran : Seq(Nat)]]

\* What an open transaction has run and has yet to look at is the release, in
\* order, without what has been committed; nobody fails on what others did.
StartersInPlace ==
  \A p \in Starters :
    /\ Waiting(p, "discover") \/ Waiting(p, "lock") => Ran(p) = <<>>
    /\ Waiting(p, "lock") => ToSet(Todo(p)) = ToSet(files[p])
    /\ Waiting(p, "apply") => lock = p
    /\ Waiting(p, "apply") =>
         /\ ToSet(Todo(p)) \cup ToSet(Ran(p)) \subseteq ToSet(files[p])
         /\ ToSet(files[p]) \subseteq ToSet(Todo(p)) \cup ToSet(Ran(p)) \cup ToSet(executed)
         /\ ToSet(Ran(p)) \cap ToSet(executed) = {}
    /\ Waiting(p, "lock") \/ Waiting(p, "apply") => Sorted(Todo(p)) /\ Sorted(Ran(p)) /\ Before(Ran(p), Todo(p))
    /\ Waiting(p, "failed") => Cardinality(ToSet(files[p])) < Len(files[p])

MigrationStrong == MigrationTypes /\ StartersInPlace /\ WholeReleases /\ Ascending

-----------------------------------------------------------------------------
(* Sequences of versions.                                                  *)

LEMMA InToSet ==
  ASSUME NEW s \in Seq(Nat)
  PROVE  \A x : x \in ToSet(s) <=> \E i \in 1..Len(s) : s[i] = x
BY DEF ToSet

LEMMA ToSetOfSeq ==
  ASSUME NEW s \in Seq(Nat)
  PROVE  /\ ToSet(s) \subseteq Nat /\ IsFiniteSet(ToSet(s))
         /\ ToSet(s) = {s[i] : i \in 1..Len(s)}
         /\ s # <<>> => Head(s) \in ToSet(s)
<1>1. s \in Surjection(1..Len(s), ToSet(s))
  BY DEF Surjection, ToSet
<1>2. IsFiniteSet(1..Len(s))
  BY FS_Interval
<1> QED
  BY <1>1, <1>2, FS_Surjection DEF ToSet

\* Taking the head of a list, and appending it to another.
LEMMA ToSetOfTail ==
  ASSUME NEW s \in Seq(Nat), s # <<>>, NEW t \in Seq(Nat)
  PROVE  /\ ToSet(s) = {Head(s)} \cup ToSet(Tail(s))
         /\ ToSet(Append(t, Head(s))) = ToSet(t) \cup {Head(s)}
         /\ Sorted(s) /\ Sorted(t) /\ Before(t, s) =>
              /\ Sorted(Tail(s)) /\ Before(t, Tail(s))
              /\ Sorted(Append(t, Head(s))) /\ Before(Append(t, Head(s)), Tail(s))
<1>1. Len(s) \in Nat \ {0} /\ Tail(s) \in Seq(Nat) /\ Len(Tail(s)) = Len(s) - 1 /\ Head(s) = s[1] /\ Head(s) \in Nat
  OBVIOUS
<1>2. \A i \in 1..(Len(s) - 1) : Tail(s)[i] = s[i + 1] /\ i + 1 \in 1..Len(s)
  BY <1>1
<1>3. \A i \in 1..Len(s) : i # 1 => i - 1 \in 1..(Len(s) - 1) /\ Tail(s)[i - 1] = s[i]
  BY <1>1
<1>4. ToSet(s) = {Head(s)} \cup ToSet(Tail(s))
  <2>1. ASSUME NEW x \in ToSet(s)
        PROVE  x \in {Head(s)} \cup ToSet(Tail(s))
    <3>1. PICK i \in 1..Len(s) : s[i] = x
      BY InToSet
    <3> QED
      BY <1>1, <1>3, <3>1, InToSet
  <2>2. ToSet(Tail(s)) \subseteq ToSet(s)
    <3>1. ASSUME NEW x \in ToSet(Tail(s))
          PROVE  x \in ToSet(s)
      <4>0. \A r \in Seq(Nat) : x \in ToSet(r) => \E i \in 1..Len(r) : r[i] = x
        BY InToSet
      <4>1. PICK i \in 1..(Len(s) - 1) : Tail(s)[i] = x
        BY <1>1, <4>0
      <4> QED
        BY <1>2, <4>1, InToSet
    <3> QED
      BY <3>1
  <2>3. Head(s) \in ToSet(s)
    BY <1>1, InToSet
  <2> QED
    BY <2>1, <2>2, <2>3
<1> DEFINE u == Append(t, Head(s))
<1>5. /\ u \in Seq(Nat) /\ Len(u) = Len(t) + 1 /\ u[Len(t) + 1] = Head(s)
      /\ \A i \in 1..Len(t) : u[i] = t[i]
  BY <1>1
<1> HIDE DEF u
<1>6. ToSet(u) = ToSet(t) \cup {Head(s)}
  <2>1. ASSUME NEW x
        PROVE  x \in ToSet(u) <=> x \in ToSet(t) \/ x = Head(s)
    <3>1. x \in ToSet(u) <=> \E i \in 1..(Len(t) + 1) : u[i] = x
      BY <1>5, InToSet
    <3>2. x \in ToSet(t) <=> \E i \in 1..Len(t) : t[i] = x
      BY InToSet
    <3>3. \A i \in 1..(Len(t) + 1) : i \in 1..Len(t) \/ i = Len(t) + 1
      OBVIOUS
    <3>4. Len(t) + 1 \in 1..(Len(t) + 1) /\ \A i \in 1..Len(t) : i \in 1..(Len(t) + 1)
      OBVIOUS
    <3> QED
      BY <1>5, <3>1, <3>2, <3>3, <3>4
  <2> QED
    BY <2>1
<1>7. ASSUME Sorted(s), Sorted(t), Before(t, s)
      PROVE  /\ Sorted(Tail(s)) /\ Before(t, Tail(s))
             /\ Sorted(u) /\ Before(u, Tail(s))
  <2>1. Sorted(Tail(s))
    BY <1>1, <1>2, <1>7 DEF Sorted
  <2>2. Before(t, Tail(s))
    BY <1>1, <1>2, <1>7 DEF Before
  <2>3. \A i \in 1..Len(t) : t[i] < Head(s)
    BY <1>1, <1>7 DEF Before
  <2>4. Sorted(u)
    <3> SUFFICES ASSUME NEW i \in 1..(Len(t) + 1), NEW j \in 1..(Len(t) + 1), i < j
                 PROVE  u[i] < u[j]
      BY <1>5 DEF Sorted
    <3>1. i \in 1..Len(t)
      OBVIOUS
    <3>2. CASE j \in 1..Len(t)
      <4>1. DOMAIN t = 1..Len(t)
        OBVIOUS
      <4>2. t[i] < t[j]
        BY <1>7, <3>1, <3>2, <4>1 DEF Sorted
      <4> QED
        BY <1>5, <3>1, <3>2, <4>2
    <3>3. CASE j = Len(t) + 1
      BY <1>5, <2>3, <3>1, <3>3
    <3>4. j \in 1..Len(t) \/ j = Len(t) + 1
      OBVIOUS
    <3> QED
      BY <3>2, <3>3, <3>4
  <2>5. \A j \in 1..(Len(s) - 1) : Head(s) < Tail(s)[j]
    <3> SUFFICES ASSUME NEW j \in 1..(Len(s) - 1)
                 PROVE  s[1] < s[j + 1]
      BY <1>1, <1>2
    <3>1. 1 \in DOMAIN s /\ j + 1 \in DOMAIN s /\ 1 < j + 1
      BY <1>1
    <3> QED
      BY <1>7, <3>1 DEF Sorted
  <2>6. Before(u, Tail(s))
    <3> SUFFICES ASSUME NEW i \in 1..(Len(t) + 1), NEW j \in 1..(Len(s) - 1)
                 PROVE  u[i] < Tail(s)[j]
      BY <1>1, <1>5 DEF Before
    <3>1. CASE i \in 1..Len(t)
      <4>1. DOMAIN t = 1..Len(t) /\ j \in DOMAIN Tail(s)
        BY <1>1
      <4>2. t[i] < Tail(s)[j]
        BY <2>2, <3>1, <4>1 DEF Before
      <4> QED
        BY <1>5, <3>1, <4>2
    <3>2. CASE i = Len(t) + 1
      BY <1>5, <2>5, <3>2
    <3> QED
      BY <3>1, <3>2
  <2> QED
    BY <2>1, <2>2, <2>4, <2>6
<1> QED
  BY <1>4, <1>6, <1>7 DEF u

LEMMA ToSetOfConcat ==
  ASSUME NEW s \in Seq(Nat), NEW t \in Seq(Nat)
  PROVE  ToSet(s \o t) = ToSet(s) \cup ToSet(t)
<1>1. /\ s \o t \in Seq(Nat) /\ Len(s \o t) = Len(s) + Len(t)
      /\ \A i \in 1..Len(s) : (s \o t)[i] = s[i]
      /\ \A i \in 1..Len(t) : (s \o t)[Len(s) + i] = t[i]
  OBVIOUS
<1>2. \A i \in 1..(Len(s) + Len(t)) : i \in 1..Len(s) \/ (i - Len(s) \in 1..Len(t) /\ i = Len(s) + (i - Len(s)))
  OBVIOUS
<1>3. \A i \in 1..Len(t) : Len(s) + i \in 1..(Len(s) + Len(t))
  OBVIOUS
<1>4. \A i \in 1..Len(s) : i \in 1..(Len(s) + Len(t))
  OBVIOUS
<1>5. ASSUME NEW x
      PROVE  x \in ToSet(s \o t) <=> x \in ToSet(s) \/ x \in ToSet(t)
  <2>1. x \in ToSet(s \o t) <=> \E i \in 1..(Len(s) + Len(t)) : (s \o t)[i] = x
    <3>1. \A r \in Seq(Nat) : x \in ToSet(r) <=> \E i \in 1..Len(r) : r[i] = x
      BY InToSet
    <3> QED
      BY <1>1, <3>1
  <2>2. x \in ToSet(s) <=> \E i \in 1..Len(s) : s[i] = x
    BY InToSet
  <2>3. x \in ToSet(t) <=> \E i \in 1..Len(t) : t[i] = x
    BY InToSet
  <2>4. x \in ToSet(s \o t) => x \in ToSet(s) \/ x \in ToSet(t)
    BY <1>1, <1>2, <2>1, <2>2, <2>3
  <2>5. x \in ToSet(s) => x \in ToSet(s \o t)
    BY <1>1, <1>4, <2>1, <2>2
  <2>6. x \in ToSet(t) => x \in ToSet(s \o t)
    BY <1>1, <1>3, <2>1, <2>3
  <2> QED
    BY <2>4, <2>5, <2>6
<1> QED
  BY <1>5

\* The files of a release are run in the order of their versions.
LEMMA SortFilesSorts ==
  ASSUME NEW l \in Seq(Nat)
  PROVE  SortFiles(l) \in Seq(Nat) /\ Sorted(SortFiles(l)) /\ ToSet(SortFiles(l)) = ToSet(l)
<1>1. ToSet(l) \subseteq Nat /\ IsFiniteSet(ToSet(l))
  BY ToSetOfSeq
<1>2. Ascends(SortFiles(l), ToSet(l))
  BY <1>1, SortedListing DEF SortFiles
<1>3. Cardinality(ToSet(l)) \in Nat
  BY <1>1, FS_CardinalityType
<1> DEFINE q == SortFiles(l)
           n == Cardinality(ToSet(l))
<1> HIDE DEF q, n
<1>4. q \in [1..n -> ToSet(l)] /\ n \in Nat
  BY <1>2, <1>3 DEF Ascends, q, n
<1>5. q \in Seq(Nat) /\ Len(q) = n /\ DOMAIN q = 1..n
  BY <1>1, <1>4
<1>6. Sorted(q)
  BY <1>2, <1>5 DEF Ascends, Sorted, q, n
<1>7. ASSUME NEW x
      PROVE  x \in ToSet(q) <=> x \in ToSet(l)
  BY <1>2, <1>4, <1>5, InToSet DEF Ascends, q, n
<1> QED
  BY <1>5, <1>6, <1>7 DEF q

-----------------------------------------------------------------------------
(* The steps.                                                              *)

InPlace(p) ==
  /\ Waiting(p, "discover") \/ Waiting(p, "lock") => Ran(p) = <<>>
  /\ Waiting(p, "lock") => ToSet(Todo(p)) = ToSet(files[p])
  /\ Waiting(p, "apply") => lock = p
  /\ Waiting(p, "apply") =>
       /\ ToSet(Todo(p)) \cup ToSet(Ran(p)) \subseteq ToSet(files[p])
       /\ ToSet(files[p]) \subseteq ToSet(Todo(p)) \cup ToSet(Ran(p)) \cup ToSet(executed)
       /\ ToSet(Ran(p)) \cap ToSet(executed) = {}
  /\ Waiting(p, "lock") \/ Waiting(p, "apply") => Sorted(Todo(p)) /\ Sorted(Ran(p)) /\ Before(Ran(p), Todo(p))
  /\ Waiting(p, "failed") => Cardinality(ToSet(files[p])) < Len(files[p])

\* A step of p leaves the other processes where they are; it is enough that p
\* is in place after it, and that what the others rely on still holds.
LEMMA OthersInPlace ==
  ASSUME MigrationStrong, NEW p \in Starters, NEW q \in Starters, q # p,
         starter'[q] = starter[q], files' = files,
         Waiting(q, "apply") => lock' = q /\ executed' = executed
  PROVE  InPlace(q)'
BY DEF MigrationStrong, StartersInPlace, InPlace, Waiting, Ran, Todo

\* Without a commit the schema stays at its release.
LEMMA NothingCommitted ==
  ASSUME MigrationStrong, NEW p \in Starters, UNCHANGED <<files, executed>>,
         \A q \in Starters \ {p} : starter'[q] = starter[q],
         ~Waiting(p, "done"), ~Waiting(p, "done")'
  PROVE  WholeReleases' /\ Ascending'
<1>1. \A q \in Starters : Waiting(q, "done")' <=> Waiting(q, "done")
  BY DEF Waiting
<1>2. {q \in Starters : Waiting(q, "done")}' = {q \in Starters : Waiting(q, "done")}
  BY <1>1
<1>3. WholeReleases'
  BY <1>2 DEF MigrationStrong, WholeReleases
<1>4. Ascending'
  BY DEF MigrationStrong, Ascending
<1> QED
  BY <1>3, <1>4

LEMMA DiscoverKeeps ==
  ASSUME MigrationStrong, NEW p \in Starters, Discover(p)
  PROVE  MigrationStrong'
<1>1. starter \in [Starters -> [at : {"discover", "lock", "apply"} \cup Ended, todo : Seq(Nat), ran : Seq(Nat)]]
  BY DEF MigrationStrong, MigrationTypes
<1>2. files[p] \in Seq(Nat)
  BY MigrationAssumption DEF MigrationStrong, MigrationTypes
<1>3. UNCHANGED <<files, lock, executed>> /\ Waiting(p, "discover") /\ Ran(p) = <<>>
  BY DEF Discover, MigrationStrong, StartersInPlace
<1>4. CASE Cardinality(ToSet(files[p])) < Len(files[p])
  <2>1. starter' = [starter EXCEPT ![p].at = "failed"]
    BY <1>4 DEF Discover, GoOn
  <2>2. starter'[p].at = "failed" /\ starter'[p].ran = Ran(p) /\ \A q \in Starters \ {p} : starter'[q] = starter[q]
    BY <1>1, <2>1 DEF Ran
  <2>3. MigrationTypes'
    BY <1>1, <1>3, <2>1 DEF MigrationStrong, MigrationTypes, Ended
  <2>4. InPlace(p)'
    BY <1>3, <1>4, <2>2 DEF InPlace, Waiting, Ran
  <2>5. \A q \in Starters \ {p} : InPlace(q)'
    BY <1>3, <2>2, OthersInPlace DEF MigrationStrong, StartersInPlace
  <2>6. WholeReleases' /\ Ascending'
    BY <1>3, <2>2, NothingCommitted DEF Waiting
  <2> QED
    BY <2>3, <2>4, <2>5, <2>6 DEF MigrationStrong, StartersInPlace, InPlace
<1>5. CASE ~(Cardinality(ToSet(files[p])) < Len(files[p]))
  <2>1. starter' = [starter EXCEPT ![p].at = "lock", ![p].todo = SortFiles(files[p])]
    BY <1>5 DEF Discover
  <2>2. /\ starter'[p].at = "lock" /\ starter'[p].ran = Ran(p) /\ starter'[p].todo = SortFiles(files[p])
        /\ \A q \in Starters \ {p} : starter'[q] = starter[q]
    BY <1>1, <2>1 DEF Ran
  <2>3. SortFiles(files[p]) \in Seq(Nat) /\ Sorted(SortFiles(files[p])) /\ ToSet(SortFiles(files[p])) = ToSet(files[p])
    BY <1>2, SortFilesSorts
  <2>4. MigrationTypes'
    BY <1>1, <1>3, <2>1, <2>3 DEF MigrationStrong, MigrationTypes
  <2>5. InPlace(p)'
    BY <1>3, <2>2, <2>3 DEF InPlace, Waiting, Ran, Todo, Sorted, Before
  <2>6. \A q \in Starters \ {p} : InPlace(q)'
    BY <1>3, <2>2, OthersInPlace DEF MigrationStrong, StartersInPlace
  <2>7. WholeReleases' /\ Ascending'
    BY <1>3, <2>2, NothingCommitted DEF Waiting
  <2> QED
    BY <2>4, <2>5, <2>6, <2>7 DEF MigrationStrong, StartersInPlace, InPlace
<1> QED
  BY <1>4, <1>5

LEMMA BeginMigrationsKeeps ==
  ASSUME MigrationStrong, NEW p \in Starters, BeginMigrations(p)
  PROVE  MigrationStrong'
<1>1. starter \in [Starters -> [at : {"discover", "lock", "apply"} \cup Ended, todo : Seq(Nat), ran : Seq(Nat)]]
  BY DEF MigrationStrong, MigrationTypes
<1>2. /\ UNCHANGED <<files, executed>> /\ Waiting(p, "lock") /\ lock = "free" /\ lock' = p
      /\ starter' = [starter EXCEPT ![p].at = "apply"]
  BY DEF BeginMigrations, AcquireLock, GoOn
<1>3. /\ starter'[p].at = "apply" /\ starter'[p].ran = Ran(p) /\ starter'[p].todo = Todo(p)
      /\ \A q \in Starters \ {p} : starter'[q] = starter[q]
  BY <1>1, <1>2 DEF Ran, Todo
<1>4. \A q \in Starters : ~Waiting(q, "apply")
  BY <1>2, MigrationAssumption DEF MigrationStrong, StartersInPlace
<1>5. MigrationTypes'
  BY <1>1, <1>2 DEF MigrationStrong, MigrationTypes
<1>6. InPlace(p)'
  <2>1. Ran(p) = <<>> /\ ToSet(Todo(p)) = ToSet(files[p]) /\ Sorted(Todo(p)) /\ Sorted(Ran(p)) /\ Before(Ran(p), Todo(p))
    BY <1>2 DEF MigrationStrong, StartersInPlace
  <2>2. ToSet(Ran(p)) = {}
    BY <2>1 DEF ToSet
  <2> QED
    BY <1>2, <1>3, <2>1, <2>2 DEF InPlace, Waiting, Ran, Todo
<1>7. \A q \in Starters \ {p} : InPlace(q)'
  BY <1>2, <1>3, <1>4, OthersInPlace
<1>8. WholeReleases' /\ Ascending'
  BY <1>2, <1>3, NothingCommitted DEF Waiting
<1> QED
  BY <1>5, <1>6, <1>7, <1>8 DEF MigrationStrong, StartersInPlace, InPlace

LEMMA ApplyKeeps ==
  ASSUME MigrationStrong, NEW p \in Starters, Apply(p)
  PROVE  MigrationStrong'
<1>1. starter \in [Starters -> [at : {"discover", "lock", "apply"} \cup Ended, todo : Seq(Nat), ran : Seq(Nat)]]
  BY DEF MigrationStrong, MigrationTypes
<1> DEFINE v == Head(Todo(p))
           rest == Tail(Todo(p))
           ran == IF Pending(p, v) THEN Append(Ran(p), v) ELSE Ran(p)
<1>2. /\ UNCHANGED <<files, lock, executed>> /\ Waiting(p, "apply") /\ Todo(p) # <<>>
      /\ starter' = [starter EXCEPT ![p].todo = rest, ![p].ran = ran]
  BY DEF Apply, Todo, Ran
<1>3. Todo(p) \in Seq(Nat) /\ Ran(p) \in Seq(Nat)
  BY <1>1 DEF Todo, Ran
<1>4. rest \in Seq(Nat) /\ ran \in Seq(Nat)
  BY <1>2, <1>3
<1>5. /\ ToSet(Todo(p)) \cup ToSet(Ran(p)) \subseteq ToSet(files[p])
      /\ ToSet(files[p]) \subseteq ToSet(Todo(p)) \cup ToSet(Ran(p)) \cup ToSet(executed)
      /\ ToSet(Ran(p)) \cap ToSet(executed) = {}
      /\ Sorted(Todo(p)) /\ Sorted(Ran(p)) /\ Before(Ran(p), Todo(p)) /\ lock = p
  BY <1>2 DEF MigrationStrong, StartersInPlace
<1>6. /\ ToSet(Todo(p)) = {v} \cup ToSet(rest)
      /\ ToSet(Append(Ran(p), v)) = ToSet(Ran(p)) \cup {v}
      /\ Sorted(rest) /\ Before(Ran(p), rest)
      /\ Sorted(Append(Ran(p), v)) /\ Before(Append(Ran(p), v), rest)
  BY <1>2, <1>3, <1>5, ToSetOfTail
<1>7. /\ ToSet(rest) \cup ToSet(ran) \subseteq ToSet(files[p])
      /\ ToSet(files[p]) \subseteq ToSet(rest) \cup ToSet(ran) \cup ToSet(executed)
      /\ ToSet(ran) \cap ToSet(executed) = {}
      /\ Sorted(rest) /\ Sorted(ran) /\ Before(ran, rest)
  <2>1. CASE Pending(p, v)
    BY <1>5, <1>6, <2>1 DEF Pending
  <2>2. CASE ~Pending(p, v)
    BY <1>5, <1>6, <2>2 DEF Pending
  <2> QED
    BY <2>1, <2>2
<1> HIDE DEF v, rest, ran
<1>8. /\ starter'[p].at = "apply" /\ starter'[p].ran = ran /\ starter'[p].todo = rest
      /\ \A q \in Starters \ {p} : starter'[q] = starter[q]
  BY <1>1, <1>2 DEF Waiting
<1>9. MigrationTypes'
  BY <1>1, <1>2, <1>4 DEF MigrationStrong, MigrationTypes
<1>10. InPlace(p)'
  BY <1>2, <1>5, <1>7, <1>8 DEF InPlace, Waiting, Ran, Todo
<1>11. \A q \in Starters \ {p} : InPlace(q)'
  BY <1>2, <1>8, OthersInPlace DEF MigrationStrong, StartersInPlace
<1>12. WholeReleases' /\ Ascending'
  BY <1>2, <1>8, NothingCommitted DEF Waiting
<1> QED
  BY <1>9, <1>10, <1>11, <1>12 DEF MigrationStrong, StartersInPlace, InPlace

LEMMA CommitKeeps ==
  ASSUME MigrationStrong, NEW p \in Starters, Commit(p)
  PROVE  MigrationStrong'
<1>1. starter \in [Starters -> [at : {"discover", "lock", "apply"} \cup Ended, todo : Seq(Nat), ran : Seq(Nat)]]
  BY DEF MigrationStrong, MigrationTypes
<1>2. Waiting(p, "apply") /\ Todo(p) = <<>> /\ UNCHANGED files
  BY DEF Commit, Todo
<1>3. Todo(p) \in Seq(Nat) /\ Ran(p) \in Seq(Nat) /\ executed \in Seq(Nat)
  BY <1>1 DEF Todo, Ran, MigrationStrong, MigrationTypes
<1>4. ToSet(Todo(p)) = {}
  BY <1>2 DEF ToSet
<1>5. /\ ToSet(Ran(p)) \subseteq ToSet(files[p])
      /\ ToSet(files[p]) \subseteq ToSet(Ran(p)) \cup ToSet(executed)
      /\ ToSet(Ran(p)) \cap ToSet(executed) = {}
      /\ Sorted(Ran(p)) /\ lock = p
  BY <1>2, <1>4 DEF MigrationStrong, StartersInPlace
<1>6. lock' = "free" /\ executed' = executed \o Ran(p) /\ starter' = [starter EXCEPT ![p].at = "done"]
  BY <1>5 DEF Commit, Release, GoOn, Ran
<1>7. /\ starter'[p].at = "done" /\ \A q \in Starters \ {p} : starter'[q] = starter[q]
  BY <1>1, <1>6
<1>8. MigrationTypes'
  <2>1. executed' \in Seq(Nat)
    BY <1>3, <1>6
  <2>2. starter' \in [Starters -> [at : {"discover", "lock", "apply"} \cup Ended, todo : Seq(Nat), ran : Seq(Nat)]]
    BY <1>1, <1>6 DEF Ended
  <2> QED
    BY <1>2, <1>6, <2>1, <2>2 DEF MigrationStrong, MigrationTypes
<1>9. InPlace(p)'
  BY <1>7 DEF InPlace, Waiting
<1>10. \A q \in Starters \ {p} : InPlace(q)'
  <2>1. \A q \in Starters \ {p} : ~Waiting(q, "apply")
    BY <1>5 DEF MigrationStrong, StartersInPlace
  <2> QED
    BY <1>2, <1>7, <2>1, OthersInPlace
<1>11. ToSet(executed') = ToSet(executed) \cup ToSet(Ran(p))
  BY <1>3, <1>6, ToSetOfConcat
<1>12. WholeReleases'
  <2>1. {q \in Starters : Waiting(q, "done")}' = {q \in Starters : Waiting(q, "done")} \cup {p}
    BY <1>7 DEF Waiting
  <2>2. ToSet(executed') = ToSet(executed) \cup ToSet(files[p])
    BY <1>5, <1>11
  <2>3. ToSet(executed) = UNION {ToSet(files[q]) : q \in {r \in Starters : Waiting(r, "done")}}
    BY DEF MigrationStrong, WholeReleases
  <2> QED
    BY <1>2, <2>1, <2>2, <2>3 DEF WholeReleases
<1>13. Ascending'
  <2> SUFFICES ASSUME \A q, r \in Starters : files[q] = files[r]
               PROVE  Sorted(executed')
    BY <1>2 DEF Ascending, Sorted
  <2>1. CASE executed = <<>>
    BY <1>3, <1>5, <1>6, <2>1
  <2>2. CASE executed # <<>>
    <3>1. Head(executed) \in ToSet(executed)
      BY <1>3, <2>2, ToSetOfSeq
    <3>2. PICK q \in Starters : Waiting(q, "done")
      BY <3>1 DEF MigrationStrong, WholeReleases
    <3>3. ToSet(files[q]) \subseteq ToSet(executed)
      BY <3>2 DEF MigrationStrong, WholeReleases
    <3>4. ToSet(Ran(p)) = {}
      BY <1>5, <3>3
    <3>5. Ran(p) = <<>>
      BY <1>3, <3>4, ToSetOfSeq
    <3>6. executed' = executed
      BY <1>3, <1>6, <3>5
    <3> QED
      BY <3>6 DEF MigrationStrong, Ascending, Sorted
  <2> QED
    BY <2>1, <2>2
<1> QED
  BY <1>8, <1>9, <1>10, <1>12, <1>13 DEF MigrationStrong, StartersInPlace, InPlace

LEMMA InterruptedKeeps ==
  ASSUME MigrationStrong, NEW p \in Starters, Interrupted(p)
  PROVE  MigrationStrong'
<1>1. starter \in [Starters -> [at : {"discover", "lock", "apply"} \cup Ended, todo : Seq(Nat), ran : Seq(Nat)]]
  BY DEF MigrationStrong, MigrationTypes
<1>2. /\ UNCHANGED <<files, executed>> /\ starter[p].at \in {"lock", "apply"}
      /\ lock' = (IF lock = p THEN "free" ELSE lock) /\ starter' = [starter EXCEPT ![p] = Fresh]
  BY DEF Interrupted, Rollback, Release
<1>3. /\ starter'[p].at = "discover" /\ starter'[p].ran = <<>>
      /\ \A q \in Starters \ {p} : starter'[q] = starter[q]
  BY <1>1, <1>2 DEF Fresh
<1>4. MigrationTypes'
  BY <1>1, <1>2 DEF MigrationStrong, MigrationTypes, Fresh
<1>5. InPlace(p)'
  BY <1>3 DEF InPlace, Waiting, Ran
<1>6. \A q \in Starters \ {p} : InPlace(q)'
  BY <1>2, <1>3, OthersInPlace DEF MigrationStrong, StartersInPlace
<1>7. WholeReleases' /\ Ascending'
  BY <1>2, <1>3, NothingCommitted DEF Waiting
<1> QED
  BY <1>4, <1>5, <1>6, <1>7 DEF MigrationStrong, StartersInPlace, InPlace

LEMMA MigrationStrongAlways == MigrationSpec => []MigrationStrong
<1>1. MigrationInit => MigrationStrong
  <2> SUFFICES ASSUME MigrationInit
               PROVE  MigrationStrong
    OBVIOUS
  <2>1. \A p \in Starters : starter[p] = Fresh
    BY DEF MigrationInit
  <2>2. MigrationTypes
    BY DEF MigrationInit, MigrationTypes, Fresh
  <2>3. StartersInPlace
    BY <2>1 DEF StartersInPlace, Fresh, Waiting, Ran
  <2>4. executed = <<>> /\ ToSet(executed) = {}
    BY DEF MigrationInit, ToSet
  <2>5. {q \in Starters : Waiting(q, "done")} = {}
    BY <2>1 DEF Waiting, Fresh
  <2>6. WholeReleases
    BY <2>4, <2>5 DEF WholeReleases
  <2>7. Ascending
    BY <2>4 DEF Ascending
  <2> QED
    BY <2>2, <2>3, <2>6, <2>7 DEF MigrationStrong
<1>2. MigrationStrong /\ [MigrationNext]_migrationVars => MigrationStrong'
  <2> SUFFICES ASSUME MigrationStrong, [MigrationNext]_migrationVars
               PROVE  MigrationStrong'
    OBVIOUS
  <2>1. CASE MigrationNext
    BY <2>1, DiscoverKeeps, BeginMigrationsKeeps, ApplyKeeps, CommitKeeps, InterruptedKeeps DEF MigrationNext, Run
  <2>2. CASE UNCHANGED migrationVars
    BY <2>2 DEF migrationVars, MigrationStrong, MigrationTypes, StartersInPlace, WholeReleases, Ascending, Waiting, Todo, Ran
  <2> QED
    BY <2>1, <2>2
<1> QED
  BY <1>1, <1>2, PTL DEF MigrationSpec

\* However many processes of whatever releases start at the same time, die and
\* start again, the schema is at a release at any time.
THEOREM SchemaIsWhole == MigrationSpec => []MigrationInvariant
<1>1. MigrationStrong => MigrationInvariant
  BY DEF MigrationStrong, MigrationTypes, StartersInPlace, MigrationInvariant, MigrationTypeOK, Waiting
<1> QED
  BY <1>1, MigrationStrongAlways, PTL

\* A start fails on two files of one version in its own release, and on
\* nothing that other processes do: StartsSucceed but for the ending.
THEOREM FailsOnOwnFiles ==
  MigrationSpec => [](\A p \in Starters : Waiting(p, "failed") => Cardinality(ToSet(files[p])) < Len(files[p]))
<1>1. MigrationStrong => \A p \in Starters : Waiting(p, "failed") => Cardinality(ToSet(files[p])) < Len(files[p])
  BY DEF MigrationStrong, StartersInPlace
<1> QED
  BY <1>1, MigrationStrongAlways, PTL

-----------------------------------------------------------------------------
(***************************************************************************)
(* MinerUInvariant holds for any number of parses and of faults.           *)
(***************************************************************************)

Batch == [state : BatchStates, archive : {"none", "usable", "unusable"}]

\* Where the client is and which batch it has.
ClientInPlace ==
  /\ ~At("returned") => parses \in 1..MaxParses /\ parse.outcome = "none"
  /\ At("create") => parse.batch = 0 /\ batches[parses] = NoBatch
  /\ ~At("create") /\ ~At("returned") => parse.batch = parses
  /\ At("upload") => Here = [state |-> "created", archive |-> "none"]
  /\ At("poll") \/ At("wait") => Here.state \in {"running", "done", "without_url", "failed"}
  /\ At("download") => Here.state = "done"

\* Only a finished batch has a result, and later batches do not exist yet.
BatchesInPlace ==
  /\ \A b \in 1..MaxParses : (batches[b].state = "done") <=> (batches[b].archive # "none")
  /\ \A b \in 1..MaxParses : b > parses => batches[b] = NoBatch

\* A refusal is one of the service, and stays what it was.
RefusalStands ==
  parse.outcome = "permanent" =>
    \/ ~sendable
    \/ parse.batch \in 1..MaxParses /\ (Here.state = "failed" \/ Here.archive = "unusable")

MinerUStrong == MinerUTypeOK /\ ClientInPlace /\ BatchesInPlace /\ RefusalStands

\* The strengthening holds at the start, before anything has been sent.
LEMMA MinerUStarts == MinerUInit => MinerUStrong
<1> SUFFICES ASSUME MinerUInit PROVE MinerUStrong
  OBVIOUS
<1> USE MinerUAssumption DEF MinerUInit, At, Here, NoBatch
<1>1. MinerUTypeOK
  <2>1. PICK outcome \in {"transient", "permanent"} :
          parse = [at |-> "returned", batch |-> 0, outcome |-> outcome]
    OBVIOUS
  <2>2. parse \in [at : Requests \cup {"wait", "returned"}, batch : 0..MaxParses,
                  outcome : {"none", "atoms", "permanent", "transient"}]
    BY <2>1
  <2>3. NoBatch \in Batch
    BY DEF Batch, BatchStates
  <2>4. batches \in [1..MaxParses -> Batch]
    BY <2>3
  <2> QED
    BY <2>1, <2>2, <2>4 DEF MinerUTypeOK, Batch
<1>2. ClientInPlace /\ BatchesInPlace /\ RefusalStands
  BY DEF ClientInPlace, BatchesInPlace, RefusalStands
<1> QED
  BY <1>1, <1>2 DEF MinerUStrong

\* Every step of client, worker, clock and service preserves the strengthening.
LEMMA MinerUSteps == MinerUStrong /\ [MinerUNext]_minerUVars => MinerUStrong'
<1> SUFFICES ASSUME MinerUStrong, [MinerUNext]_minerUVars PROVE MinerUStrong'
  OBVIOUS
<1> USE MinerUAssumption
        DEF MinerUStrong, MinerUTypeOK, ClientInPlace, BatchesInPlace, RefusalStands, At, Here,
            NoBatch, BatchStates, Requests
<1>1. CASE ParseFile
  <2>1. parses + 1 \in 1..MaxParses
    BY <1>1 DEF ParseFile
  <2>2. parse' \in [at : Requests \cup {"wait", "returned"}, batch : 0..MaxParses,
                   outcome : {"none", "atoms", "permanent", "transient"}]
    BY <1>1 DEF ParseFile
  <2>3. batches[parses + 1] = NoBatch /\ \A b \in 1..MaxParses : b > parses + 1 => b > parses
    BY <1>1, <2>1 DEF ParseFile
  <2>4. MinerUTypeOK'
    <3>1. batches' \in [1..MaxParses -> Batch] /\ sendable' \in BOOLEAN /\ expired' \in BOOLEAN
      BY <1>1 DEF ParseFile, Batch
    <3>2. parses' \in 0..MaxParses /\ parse'.at = "create"
      BY <1>1, <2>1 DEF ParseFile
    <3> QED
      BY <2>2, <3>1, <3>2 DEF Batch
  <2>5. ClientInPlace' /\ RefusalStands'
    BY <1>1, <2>1, <2>3 DEF ParseFile
  <2>6. BatchesInPlace'
    BY <1>1, <2>1, <2>3 DEF ParseFile
  <2> QED
    BY <2>4, <2>5, <2>6
<1>2. CASE Refuse
  BY <1>2 DEF Refuse, EndWith
<1>3. CASE createUpload
  <2>1. MinerUTypeOK'
    BY <1>3 DEF createUpload, CanCreate, NewBatch, UploadFirst
  <2>2. ClientInPlace'
    BY <1>3 DEF createUpload, CanCreate, NewBatch, UploadFirst
  <2>3. BatchesInPlace'
    BY <1>3 DEF createUpload, CanCreate, NewBatch, UploadFirst
  <2>4. RefusalStands'
    BY <1>3 DEF createUpload, CanCreate, NewBatch, UploadFirst
  <2> QED
    BY <2>1, <2>2, <2>3, <2>4
<1>4. CASE upload
  <2>1. MinerUTypeOK'
    BY <1>4 DEF upload, Proceed
  <2>2. ClientInPlace'
    BY <1>4 DEF upload, Proceed
  <2>3. BatchesInPlace'
    BY <1>4 DEF upload, Proceed
  <2>4. RefusalStands'
    BY <1>4 DEF upload, Proceed
  <2> QED
    BY <2>1, <2>2, <2>3, <2>4
<1>5. CASE waitResult
  <2>1. /\ At("poll") /\ ~expired /\ UNCHANGED <<parses, expired, batches, sendable>>
        /\ \/ Here.state = "running" /\ Proceed("wait")
           \/ Here.state = "done" /\ Proceed("download")
           \/ Here.state = "failed" /\ EndWith("permanent")
           \/ Here.state = "without_url" /\ EndWith("transient")
    BY <1>5 DEF waitResult, Waited
  <2>2. parse.batch \in 1..MaxParses
    BY <2>1
  <2>3. CASE Here.state = "running" /\ Proceed("wait")
    BY <2>1, <2>2, <2>3 DEF Proceed
  <2>4. CASE Here.state = "done" /\ Proceed("download")
    BY <2>1, <2>2, <2>4 DEF Proceed
  <2>5. CASE Here.state = "failed" /\ EndWith("permanent")
    BY <2>1, <2>2, <2>5 DEF EndWith
  <2>6. CASE Here.state = "without_url" /\ EndWith("transient")
    BY <2>1, <2>2, <2>6 DEF EndWith
  <2> QED
    BY <2>1, <2>3, <2>4, <2>5, <2>6
<1>6. CASE PollAgain
  BY <1>6 DEF PollAgain, Proceed
<1>7. CASE download
  BY <1>7 DEF download, EndWith
<1>8. CASE DeadlineEnds
  BY <1>8 DEF DeadlineEnds, Notice, EndWith
<1>9. CASE RequestFails
  <2>1. /\ \E a \in Requests : At(a)
        /\ parse' = [parse EXCEPT !.at = "returned", !.outcome = "transient"]
        /\ UNCHANGED <<parses, expired, sendable>>
    BY <1>9 DEF RequestFails, Retryable, EndWith
  <2>2. parse' \in [at : Requests \cup {"wait", "returned"}, batch : 0..MaxParses,
                   outcome : {"none", "atoms", "permanent", "transient"}]
    BY <2>1
  <2>3. CASE UNCHANGED batches
    BY <2>1, <2>2, <2>3
  <2>4. CASE CanCreate /\ batches' = NewBatch
    BY <2>1, <2>2, <2>4 DEF CanCreate, NewBatch
  <2>5. CASE At("upload") /\ batches' = [batches EXCEPT ![parse.batch].state = "running"]
    <3>1. parse.batch \in 1..MaxParses /\ parse.batch = parses
      BY <2>5
    <3>2. MinerUTypeOK'
      BY <2>1, <2>2, <2>5, <3>1
    <3>3. ClientInPlace' /\ BatchesInPlace' /\ RefusalStands'
      BY <2>1, <2>2, <2>5, <3>1
    <3> QED
      BY <3>2, <3>3
  <2> QED
    BY <1>9, <2>3, <2>4, <2>5 DEF RequestFails
<1>10. CASE Expire
  BY <1>10 DEF Expire
<1>11. CASE \E b \in 1..MaxParses : Serve(b)
  BY <1>11 DEF Serve
<1>12. CASE UNCHANGED minerUVars
  BY <1>12 DEF minerUVars, minerU
<1> QED
  BY <1>1, <1>2, <1>3, <1>4, <1>5, <1>6, <1>7, <1>8, <1>9, <1>10, <1>11, <1>12
  DEF MinerUNext, MinerUClient

\* For any number of parses and faults: the client polls for and downloads only
\* what it has uploaded, and gives a document up only for what the service said
\* of the file, or because there was nothing it could send.
THEOREM RefusalsAreTrue == MinerUSpec => []MinerUInvariant
<1>1. MinerUStrong => MinerUInvariant
  BY DEF MinerUStrong, MinerUInvariant, RefusalStands, PermanentIsRefused
<1> QED
  BY <1>1, MinerUStarts, MinerUSteps, PTL DEF MinerUSpec
=============================================================================
