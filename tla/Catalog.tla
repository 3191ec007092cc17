------------------------------ MODULE Catalog ------------------------------
(***************************************************************************)
(* One user's datasets, embedding and vision models, documents and         *)
(* sessions, and the requests that create, bind and delete them.  Each     *)
(* request is a sequence of statements without a common transaction; Slots *)
(* requests may be under way at a time.  There are no foreign keys.        *)
(* A dataset has at most one document here, the user at most one model of  *)
(* each kind; the server's official embedding model is configured.         *)
(***************************************************************************)
EXTENDS Integers, FiniteSets, Faults

CONSTANTS
  Slots,               \* requests that may run at the same time
  MaxDatasets,         \* bound on dataset ids
  MaxRequests          \* bound on the requests of a behaviour

ASSUME CatalogAssumption == MaxDatasets \in Nat \ {0} /\ MaxRequests \in Nat

VARIABLES
  user,                \* the user's row exists
  model,               \* [Kinds -> state of the user's model]
  dataset,             \* [Ids -> row]
  rows,                \* rows under a dataset: <<table, dataset>>
  objects,             \* stored objects: <<sort, dataset>>
  request,             \* [Slots -> request under way]
  begun,               \* number of requests so far
  raced                \* history: conflicting requests that were open together

data == <<user, model, dataset, rows, objects>>
vars == <<data, request, begun, raced, faults>>

Ids == 1..MaxDatasets
Kinds == {"embed", "vision"}
ModelStates == {"absent", "own", "reserved", "gone"}
DatasetRow == [state : {"absent", "there", "gone"},
               embed : {"official", "own"}, vision : {"unused", "own"}]
Absent == [state |-> "absent", embed |-> "official", vision |-> "unused"]
Present(d) == dataset[d].state = "there"

None == [op |-> "none", at |-> "end", d |-> 1, kind |-> "embed",
         embed |-> "official", vision |-> "unused", left |-> {}, owned |-> {}]

Init ==
  /\ user = TRUE
  /\ model = [k \in Kinds |-> "absent"]
  /\ dataset = [d \in Ids |-> Absent]
  /\ rows = {} /\ objects = {}
  /\ request = [s \in Slots |-> None]
  /\ begun = 0 /\ raced = {}
  /\ FaultInit

\* What the user can see: datasets with their rows, models, sessions.
Holdings ==
  {<<"dataset", d>> : d \in {i \in Ids : dataset[i].state = "there"}}
    \cup {<<"model", k>> : k \in {j \in Kinds : model[j] \in {"own", "reserved"}}}
    \cup {r \in rows : r[1] = "session" \/ Present(r[2])}

-----------------------------------------------------------------------------
(* Requests.                                                               *)

On(d, op, at) == [None EXCEPT !.op = op, !.at = at, !.d = d]
Of(k, op, at) == [None EXCEPT !.op = op, !.at = at, !.kind = k]
Binding(r, e, v) == [r EXCEPT !.embed = e, !.vision = v]

TableOf == [register |-> "doc", createSession |-> "session"]

\* A dataset is created under the next free id.
NextId == {d \in Ids : dataset[d].state = "absent" /\ \A i \in 1..(d - 1) : dataset[i].state # "absent"}

Requests ==
  {Binding(On(d, "createDataset", "embed"), e, v) :
     d \in NextId, e \in {"official", "own"}, v \in {"unused", "own"}}
    \cup {Binding(On(d, "updateDataset", "get"), "official", v) : d \in Ids, v \in {"unused", "own"}}
    \cup {On(d, op, "get") : d \in Ids, op \in {"register", "createSession", "deleteDataset"}}
    \cup {Of(k, "createModel", "insert") : k \in Kinds}
    \cup {Of(k, op, "get") : k \in Kinds, op \in {"renameModel", "deleteModel"}}
    \cup {On(1, "deleteAccount", "user")}

\* Two requests that would insert the same row are not told apart here, so the
\* second (an idempotent registration, another session) is left out, and so is
\* one that a request closing the account has on its list.
Distinct(r) ==
  /\ r.op = "createDataset" => \A t \in Slots : request[t].op # r.op
  /\ r.op \in DOMAIN TableOf =>
       /\ <<TableOf[r.op], r.d>> \notin rows
       /\ \A t \in Slots : /\ ~(request[t].op = r.op /\ request[t].d = r.d)
                           /\ <<TableOf[r.op], r.d>> \notin request[t].owned

\* The middleware has found the user.  A document is uploaded before it is
\* registered.
Begin(s) ==
  /\ user /\ request[s] = None /\ begun < MaxRequests
  /\ \E r \in Requests :
       /\ Distinct(r)
       /\ request' = [request EXCEPT ![s] = r]
       /\ objects' = objects \cup (IF r.op = "register" THEN {<<"source", r.d>>} ELSE {})
  /\ begun' = begun + 1
  /\ UNCHANGED <<user, model, dataset, rows, faults>>

At(s, op, at) == request[s].op = op /\ request[s].at = at
GoTo(s, at) == request' = [request EXCEPT ![s].at = at] /\ UNCHANGED <<begun, faults>>
End(s) == request' = [request EXCEPT ![s] = None] /\ UNCHANGED <<begun, faults>>
D(s) == request[s].d
K(s) == request[s].kind

\* A statement fails: the request ends with an error.  Listing the keys of
\* objects may fail without ending the request.
Fails(s) ==
  /\ request[s] # None
  /\ request[s].at \notin {"objects", "images"}
  /\ Fault("db")
  /\ request' = [request EXCEPT ![s] = None]
  /\ UNCHANGED <<data, begun>>

\* GetByUser of the dataset, the first statement of several requests.
NextAfterGet == [updateDataset |-> "vision", register |-> "insert", createSession |-> "insert",
                 deleteDataset |-> "objects", deleteAccount |-> "objects"]

GetDataset(s) ==
  /\ request[s].at = "get" /\ request[s].op \in DOMAIN NextAfterGet
  /\ IF Present(D(s)) THEN GoTo(s, NextAfterGet[request[s].op]) ELSE End(s)
  /\ UNCHANGED data

-----------------------------------------------------------------------------
(* DatasetService.Create and Update, SessionService.Create, Register.      *)

Exists(k) == model[k] \in {"own", "reserved"}

\* resolveEmbedBinding and resolveVisionBinding: the model must exist.
ResolveEmbed(s) ==
  /\ At(s, "createDataset", "embed")
  /\ IF request[s].embed = "own" => Exists("embed") THEN GoTo(s, "vision") ELSE End(s)
  /\ UNCHANGED data

ResolveVision(s) ==
  /\ request[s].at = "vision" /\ request[s].op \in {"createDataset", "updateDataset"}
  /\ IF request[s].vision = "own" => Exists("vision") THEN GoTo(s, "insert") ELSE End(s)
  /\ UNCHANGED data

InsertDataset(s) ==
  /\ At(s, "createDataset", "insert")
  /\ dataset' = [dataset EXCEPT ![D(s)] =
       [state |-> "there", embed |-> request[s].embed, vision |-> request[s].vision]]
  /\ End(s)
  /\ UNCHANGED <<user, model, rows, objects>>

\* The UPDATE finds no row, and reports it, if the dataset has gone.
UpdateDataset(s) ==
  /\ At(s, "updateDataset", "insert")
  /\ dataset' = IF Present(D(s)) THEN [dataset EXCEPT ![D(s)].vision = request[s].vision] ELSE dataset
  /\ End(s)
  /\ UNCHANGED <<user, model, rows, objects>>

InsertRow(s) ==
  /\ request[s].at = "insert" /\ request[s].op \in DOMAIN TableOf
  /\ rows' = rows \cup {<<TableOf[request[s].op], D(s)>>}
  /\ End(s)
  /\ UNCHANGED <<user, model, dataset, objects>>

-----------------------------------------------------------------------------
(* EmbedModelService and VisionModelService.                               *)

CreateModel(s) ==
  /\ At(s, "createModel", "insert")
  /\ model' = IF model[K(s)] = "absent" THEN [model EXCEPT ![K(s)] = "own"] ELSE model
  /\ End(s)
  /\ UNCHANGED <<user, dataset, rows, objects>>

\* Deleting asks for a model whose name is not the reserved one.
GetModel(s) ==
  /\ request[s].at = "get" /\ request[s].op \in {"renameModel", "deleteModel"}
  /\ IF Exists(K(s)) /\ (request[s].op = "deleteModel" => model[K(s)] = "own")
     THEN GoTo(s, IF request[s].op = "deleteModel" THEN "count" ELSE "write")
     ELSE End(s)
  /\ UNCHANGED data

\* Mutated: neither service refuses the reserved name.
RenameAny(s) ==
  /\ At(s, "renameModel", "write")
  /\ model' = IF Exists(K(s)) THEN [model EXCEPT ![K(s)] = "reserved"] ELSE model
  /\ End(s)
  /\ UNCHANGED <<user, dataset, rows, objects>>

\* Only the vision service refuses the name reserved for the server's model.
RenameModel(s) ==
  /\ At(s, "renameModel", "write")
  /\ model' = IF Exists(K(s)) /\ K(s) # "vision" THEN [model EXCEPT ![K(s)] = "reserved"] ELSE model
  /\ End(s)
  /\ UNCHANGED <<user, dataset, rows, objects>>

\* Mutated: only the datasets that have documents count.
UsedByIndexed(k) == {d \in Ids : Present(d) /\ dataset[d][k] = "own" /\ <<"doc", d>> \in rows}

UsedBy(k) == {d \in Ids : Present(d) /\ dataset[d][k] = "own"}

CountUses(s) ==
  /\ At(s, "deleteModel", "count")
  /\ IF UsedBy(K(s)) = {} THEN GoTo(s, "delete") ELSE End(s)
  /\ UNCHANGED data

DeleteModel(s) ==
  /\ At(s, "deleteModel", "delete")
  /\ model' = IF Exists(K(s)) THEN [model EXCEPT ![K(s)] = "gone"] ELSE model
  /\ End(s)
  /\ UNCHANGED <<user, dataset, rows, objects>>

-----------------------------------------------------------------------------
(* DatasetService.Delete, on its own or for DeleteAccount.                 *)

\* Mutated: the keys of all datasets.
KeysOfAll(d, sort, table) == {o \in objects : o[1] = sort /\ <<table, o[2]>> \in rows}

\* The keys are those of the rows of the moment.
KeysOf(d, sort, table) == {o \in objects : o = <<sort, d>> /\ <<table, d>> \in rows}

\* Objects go first and outside the transaction; a failed listing or deletion
\* is logged only, and leaves objects behind.
DeleteObjects(s) ==
  /\ \E step \in {[at |-> "objects", sort |-> "source", table |-> "doc", next |-> "images"],
                  [at |-> "images", sort |-> "image", table |-> "chunk", next |-> "rows"]} :
       /\ request[s].at = step.at
       /\ request' = [request EXCEPT ![s].at = step.next]
       /\ \/ objects' = objects \ KeysOf(D(s), step.sort, step.table) /\ NoFault
          \/ objects' = objects /\ Fault("io")
  /\ UNCHANGED <<user, model, dataset, rows, begun>>

\* Mutated: the documents are forgotten; the sessions go with the dataset.
RowsWithoutDocs(d) == {<<"chunk", d>>}
RowsWithSessions(d) == {<<"chunk", d>>, <<"doc", d>>, <<"session", d>>}

\* Sessions stay, marked as belonging to a deleted dataset.
CascadeOf(d) == {<<"chunk", d>>, <<"doc", d>>}

\* One transaction, rolled back when the dataset's own row is not there.
DeleteRows(s) ==
  /\ request[s].at = "rows"
  /\ IF Present(D(s))
     THEN /\ rows' = rows \ CascadeOf(D(s))
          /\ dataset' = [dataset EXCEPT ![D(s)] = [Absent EXCEPT !.state = "gone"]]
          /\ IF request[s].op = "deleteAccount" THEN GoTo(s, "next") ELSE End(s)
     ELSE UNCHANGED <<rows, dataset>> /\ End(s)
  /\ UNCHANGED <<user, model, objects>>

-----------------------------------------------------------------------------
(* AuthService.DeleteAccount.                                              *)

FindUser(s) ==
  /\ At(s, "deleteAccount", "user")
  /\ IF user
     THEN /\ request' = [request EXCEPT ![s].at = "list", ![s].owned = Holdings]
          /\ UNCHANGED <<begun, faults>>
     ELSE End(s)
  /\ UNCHANGED data

ListDatasets(s) ==
  /\ At(s, "deleteAccount", "list")
  /\ request' = [request EXCEPT ![s].at = "next", ![s].left = {d \in Ids : Present(d)}]
  /\ UNCHANGED <<data, begun, faults>>

NextDataset(s) ==
  /\ At(s, "deleteAccount", "next")
  /\ \/ /\ request[s].left = {}
        /\ GoTo(s, "sessions")
     \/ \E d \in request[s].left :
          /\ request' = [request EXCEPT ![s].at = "get", ![s].d = d, ![s].left = @ \ {d}]
          /\ UNCHANGED <<begun, faults>>
  /\ UNCHANGED data

DeleteConversations(s) ==
  /\ At(s, "deleteAccount", "sessions")
  /\ rows' = {r \in rows : r[1] # "session"}
  /\ GoTo(s, "embed")
  /\ UNCHANGED <<user, model, dataset, objects>>

\* Mutated: the vision models are forgotten.
SkipVision == [embed |-> "row", vision |-> "row"]
AfterModels == [embed |-> "vision", vision |-> "row"]

DeleteAllModels(s) ==
  /\ \E k \in Kinds :
       /\ At(s, "deleteAccount", k)
       /\ model' = IF Exists(k) THEN [model EXCEPT ![k] = "gone"] ELSE model
       /\ GoTo(s, AfterModels[k])
  /\ UNCHANGED <<user, dataset, rows, objects>>

DeleteUser(s) ==
  /\ At(s, "deleteAccount", "row")
  /\ user' = FALSE
  /\ End(s)
  /\ UNCHANGED <<model, dataset, rows, objects>>

-----------------------------------------------------------------------------
\* The worker parses a document: images are stored, chunks inserted.
Index(d) ==
  /\ <<"doc", d>> \in rows /\ <<"chunk", d>> \notin rows
  /\ rows' = rows \cup {<<"chunk", d>>}
  /\ objects' = objects \cup {<<"image", d>>}
  /\ UNCHANGED <<user, model, dataset, request, begun, faults>>

DeletesIn(s, d) ==
  \/ request[s].op = "deleteDataset" /\ D(s) = d
  \/ request[s].op = "deleteAccount"

\* Which conflicting requests are open at the same time.
Conflicts ==
  {c \in {"model", "dataset"} : \E s, t \in Slots : s # t /\
     CASE c = "model" -> /\ request'[s].op \in {"createDataset", "updateDataset"}
                         /\ request'[t].op \in {"deleteModel", "deleteAccount"}
       [] c = "dataset" -> /\ request'[s].op = "register"
                           /\ \/ request'[t].op = "deleteAccount"
                              \/ request'[t].op = "deleteDataset" /\ request'[t].d = request'[s].d}

Request(s) ==
  \/ Begin(s) \/ Fails(s) \/ GetDataset(s)
  \/ ResolveEmbed(s) \/ ResolveVision(s) \/ InsertDataset(s) \/ UpdateDataset(s) \/ InsertRow(s)
  \/ CreateModel(s) \/ GetModel(s) \/ RenameModel(s) \/ CountUses(s) \/ DeleteModel(s)
  \/ DeleteObjects(s) \/ DeleteRows(s)
  \/ FindUser(s) \/ ListDatasets(s) \/ NextDataset(s) \/ DeleteConversations(s)
  \/ DeleteAllModels(s) \/ DeleteUser(s)

Next ==
  \/ \E s \in Slots : Request(s) /\ raced' = raced \cup Conflicts
  \/ \E d \in Ids :
       /\ Index(d)
       /\ raced' = raced \cup (IF \E s \in Slots : DeletesIn(s, d) THEN {"dataset"} ELSE {})

Spec == Init /\ [][Next]_vars

-----------------------------------------------------------------------------
(* Properties.                                                             *)

TypeOK ==
  /\ user \in BOOLEAN
  /\ model \in [Kinds -> ModelStates] /\ model["vision"] # "reserved"
  /\ dataset \in [Ids -> DatasetRow]
  /\ rows \subseteq {"doc", "chunk", "session"} \X Ids
  /\ objects \subseteq {"source", "image"} \X Ids
  /\ begun \in 0..MaxRequests /\ faults \in 0..MaxFaults

\* A dataset is never bound to a model that does not exist, whatever fails and
\* whatever runs beside it, unless a request that binds was open together with
\* one that deletes models: those two check and write without a lock.
BoundModelsExist ==
  "model" \notin raced =>
    \A d \in Ids, k \in Kinds : Present(d) /\ dataset[d][k] = "own" => Exists(k)

\* Documents and chunks belong to a dataset that exists, unless one was
\* registered or indexed while its dataset was being deleted.
NoOrphans ==
  "dataset" \notin raced => \A r \in rows : r[1] # "session" => Present(r[2])

\* A closed account leaves nothing it had when the closing began (owned keeps
\* that), however many attempts it took and whatever ran meanwhile.
AccountGone ==
  [][user /\ ~user' => \E s \in Slots :
       At(s, "deleteAccount", "row") /\ request[s].owned \cap (Holdings \cup rows)' = {}]_vars

\* A document of a dataset nobody is deleting keeps its source object, as long
\* as no deletion has failed between the objects and the rows.
SourcesKept ==
  \A d \in Ids :
    Present(d) /\ <<"doc", d>> \in rows /\ faults = 0 /\ (\A s \in Slots : ~DeletesIn(s, d))
      => <<"source", d>> \in objects

\* Conversations outlive their dataset; only closing the account ends them.
ConversationsKept ==
  [][\A r \in rows \ rows' : r[1] = "session" =>
       \E s \in Slots : At(s, "deleteAccount", "sessions")]_vars

\* The references between datasets, models, documents and objects hold, as far
\* as requests that check and write without a lock allow.
CatalogInvariant == TypeOK /\ BoundModelsExist /\ NoOrphans /\ SourcesKept

\* A deletion reaches what it is to reach and nothing else: a closed account
\* leaves nothing behind, and a deleted dataset leaves the conversations.
DeletionScope == AccountGone /\ ConversationsKept
=============================================================================
