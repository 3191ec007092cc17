------------------------------- MODULE MinerU -------------------------------
(***************************************************************************)
(* The client of the MinerU service: a parse asks for an upload address,   *)
(* uploads the file, polls its batch until the service is done with it and *)
(* downloads the result, all under one deadline.  The worker calls it      *)
(* again when the error is not permanent, and every parse is a batch of    *)
(* its own.  The service is external: it takes as long as it likes.        *)
(***************************************************************************)
EXTENDS Integers, Faults

CONSTANT MaxParses     \* bound on the parses of one file
ASSUME MinerUAssumption == MaxParses \in Nat

VARIABLES
  parse,               \* [at, batch, outcome] of the current parse; batch 0 before it has one
  parses,              \* parses begun
  expired,             \* the deadline of the current parse has passed
  batches,             \* [1..MaxParses -> the service's batch]
  sendable             \* the file fits and the client has an address and a token

minerU == <<parse, parses, expired, batches, sendable>>
minerUVars == <<minerU, faults>>

BatchStates == {"none", "created", "running", "done", "without_url", "failed"}
NoBatch == [state |-> "none", archive |-> "none"]

\* A file the worker will parse, or one given up long ago.
MinerUInit ==
  /\ sendable \in BOOLEAN
  /\ \E outcome \in {"transient", "permanent"} :
       /\ outcome = "permanent" => ~sendable
       /\ parse = [at |-> "returned", batch |-> 0, outcome |-> outcome]
  /\ parses = 0 /\ expired = FALSE
  /\ batches = [b \in 1..MaxParses |-> NoBatch]
  /\ FaultInit

-----------------------------------------------------------------------------
(* The client.                                                             *)

At(a) == parse.at = a
Proceed(a) == parse' = [parse EXCEPT !.at = a]
EndWith(outcome) == parse' = [parse EXCEPT !.at = "returned", !.outcome = outcome]
Here == batches[parse.batch]

\* The worker parses a file, or parses it again after a transient error.
ParseFile ==
  /\ At("returned") /\ parse.outcome = "transient"
  /\ parses < MaxParses
  /\ parses' = parses + 1 /\ expired' = FALSE
  /\ parse' = [at |-> "create", batch |-> 0, outcome |-> "none"]
  /\ UNCHANGED <<batches, sendable, faults>>

\* Without a token or an address, or with a file that is empty or too large,
\* there is nothing to send.
Refuse ==
  /\ At("create") /\ ~sendable
  /\ EndWith("permanent")
  /\ UNCHANGED <<parses, expired, batches, sendable, faults>>

CanCreate == At("create") /\ sendable /\ ~expired
NewBatch == [batches EXCEPT ![parses].state = "created"]

\* Mutated: polled for without an upload.
PollAtOnce == "poll"
UploadFirst == "upload"

createUpload ==
  /\ CanCreate
  /\ batches' = NewBatch
  /\ parse' = [parse EXCEPT !.at = UploadFirst, !.batch = parses]
  /\ UNCHANGED <<parses, expired, sendable, faults>>

\* The service starts by itself when the file is there.
upload ==
  /\ At("upload") /\ ~expired
  /\ Proceed("poll")
  /\ batches' = [batches EXCEPT ![parse.batch].state = "running"]
  /\ UNCHANGED <<parses, expired, sendable, faults>>

Waited == {"created", "running"}

\* One poll of the batch; what is not finished is waited for.
waitResult ==
  /\ At("poll") /\ ~expired
  /\ CASE Here.state \in Waited -> Proceed("wait")
       [] Here.state = "done" -> Proceed("download")
       [] Here.state = "failed" -> EndWith("permanent")
       [] OTHER -> EndWith("transient")
  /\ UNCHANGED <<parses, expired, batches, sendable, faults>>

PollAgain ==
  /\ At("wait") /\ Proceed("poll")
  /\ UNCHANGED <<parses, expired, batches, sendable, faults>>

\* A result that cannot be read will not be better next time.
download ==
  /\ At("download") /\ ~expired
  /\ EndWith(IF Here.archive = "usable" THEN "atoms" ELSE "permanent")
  /\ UNCHANGED <<parses, expired, batches, sendable, faults>>

Requests == {"create", "upload", "poll", "download"}

\* Mutated: an error is an error.
PermanentAnyway == EndWith("permanent")
Retryable == EndWith("transient")

\* A request fails: the network, a status that is not 2xx, a body that is not
\* JSON, a code that is not 0.  The service may have acted on it.
RequestFails ==
  /\ \E a \in Requests : At(a)
  /\ At("create") => sendable
  /\ Fault("conn")
  /\ Retryable
  /\ \/ UNCHANGED batches
     \/ CanCreate /\ batches' = NewBatch
     \/ /\ At("upload") /\ ~expired
        /\ batches' = [batches EXCEPT ![parse.batch].state = "running"]
  /\ UNCHANGED <<parses, expired, sendable>>

\* Mutated: the timer alone wakes the wait up, and the poll goes on.
NoticeLater == IF At("poll") \/ At("wait") THEN Proceed("poll") ELSE EndWith("transient")
\* Once the deadline has passed every request fails, and so does the wait.
Notice == EndWith("transient")

DeadlineEnds ==
  /\ expired /\ ~At("returned") /\ (At("create") => sendable)
  /\ Notice
  /\ UNCHANGED <<parses, expired, batches, sendable, faults>>

Expire ==
  /\ ~expired /\ ~At("returned")
  /\ expired' = TRUE
  /\ UNCHANGED <<parse, parses, batches, sendable, faults>>

-----------------------------------------------------------------------------
(* The service, which may be slow, or never finish.                        *)

Serve(b) ==
  /\ batches[b].state = "running"
  /\ \E state \in {"done", "without_url", "failed"}, archive \in {"usable", "unusable"} :
       batches' = [batches EXCEPT ![b] =
         [state |-> state, archive |-> IF state = "done" THEN archive ELSE "none"]]
  /\ UNCHANGED <<parse, parses, expired, sendable, faults>>

MinerUClient ==
  Refuse \/ createUpload \/ upload \/ waitResult \/ PollAgain \/ download \/ DeadlineEnds

MinerUNext ==
  \/ ParseFile \/ MinerUClient \/ RequestFails \/ Expire
  \/ \E b \in 1..MaxParses : Serve(b)

\* The client goes on, every request has a timeout of its own, and time
\* passes.  The worker retries.  Nothing is assumed of the service.
MinerUFairness ==
  /\ WF_minerUVars(MinerUClient) /\ WF_minerUVars(Expire) /\ WF_minerUVars(ParseFile)

MinerUSpec == MinerUInit /\ [][MinerUNext]_minerUVars /\ MinerUFairness

-----------------------------------------------------------------------------
(* Properties.                                                             *)

\* Types; only a batch whose file is there is polled for and downloaded.
MinerUTypeOK ==
  /\ parse \in [at : Requests \cup {"wait", "returned"}, batch : 0..MaxParses,
                outcome : {"none", "atoms", "permanent", "transient"}]
  /\ parses \in 0..MaxParses /\ expired \in BOOLEAN /\ sendable \in BOOLEAN
  /\ batches \in [1..MaxParses -> [state : BatchStates, archive : {"none", "usable", "unusable"}]]
  /\ (At("poll") \/ At("wait") \/ At("download")) => Here.state \notin {"none", "created"}

\* A document is given up only when the service itself refused the file or
\* its result is unusable, or nothing could be sent: network faults, slow
\* batches and passed deadlines never make an error permanent.
PermanentIsRefused ==
  parse.outcome = "permanent" =>
    \/ ~sendable
    \/ parse.batch # 0 /\ (Here.state = "failed" \/ Here.archive = "unusable")

\* A parse ends, whatever the service does: the last one permanently, with
\* atoms, or at the bound of the retries.
ParsesEnd ==
  parses > 0 ~> (At("returned") /\ (parse.outcome # "transient" \/ parses = MaxParses))

\* The client asks for batches that exist, and gives a document up only for
\* what the service said.
MinerUInvariant == MinerUTypeOK /\ PermanentIsRefused
=============================================================================
