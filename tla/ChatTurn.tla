------------------------------ MODULE ChatTurn ------------------------------
(***************************************************************************)
(* Turns of one chat session.  A turn is three goroutines: the HTTP        *)
(* handler (setting the turn up, then forwarding frames), run (the RAG     *)
(* orchestration) and the model client's reader; a channel of capacity     *)
(* StreamCap leads from the reader to run and one of EventCap from run to  *)
(* the handler (16 and 32 in the code).  net/http cancels the request's    *)
(* context when the handler returns or the connection is seen to break.    *)
(* Beside the turns the user may delete the session.                       *)
(***************************************************************************)
EXTENDS ChatStore, Sequences, Faults

CONSTANTS
  Turns,               \* turns a user may start, at any time
  Chunks,              \* bound: pieces of a model's answer
  StreamCap, EventCap,
  MaxHits,             \* bound: chunks a retrieval finds
  Leavers              \* turns whose client may leave

ASSUME ChatAssumption ==
  /\ Leavers \subseteq Turns
  /\ Chunks \in Nat /\ MaxHits \in Nat
  /\ StreamCap \in Nat \ {0} /\ EventCap \in Nat \ {0}

VARIABLES
  handler,             \* [Turns -> control point of the HTTP handler]
  client,              \* [Turns -> the client is still connected]
  cancelled,           \* [Turns -> the request's context is cancelled]
  question, reply,     \* [Turns -> ids of the two messages, or 0]
  run,                 \* [Turns -> control point of ChatService.run]
  history,             \* [Turns -> messages read as history]
  hits,                \* [Turns -> number of citations the retrieval offers]
  answer,              \* [Turns -> pieces collected so far]
  reader,              \* [Turns -> state of the model client's goroutine]
  sent,                \* [Turns -> pieces the reader has sent]
  stream, events,      \* [Turns -> the two channels]
  seen,                \* [Turns -> frames the client has received]
  deletion, found      \* control point of Delete, citations it has found

turnVars == <<handler, client, cancelled, question, reply, run, history, hits,
              answer, reader, sent, stream, events, seen>>
vars == <<tables, turnVars, deletion, found, faults>>

HandlerPoints == {"idle", "session", "question", "reply", "serving",
                  "refused", "ended"}
RunPoints == {"off", "meta", "history", "retrieve", "answer", "forward",
              "store", "done", "error", "ended"}
ReaderStates == {"off", "open", "complete", "broken"}
Terminal == {"done", "error"}
Sorry == Chunks + 1    \* the text stored for an answer without content

Init ==
  /\ StoreInit /\ FaultInit
  /\ handler = [t \in Turns |-> "idle"]
  /\ client = [t \in Turns |-> TRUE]
  /\ cancelled = [t \in Turns |-> FALSE]
  /\ question = [t \in Turns |-> 0]
  /\ reply = [t \in Turns |-> 0]
  /\ run = [t \in Turns |-> "off"]
  /\ history = [t \in Turns |-> {}]
  /\ hits = [t \in Turns |-> 0]
  /\ answer = [t \in Turns |-> 0]
  /\ reader = [t \in Turns |-> "off"]
  /\ sent = [t \in Turns |-> 0]
  /\ stream = [t \in Turns |-> <<>>]
  /\ events = [t \in Turns |-> <<>>]
  /\ seen = [t \in Turns |-> <<>>]
  /\ deletion = "none"
  /\ found = {}

At(pc, t, from, to) == pc[t] = from /\ pc' = [pc EXCEPT ![t] = to]

\* A statement or a call of turn t works only while its context lives, and
\* fails when the context is cancelled or by a fault of the given kind.
Works(t) == ~cancelled[t] /\ NoFault
Fails(t, kind) == (cancelled[t] /\ NoFault) \/ Fault(kind)

-----------------------------------------------------------------------------
(* ChatService.ChatStream, in the handler's goroutine.                     *)

others == <<run, history, hits, answer, reader, sent, stream, events, seen>>

Start(t) ==
  /\ At(handler, t, "idle", "session")
  /\ UNCHANGED <<tables, client, cancelled, question, reply, others, deletion, found, faults>>

\* The session exists, and so does its dataset, whose row is not modelled.
CheckSession(t) ==
  /\ session /\ Works(t)
  /\ At(handler, t, "session", "question")
  /\ UNCHANGED <<tables, client, cancelled, question, reply, others, deletion, found>>

CreateQuestion(t) ==
  /\ Works(t)
  /\ At(handler, t, "question", "reply")
  /\ CreateMessage("user", 1)
  /\ question' = [question EXCEPT ![t] = lastId']
  /\ UNCHANGED <<client, cancelled, reply, others, deletion, found>>

\* The placeholder; then run is started.  The new title and Touch, whose
\* errors are ignored, change nothing that is modelled.
CreateReply(t) ==
  /\ Works(t)
  /\ At(handler, t, "reply", "serving")
  /\ CreateMessage("assistant", Blank)
  /\ reply' = [reply EXCEPT ![t] = lastId']
  /\ run' = [run EXCEPT ![t] = "meta"]
  /\ UNCHANGED <<client, cancelled, question, history, hits, answer, reader, sent,
                 stream, events, seen, deletion, found>>

\* An error of any of the four statements is answered, and the request ends.
Refuse(t) ==
  /\ \/ handler[t] = "session" /\ ~session /\ Works(t)
     \/ handler[t] \in {"session", "question", "reply"} /\ Fails(t, "db")
  /\ handler' = [handler EXCEPT ![t] = "refused"]
  /\ cancelled' = [cancelled EXCEPT ![t] = TRUE]
  /\ UNCHANGED <<tables, client, question, reply, others, deletion, found>>

-----------------------------------------------------------------------------
(* HandleChatCompletions, forwarding frames.                               *)

\* A frame for a client that has gone may still be written to a buffer.
Forward(t) ==
  /\ handler[t] = "serving"
  /\ events[t] # <<>>
  /\ events' = [events EXCEPT ![t] = Tail(@)]
  /\ seen' = IF client[t] THEN [seen EXCEPT ![t] = Append(@, Head(events[t]))] ELSE seen
  /\ UNCHANGED <<tables, handler, client, cancelled, question, reply, run, history,
                 hits, answer, reader, sent, stream, deletion, found, faults>>

\* Mutated: write errors are ignored, and the end is seen by the frames.
ReturnAfterTerminal(t) ==
  /\ seen[t] # <<>> /\ seen[t][Len(seen[t])] \in Terminal
  /\ At(handler, t, "serving", "ended")
  /\ cancelled' = [cancelled EXCEPT ![t] = TRUE]
  /\ UNCHANGED <<tables, client, question, reply, run, history, hits, answer, reader,
                 sent, stream, events, seen, deletion, found, faults>>

\* The handler returns when the channel is closed and empty, or when a write
\* to a client that has gone fails; the event it held is lost.
HandlerReturns(t) ==
  /\ \/ run[t] = "ended" /\ events[t] = <<>> /\ UNCHANGED events
     \/ ~client[t] /\ events[t] # <<>> /\ events' = [events EXCEPT ![t] = Tail(@)]
  /\ At(handler, t, "serving", "ended")
  /\ cancelled' = [cancelled EXCEPT ![t] = TRUE]
  /\ UNCHANGED <<tables, client, question, reply, run, history, hits, answer, reader,
                 sent, stream, seen, deletion, found, faults>>

ClientLeaves(t) ==
  /\ handler[t] \notin {"idle", "refused", "ended"}
  /\ client[t] /\ t \in Leavers
  /\ client' = [client EXCEPT ![t] = FALSE]
  /\ UNCHANGED <<tables, handler, cancelled, question, reply, others, deletion, found, faults>>

\* The server notices the broken connection while the handler still runs.
NoticeGone(t) ==
  /\ handler[t] \notin {"refused", "ended"}
  /\ ~client[t] /\ ~cancelled[t]
  /\ cancelled' = [cancelled EXCEPT ![t] = TRUE]
  /\ UNCHANGED <<tables, handler, client, question, reply, others, deletion, found, faults>>

-----------------------------------------------------------------------------
(* ChatService.run.                                                        *)

\* A send blocks while the channel is full, whether or not anyone reads it.
Emit(t, kind) ==
  /\ Len(events[t]) < EventCap
  /\ events' = [events EXCEPT ![t] = Append(@, kind)]

runOnly == <<tables, handler, client, cancelled, question, reply, reader, sent, stream,
             seen, deletion, found>>

SendMeta(t) ==
  /\ At(run, t, "meta", "history")
  /\ Emit(t, "meta")
  /\ UNCHANGED <<runOnly, history, hits, answer, faults>>

Settled(m) == m.content # Blank

\* Mutated: placeholders are not left out of the history.
RecentWithBlank(t) == {m \in messages : m.id < question[t]}

\* recentHistory: earlier messages of the session that have content.  (The
\* last ten of them; the bound is not reached here.)
Recent(t) == {m \in messages : m.id < question[t] /\ Settled(m)}

ReadHistory(t) ==
  /\ At(run, t, "history", "retrieve")
  /\ Works(t)
  /\ history' = [history EXCEPT ![t] = Recent(t)]
  /\ UNCHANGED <<runOnly, events, hits, answer>>

\* The plan needs no retrieval, or the retrieval of its queries offers some
\* hits.  The planner's own failures fall back to a direct query.  Then the
\* prompt is built and the model is called, which starts the reader.
Retrieve(t) ==
  /\ At(run, t, "retrieve", "answer")
  /\ \/ UNCHANGED <<hits, faults>>
     \/ Works(t) /\ \E n \in 0..MaxHits : hits' = [hits EXCEPT ![t] = n]
  /\ reader' = [reader EXCEPT ![t] = "open"]
  /\ UNCHANGED <<tables, handler, client, cancelled, question, reply, sent, stream, seen,
                 events, history, answer, deletion, found>>

\* History or retrieval fails: one error event, nothing is stored.
StepFails(t) ==
  /\ run[t] \in {"history", "retrieve"}
  /\ Fails(t, "db") \/ (run[t] = "retrieve" /\ Fault("io"))
  /\ run' = [run EXCEPT ![t] = "error"]
  /\ UNCHANGED <<runOnly, events, history, hits, answer>>

\* One event of the stream; it ends with the marker, with an error, or by
\* being closed.
Upcoming(t) == Head(stream[t])

TakePiece(t) ==
  /\ stream[t] # <<>> /\ Upcoming(t) = "piece"
  /\ At(run, t, "answer", "forward")
  /\ stream' = [stream EXCEPT ![t] = Tail(@)]
  /\ answer' = [answer EXCEPT ![t] = @ + 1]
  /\ UNCHANGED <<tables, handler, client, cancelled, question, reply, reader, sent, seen,
                 deletion, found, events, history, hits, faults>>

SendPiece(t) ==
  /\ At(run, t, "forward", "answer")
  /\ Emit(t, "delta")
  /\ UNCHANGED <<runOnly, history, hits, answer, faults>>

TakeError(t) ==
  /\ stream[t] # <<>> /\ Upcoming(t) = "error"
  /\ At(run, t, "answer", "error")
  /\ UNCHANGED <<runOnly, events, history, hits, answer, faults>>

\* Mutated: an error ends the answer like its marker does.
FinishOnAnyEnd(t) ==
  /\ \/ stream[t] # <<>> /\ Upcoming(t) \in {"marker", "error"}
     \/ stream[t] = <<>> /\ reader[t] \in {"complete", "broken"}
  /\ At(run, t, "answer", "store")
  /\ UNCHANGED <<runOnly, events, history, hits, answer, faults>>

\* Mutated: done is sent before the answer is stored, and ends the turn.
FinishUnstored(t) ==
  /\ stream[t] # <<>> /\ Upcoming(t) = "marker"
  /\ At(run, t, "answer", "done")
  /\ UNCHANGED <<runOnly, events, history, hits, answer, faults>>

FinishAnswer(t) ==
  /\ \/ stream[t] # <<>> /\ Upcoming(t) = "marker"
     \/ stream[t] = <<>> /\ reader[t] \in {"complete", "broken"}
  /\ At(run, t, "answer", "store")
  /\ UNCHANGED <<runOnly, events, history, hits, answer, faults>>

\* filterCitationsByAnswer: the model may mention any numbers; those that the
\* retrieval did not offer are dropped.
Cited(mentioned, offered) == mentioned \cap (1..offered)
Final(t) == IF answer[t] = 0 THEN Sorry ELSE answer[t]

\* The answer replaces the placeholder.  A failure is logged, and the turn
\* goes on to done all the same.
StoreAnswer(t) ==
  /\ At(run, t, "store", "done")
  /\ \/ /\ Works(t)
        /\ \E mentioned \in SUBSET (1..(MaxHits + 1)) :
             UpdateContent(reply[t], Final(t), IF answer[t] = 0 THEN {} ELSE Cited(mentioned, hits[t]))
     \/ /\ Works(t) /\ reply[t] \notin IdsOf(messages) /\ UNCHANGED tables
     \/ /\ Fails(t, "db") /\ UNCHANGED tables
  /\ UNCHANGED <<handler, client, cancelled, question, reply, reader, sent, stream, seen,
                 deletion, found, events, history, hits, answer>>

SendDone(t) ==
  /\ At(run, t, "done", "ended")
  /\ Emit(t, "done")
  /\ UNCHANGED <<runOnly, history, hits, answer, faults>>

\* Mutated: no return after the error event.
SendErrorAndGoOn(t) ==
  /\ At(run, t, "error", "done")
  /\ Emit(t, "error")
  /\ UNCHANGED <<runOnly, history, hits, answer, faults>>

\* Mutated: the error is logged only.
EndSilently(t) ==
  /\ At(run, t, "error", "ended")
  /\ UNCHANGED <<runOnly, events, history, hits, answer, faults>>

SendError(t) ==
  /\ At(run, t, "error", "ended")
  /\ Emit(t, "error")
  /\ UNCHANGED <<runOnly, history, hits, answer, faults>>

-----------------------------------------------------------------------------
(* llm.Client.ChatStream: the goroutine that reads the model's SSE answer. *)

Push(t, item) ==
  /\ reader[t] = "open"
  /\ Len(stream[t]) < StreamCap
  /\ stream' = [stream EXCEPT ![t] = Append(@, item)]
  /\ UNCHANGED <<tables, handler, client, cancelled, question, reply, run, history, hits,
                 answer, events, seen, deletion, found>>

\* Pieces that were read into the buffer are sent even when the context has
\* been cancelled since.
ReadPiece(t) ==
  /\ sent[t] < Chunks
  /\ Push(t, "piece")
  /\ sent' = [sent EXCEPT ![t] = @ + 1]
  /\ UNCHANGED <<reader, faults>>

ReadMarker(t) ==
  /\ Push(t, "marker")
  /\ reader' = [reader EXCEPT ![t] = "complete"]
  /\ UNCHANGED <<sent, faults>>

\* The call or the stream fails, a frame cannot be parsed, the stream ends
\* without its marker, or the client's 120 seconds are over: one error, then
\* the channel is closed.
ReadBreaks(t) ==
  /\ Fails(t, "io")
  /\ Push(t, "error")
  /\ reader' = [reader EXCEPT ![t] = "broken"]
  /\ UNCHANGED sent

-----------------------------------------------------------------------------
(* SessionService.Delete.                                                  *)

DeleteChecks ==
  /\ deletion \in {"none", "failed"}
  /\ session
  /\ deletion' = "citations"
  /\ UNCHANGED <<tables, turnVars, found, faults>>

DeleteFinds ==
  /\ deletion = "citations"
  /\ deletion' = "messages"
  /\ found' = CitationsOf(messages)
  /\ UNCHANGED <<tables, turnVars, faults>>

DeleteMessages ==
  /\ deletion = "messages"
  /\ CommitDeleteBySession(found)
  /\ deletion' = "row"
  /\ found' = {}
  /\ UNCHANGED <<turnVars, faults>>

DeleteRow ==
  /\ deletion = "row"
  /\ DeleteSessionRow
  /\ deletion' = "done"
  /\ UNCHANGED <<turnVars, found, faults>>

DeleteFails ==
  /\ deletion \in {"citations", "messages", "row"}
  /\ Fault("db")
  /\ deletion' = "failed"
  /\ found' = {}
  /\ UNCHANGED <<tables, turnVars>>

-----------------------------------------------------------------------------
\* The server process dies with all its goroutines.
Live(t) == handler[t] \notin {"idle", "refused"} /\ (handler[t] # "ended" \/ run[t] \notin {"off", "ended"})

ServerDies ==
  /\ Fault("crash")
  /\ \E t \in Turns : Live(t)
  /\ handler' = [t \in Turns |-> IF Live(t) THEN "ended" ELSE handler[t]]
  /\ client' = [t \in Turns |-> ~Live(t) /\ client[t]]
  /\ cancelled' = [t \in Turns |-> Live(t) \/ cancelled[t]]
  /\ run' = [t \in Turns |-> IF run[t] = "off" THEN "off" ELSE "ended"]
  /\ reader' = [t \in Turns |-> IF reader[t] = "open" THEN "broken" ELSE reader[t]]
  /\ stream' = [t \in Turns |-> <<>>]
  /\ events' = [t \in Turns |-> <<>>]
  /\ deletion' = IF deletion \in {"none", "done"} THEN deletion ELSE "failed"
  /\ found' = {}
  /\ UNCHANGED <<tables, question, reply, history, hits, answer, sent, seen>>

SetUp(t) == CheckSession(t) \/ CreateQuestion(t) \/ CreateReply(t) \/ Refuse(t)
Serve(t) == Forward(t) \/ HandlerReturns(t)
Run(t) ==
  \/ SendMeta(t) \/ ReadHistory(t) \/ Retrieve(t) \/ StepFails(t)
  \/ TakePiece(t) \/ SendPiece(t) \/ TakeError(t) \/ FinishAnswer(t)
  \/ StoreAnswer(t) \/ SendDone(t) \/ SendError(t)
Read(t) == ReadPiece(t) \/ ReadMarker(t) \/ ReadBreaks(t)
Delete == DeleteFinds \/ DeleteMessages \/ DeleteRow \/ DeleteFails

Next ==
  \/ \E t \in Turns : Start(t) \/ SetUp(t) \/ Serve(t) \/ ClientLeaves(t) \/ NoticeGone(t)
                      \/ Run(t) \/ Read(t)
  \/ DeleteChecks \/ Delete
  \/ ServerDies

\* Goroutines are scheduled; a model service answers or its client times out.
\* Nothing is assumed of users and faults.
Fairness == \A t \in Turns :
  WF_vars(SetUp(t)) /\ WF_vars(Serve(t)) /\ WF_vars(Run(t)) /\ WF_vars(Read(t))

Spec == Init /\ [][Next]_vars /\ Fairness
-----------------------------------------------------------------------------
(* Properties.                                                             *)

TypeOK ==
  /\ StoreTypeOK /\ faults \in 0..MaxFaults
  /\ handler \in [Turns -> HandlerPoints]
  /\ client \in [Turns -> BOOLEAN] /\ cancelled \in [Turns -> BOOLEAN]
  /\ question \in [Turns -> 0..lastId] /\ reply \in [Turns -> 0..lastId]
  /\ run \in [Turns -> RunPoints] /\ reader \in [Turns -> ReaderStates]
  /\ hits \in [Turns -> 0..MaxHits]
  /\ \A t \in Turns :
       /\ history[t] \subseteq Message
       /\ answer[t] \in 0..sent[t] /\ sent[t] \in 0..Chunks
       /\ stream[t] \in Seq({"piece", "marker", "error"}) /\ Len(stream[t]) <= StreamCap
       /\ events[t] \in Seq({"meta", "delta"} \cup Terminal) /\ Len(events[t]) <= EventCap
  /\ deletion \in {"none", "citations", "messages", "row", "done", "failed"}

ReplyOf(t) == {m \in messages : m.id = reply[t]}

\* A stored answer is a whole one: run and consumeSSE never let the text of a
\* stream that broke off, or that was cancelled, reach t_message.  Citations
\* belong to stored answers and to hits of their own turn.
StoredIsComplete ==
  \A t \in Turns : \A m \in ReplyOf(t) :
    /\ Settled(m) => /\ reader[t] = "complete"
                     /\ m.content = IF sent[t] = 0 THEN Sorry ELSE sent[t]
    /\ \A c \in CitationsOf({m}) : m.content \in 1..Chunks /\ c[2] \in 1..hits[t]

\* What the client of a turn sees is one meta, deltas, and at most one done or
\* error after which nothing comes (the frames of HandleChatCompletions).
WellFormedStream ==
  \A t \in Turns : \A i \in 1..Len(seen[t]) :
    /\ (seen[t][i] = "meta") <=> (i = 1)
    /\ seen[t][i] \in Terminal => i = Len(seen[t])

Deltas(t) == {i \in 1..Len(seen[t]) : seen[t][i] = "delta"}
Saw(t, frame) == \E i \in 1..Len(seen[t]) : seen[t][i] = frame

\* When nothing fails, a client that sees done has seen every piece, and
\* finds the same answer in the session, unless the session was deleted.
DoneIsStored ==
  \A t \in Turns : Saw(t, "done") =>
    /\ Cardinality(Deltas(t)) = sent[t]
    /\ faults = 0 => \/ deletion # "none"
                     \/ \E m \in ReplyOf(t) : Settled(m)

\* History given to the planner and the model is final: no later step of any
\* turn changes a message that was read as history (it may be deleted).
HistoryIsFinal ==
  \A t \in Turns : \A m \in history[t] :
    /\ m \in messages \/ m.id \notin IdsOf(messages)
    /\ m.id \notin {question[t], reply[t]}

\* A turn that is still running when its session is deleted never brings a
\* message back, and never adds citations to one that is gone.
NoRevival ==
  [][ /\ \A m \in messages' : m.id <= lastId => m.id \in IdsOf(messages)
      /\ \A c \in citations' \ citations : c[1] \in IdsOf(messages') ]_vars

\* Every turn that starts comes to an end for its client: a terminal frame,
\* or a refusal, unless the client leaves.
TurnEnds ==
  \A t \in Turns : handler[t] = "session" ~>
    (handler[t] = "refused" \/ Saw(t, "done") \/ Saw(t, "error") \/ ~client[t])

\* The handler ends, whether or not its client stays.
HandlerEnds ==
  \A t \in Turns : handler[t] = "session" ~> handler[t] \in {"refused", "ended"}

\* The goroutine of a turn ends, as the comment of llm.ChatStream asks (its
\* caller must drain the channel so that the connection is released).
RunEnds == \A t \in Turns : run[t] = "meta" ~> run[t] = "ended"

\* What t_message holds at any time: well-typed rows, whole answers, and a
\* history that is final once it has been read.
ChatInvariant == TypeOK /\ StoredIsComplete /\ HistoryIsFinal

\* What the client sees is true: a well-formed stream whose done means that
\* the answer is complete and stored.
StreamIsTrue == WellFormedStream /\ DoneIsStored

\* Turns come to an end, for the client and for the server.
TurnsEnd == TurnEnds /\ HandlerEnds
=============================================================================
