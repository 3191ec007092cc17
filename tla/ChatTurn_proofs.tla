--------------------------- MODULE ChatTurn_proofs ---------------------------
(***************************************************************************)
(* ChatInvariant, NoRevival and StreamIsTrue hold for any number of turns  *)
(* and of faults, any length of an answer and any capacities of the        *)
(* channels.                                                               *)
(***************************************************************************)
EXTENDS ChatTurn, FiniteSetTheorems, TLAPS

Early == {"off", "meta", "history", "retrieve"}
Stored == {"done", "ended"}

\* The pieces that are still in the stream, followed by its end.
PiecesThen(t, last) ==
  /\ Len(stream[t]) > 0 /\ stream[t][Len(stream[t])] = last
  /\ \A i \in 1..(Len(stream[t]) - 1) : stream[t][i] = "piece"
  /\ answer[t] + Len(stream[t]) - 1 = sent[t]

StreamInPlace(t) ==
  \/ /\ reader[t] = "open"
     /\ \A i \in 1..Len(stream[t]) : stream[t][i] = "piece"
     /\ answer[t] + Len(stream[t]) = sent[t]
  \/ reader[t] = "complete" /\ PiecesThen(t, "marker")
  \/ reader[t] = "broken" /\ PiecesThen(t, "error")

\* How far the three goroutines of a turn are.
TurnInPlace(t) ==
  /\ handler[t] \in {"idle", "session", "question"} => question[t] = 0
  /\ handler[t] \in {"idle", "session", "question", "reply"} => run[t] = "off"
  /\ handler[t] = "reply" => question[t] # 0
  /\ run[t] = "off" => reply[t] = 0 /\ history[t] = {}
  /\ run[t] \in Early => /\ reader[t] = "off" /\ stream[t] = <<>>
                         /\ sent[t] = 0 /\ answer[t] = 0
  /\ run[t] \in {"answer", "forward"} => StreamInPlace(t)
  /\ run[t] = "store" => reader[t] = "complete" /\ answer[t] = sent[t]
  /\ reply[t] # 0 => question[t] # 0 /\ question[t] < reply[t]

\* A message is one turn's question or one turn's reply.
IdsApart ==
  \A t, u \in Turns :
    /\ question[t] # 0 /\ question[t] = question[u] => t = u
    /\ reply[t] # 0 /\ reply[t] = reply[u] => t = u

\* A reply is blank and cites nothing until it is stored.
BlankUntilStored ==
  \A t \in Turns : run[t] \notin Stored =>
    \A m \in ReplyOf(t) : m.content = Blank /\ CitationsOf({m}) = {}

\* What was read as history had its content, and is older than the question.
HistorySettled ==
  \A t \in Turns : \A m \in history[t] :
    Settled(m) /\ m.id < question[t] /\ m.id \in 1..lastId

PerTurn ==
  /\ DOMAIN history = Turns /\ DOMAIN answer = Turns /\ DOMAIN sent = Turns
  /\ DOMAIN stream = Turns /\ DOMAIN events = Turns

ChatStrong ==
  /\ ChatInvariant /\ PerTurn /\ lastId \in Nat
  /\ \A t \in Turns : TurnInPlace(t)
  /\ IdsApart /\ BlankUntilStored /\ HistorySettled

(* Steps that leave the tables alone.                                      *)

\* The fields of a turn that the invariant is about.
Fields(t) ==
  <<handler[t], question[t], reply[t], run[t], history[t], hits[t], answer[t], reader[t], sent[t], stream[t]>>

\* A step of one turn keeps the invariant if it leaves the turn in place, and
\* what has been stored as it is.
LEMMA TurnKeeps ==
  ASSUME ChatStrong, NEW t \in Turns, UNCHANGED tables, TypeOK', PerTurn', TurnInPlace(t)',
         \A u \in Turns \ {t} : UNCHANGED Fields(u),
         question'[t] = question[t], reply'[t] = reply[t],
         run'[t] \notin Stored => run[t] \notin Stored,
         reader[t] = "complete" => reader'[t] = "complete" /\ sent'[t] = sent[t],
         hits'[t] = hits[t] \/ run[t] \notin Stored,
         history'[t] = history[t] \/ history'[t] = Recent(t)
  PROVE  ChatStrong'
<1> USE ChatAssumption DEF ChatStrong, ChatInvariant
<1>1. \A u \in Turns \ {t} :
        /\ handler'[u] = handler[u] /\ question'[u] = question[u] /\ reply'[u] = reply[u]
        /\ run'[u] = run[u] /\ history'[u] = history[u] /\ hits'[u] = hits[u]
        /\ answer'[u] = answer[u] /\ reader'[u] = reader[u] /\ sent'[u] = sent[u]
        /\ stream'[u] = stream[u]
  BY DEF Fields
<1>2. UNCHANGED <<session, messages, citations, lastId>>
  BY DEF tables
<1>3. \A u \in Turns : question'[u] = question[u] /\ reply'[u] = reply[u] /\ ReplyOf(u)' = ReplyOf(u)
  BY <1>1, <1>2 DEF ReplyOf
<1>4. \A rows : CitationsOf(rows)' = CitationsOf(rows)
  BY <1>2 DEF CitationsOf
<1>5. \A u \in Turns : TurnInPlace(u)'
  <2> TAKE u \in Turns
  <2>1. CASE u # t
    BY <1>1, <2>1 DEF TurnInPlace, StreamInPlace, PiecesThen
  <2>2. CASE u = t
    BY <2>2
  <2> QED
    BY <2>1, <2>2
<1>6. IdsApart'
  BY <1>3 DEF IdsApart
<1>7. BlankUntilStored'
  <2> SUFFICES ASSUME NEW u \in Turns, run'[u] \notin Stored, NEW m \in ReplyOf(u)
               PROVE  m.content = Blank /\ CitationsOf({m}) = {}
    BY <1>3, <1>4 DEF BlankUntilStored
  <2>1. run[u] \notin Stored
    BY <1>1
  <2> QED
    BY <2>1 DEF BlankUntilStored
<1>8. HistorySettled' /\ HistoryIsFinal'
  <2> SUFFICES ASSUME NEW u \in Turns, NEW m \in history'[u]
               PROVE  /\ Settled(m) /\ m.id < question[u] /\ m.id \in 1..lastId
                      /\ m \in messages \/ m.id \notin IdsOf(messages)
                      /\ m.id \notin {question[u], reply[u]}
    BY <1>2, <1>3 DEF HistorySettled, HistoryIsFinal, IdsOf
  <2>1. CASE m \in history[u]
    BY <2>1 DEF HistorySettled, HistoryIsFinal
  <2>2. CASE m \notin history[u]
    <3>1. u = t /\ m \in Recent(t)
      BY <1>1, <2>2
    <3>2. m \in messages /\ m.id < question[t] /\ Settled(m)
      BY <3>1 DEF Recent
    <3>3. m.id \in 1..lastId
      BY <3>2 DEF TypeOK, StoreTypeOK, Message
    <3>4. question[t] \in Nat /\ reply[t] \in Nat /\ (reply[t] # 0 => question[t] < reply[t])
      BY DEF TypeOK, StoreTypeOK, TurnInPlace
    <3> QED
      BY <3>1, <3>2, <3>3, <3>4
  <2> QED
    BY <2>1, <2>2
<1>9. StoredIsComplete'
  <2> SUFFICES ASSUME NEW u \in Turns, NEW m \in ReplyOf(u)
               PROVE  /\ Settled(m) => /\ reader'[u] = "complete"
                                       /\ m.content = IF sent'[u] = 0 THEN Sorry ELSE sent'[u]
                      /\ \A c \in CitationsOf({m}) : m.content \in 1..Chunks /\ c[2] \in 1..hits'[u]
    BY <1>3, <1>4 DEF StoredIsComplete, Settled, Sorry
  <2>1. CASE u # t
    BY <1>1, <2>1 DEF StoredIsComplete
  <2>2. CASE u = t /\ run[t] \in Stored
    BY <2>2 DEF StoredIsComplete
  <2>3. CASE u = t /\ run[t] \notin Stored
    BY <2>3 DEF BlankUntilStored, Settled
  <2> QED
    BY <2>1, <2>2, <2>3
<1> QED
  BY <1>2, <1>5, <1>6, <1>7, <1>8, <1>9

\* Types of a step that leaves the tables alone, piece by piece.
ControlTypes ==
  /\ faults \in 0..MaxFaults
  /\ handler \in [Turns -> HandlerPoints]
  /\ client \in [Turns -> BOOLEAN] /\ cancelled \in [Turns -> BOOLEAN]
  /\ run \in [Turns -> RunPoints] /\ reader \in [Turns -> ReaderStates]
  /\ hits \in [Turns -> 0..MaxHits]
  /\ deletion \in {"none", "citations", "messages", "row", "done", "failed"}
DataTypes ==
  \A t \in Turns :
    /\ history[t] \subseteq Message
    /\ answer[t] \in 0..sent[t] /\ sent[t] \in 0..Chunks
    /\ stream[t] \in Seq({"piece", "marker", "error"}) /\ Len(stream[t]) <= StreamCap
    /\ events[t] \in Seq({"meta", "delta"} \cup Terminal) /\ Len(events[t]) <= EventCap
IdTypes == question \in [Turns -> 0..lastId] /\ reply \in [Turns -> 0..lastId]

\* The parts make the type invariant.
LEMMA TypesSplit == TypeOK <=> StoreTypeOK /\ ControlTypes /\ DataTypes /\ IdTypes
  BY DEF TypeOK, ControlTypes, DataTypes, IdTypes

\* The store and the ids stay well-typed as long as they stay the same.
LEMMA StoreStays ==
  ASSUME StoreTypeOK, IdTypes, UNCHANGED <<tables, question, reply>>
  PROVE  StoreTypeOK' /\ IdTypes'
<1>1. UNCHANGED <<session, messages, citations, lastId>>
  BY DEF tables
<1> QED
  BY <1>1 DEF StoreTypeOK, IdTypes, Message, Roles

\* A failure that the budget allows.
LEMMA FaultTypes ==
  ASSUME faults \in 0..MaxFaults, NEW kind, Fault(kind) \/ NoFault
  PROVE  faults' \in 0..MaxFaults
  BY FaultAssumption DEF Fault, NoFault

\* The handler checks, refuses, forwards and returns; clients leave.
LEMMA HandlerKeeps ==
  ASSUME ChatStrong, NEW t \in Turns,
         \/ Start(t) \/ CheckSession(t) \/ Refuse(t)
         \/ Forward(t) \/ HandlerReturns(t) \/ ClientLeaves(t) \/ NoticeGone(t)
  PROVE  ChatStrong'
<1> USE ChatAssumption DEF ChatStrong, ChatInvariant
<1>1. /\ UNCHANGED <<tables, question, reply, run, history, hits, answer, reader, sent, stream, deletion>>
      /\ events' = events \/ (events[t] # <<>> /\ events' = [events EXCEPT ![t] = Tail(@)])
      /\ client' \in [Turns -> BOOLEAN] /\ cancelled' \in [Turns -> BOOLEAN]
  BY DEF Start, CheckSession, Refuse, Forward, HandlerReturns, ClientLeaves, NoticeGone, others, TypeOK
<1>2. /\ handler' \in [Turns -> HandlerPoints]
      /\ \A u \in Turns \ {t} : handler'[u] = handler[u]
      /\ handler'[t] \in {"idle", "session", "question"} => handler[t] \in {"idle", "session", "question"}
      /\ handler'[t] \in {"idle", "session", "question", "reply"}
           => handler[t] \in {"idle", "session", "question", "reply"}
      /\ handler'[t] = "reply" => handler[t] = "reply"
  BY DEF Start, CheckSession, Refuse, Forward, HandlerReturns, ClientLeaves, NoticeGone, At, TypeOK,
     HandlerPoints
<1>3. faults' \in 0..MaxFaults
  <2>1. \E kind : Fault(kind) \/ NoFault
    BY DEF Start, CheckSession, Refuse, Forward, HandlerReturns, ClientLeaves, NoticeGone, Works, Fails,
       NoFault
  <2> QED
    BY <2>1, FaultTypes DEF TypeOK
<1>4. TypeOK'
  <2>1. StoreTypeOK' /\ IdTypes'
    BY <1>1, StoreStays, TypesSplit
  <2>2. ControlTypes'
    BY <1>1, <1>2, <1>3 DEF TypeOK, ControlTypes, HandlerPoints, RunPoints, ReaderStates
  <2>3. DataTypes'
    <3> SUFFICES ASSUME NEW u \in Turns
                 PROVE  events'[u] \in Seq({"meta", "delta"} \cup Terminal) /\ Len(events'[u]) <= EventCap
      BY <1>1 DEF TypeOK, DataTypes, Message, Roles, Terminal
    <3>1. events[u] \in Seq({"meta", "delta"} \cup Terminal) /\ Len(events[u]) <= EventCap
      BY DEF TypeOK
    <3>2. events'[u] = events[u] \/ (events[u] # <<>> /\ events'[u] = Tail(events[u]))
      BY <1>1 DEF PerTurn
    <3>3. ASSUME events[u] # <<>>
          PROVE  /\ Tail(events[u]) \in Seq({"meta", "delta"} \cup Terminal)
                 /\ Len(Tail(events[u])) = Len(events[u]) - 1 /\ Len(events[u]) \in Nat
      BY <3>1, <3>3
    <3>4. \A n \in Nat : n <= EventCap => n - 1 <= EventCap
      OBVIOUS
    <3>5. CASE events'[u] = events[u]
      BY <3>1, <3>5
    <3>6. CASE events[u] # <<>> /\ events'[u] = Tail(events[u])
      BY <3>1, <3>3, <3>4, <3>6
    <3> QED
      BY <3>2, <3>5, <3>6
  <2> QED
    BY <2>1, <2>2, <2>3 DEF TypeOK, ControlTypes, DataTypes, IdTypes
<1>5. TurnInPlace(t)' /\ PerTurn'
  BY <1>1, <1>2 DEF PerTurn, TurnInPlace, StreamInPlace, PiecesThen
<1>6. \A u \in Turns \ {t} : UNCHANGED Fields(u)
  BY <1>1, <1>2 DEF Fields
<1> QED
  BY <1>1, <1>4, <1>5, <1>6, TurnKeeps

\* The data of one turn.
TurnData(t) ==
  /\ history[t] \subseteq Message
  /\ answer[t] \in 0..sent[t] /\ sent[t] \in 0..Chunks
  /\ stream[t] \in Seq({"piece", "marker", "error"}) /\ Len(stream[t]) <= StreamCap
  /\ events[t] \in Seq({"meta", "delta"} \cup Terminal) /\ Len(events[t]) <= EventCap

\* Types after a step of one turn that leaves the tables alone.
LEMMA TypesKept ==
  ASSUME TypeOK, NEW t \in Turns, UNCHANGED <<tables, question, reply>>, ControlTypes', TurnData(t)',
         \A u \in Turns \ {t} : /\ history'[u] = history[u] /\ answer'[u] = answer[u] /\ sent'[u] = sent[u]
                                /\ stream'[u] = stream[u] /\ events'[u] = events[u]
  PROVE  TypeOK'
<1>1. StoreTypeOK' /\ IdTypes'
  BY StoreStays, TypesSplit
<1>2. \A u \in Turns : TurnData(u)
  BY DEF TypeOK, TurnData
<1>3. \A u \in Turns : TurnData(u)'
  <2> TAKE u \in Turns
  <2>1. CASE u = t
    BY <2>1
  <2>2. CASE u # t
    BY <1>2, <2>2 DEF TurnData
  <2> QED
    BY <2>1, <2>2
<1>4. DataTypes'
  BY <1>3 DEF DataTypes, TurnData
<1> QED
  BY <1>1, <1>4 DEF TypeOK, ControlTypes, DataTypes, IdTypes

\* An element more or less on a channel.
LEMMA Channels ==
  ASSUME NEW S, NEW q \in Seq(S), NEW e \in S
  PROVE  /\ Append(q, e) \in Seq(S) /\ Len(Append(q, e)) = Len(q) + 1 /\ Len(q) \in Nat
         /\ \A i \in 1..Len(q) : Append(q, e)[i] = q[i]
         /\ Append(q, e)[Len(q) + 1] = e
         /\ q # <<>> => /\ Tail(q) \in Seq(S) /\ Len(Tail(q)) = Len(q) - 1 /\ Len(q) > 0
                        /\ Head(q) = q[1]
                        /\ \A i \in 1..(Len(q) - 1) : Tail(q)[i] = q[i + 1]
  OBVIOUS

\* run sends a frame and goes on to its next point.
LEMMA EmitKeeps ==
  ASSUME ChatStrong, NEW t \in Turns, SendMeta(t) \/ SendPiece(t) \/ SendDone(t) \/ SendError(t)
  PROVE  ChatStrong'
<1> USE ChatAssumption DEF ChatStrong, ChatInvariant
<1>1. /\ UNCHANGED <<tables, question, reply, handler, client, cancelled, history, hits, answer, reader, sent, stream,
                     deletion, faults>>
      /\ \E kind \in {"meta", "delta"} \cup Terminal :
           Len(events[t]) < EventCap /\ events' = [events EXCEPT ![t] = Append(@, kind)]
  BY DEF SendMeta, SendPiece, SendDone, SendError, Emit, runOnly, Terminal
<1>2. /\ run' \in [Turns -> RunPoints] /\ \A u \in Turns \ {t} : run'[u] = run[u]
      /\ \/ run[t] = "meta" /\ run'[t] = "history"
         \/ run[t] = "forward" /\ run'[t] = "answer"
         \/ run[t] \in {"done", "error"} /\ run'[t] = "ended"
  BY DEF SendMeta, SendPiece, SendDone, SendError, At, TypeOK, RunPoints
<1>3. TypeOK'
  <2>1. ControlTypes'
    BY <1>1, <1>2 DEF ControlTypes, TypeOK, HandlerPoints, RunPoints, ReaderStates
  <2>2. PICK kind \in {"meta", "delta"} \cup Terminal :
          Len(events[t]) < EventCap /\ events' = [events EXCEPT ![t] = Append(@, kind)]
    BY <1>1
  <2>3. events'[t] = Append(events[t], kind) /\ \A u \in Turns \ {t} : events'[u] = events[u]
    BY <2>2 DEF PerTurn
  <2>4. /\ Append(events[t], kind) \in Seq({"meta", "delta"} \cup Terminal)
        /\ Len(Append(events[t], kind)) = Len(events[t]) + 1 /\ Len(events[t]) \in Nat
    BY Channels DEF TypeOK
  <2>5. Len(Append(events[t], kind)) <= EventCap
    BY <2>2, <2>4
  <2>6. TurnData(t)'
    BY <1>1, <2>3, <2>4, <2>5 DEF TurnData, TypeOK, Message, Roles, Terminal
  <2> QED
    BY <1>1, <2>1, <2>3, <2>6, TypesKept
<1>4. TurnInPlace(t)' /\ PerTurn'
  BY <1>1, <1>2 DEF TurnInPlace, StreamInPlace, PiecesThen, Early, PerTurn
<1>5. \A u \in Turns \ {t} : UNCHANGED Fields(u)
  BY <1>1, <1>2 DEF Fields
<1> QED
  BY <1>1, <1>2, <1>3, <1>4, <1>5, TurnKeeps DEF Stored

\* run moves on without a frame: it takes an end of the stream or an error.
LEMMA MoveKeeps ==
  ASSUME ChatStrong, NEW t \in Turns,
         \/ StepFails(t) \/ TakeError(t) \/ FinishAnswer(t)
         \/ StoreAnswer(t) /\ UNCHANGED tables
  PROVE  ChatStrong'
<1> USE ChatAssumption DEF ChatStrong, ChatInvariant
<1>1. UNCHANGED <<tables, question, reply, handler, client, cancelled, history, hits, answer, reader, sent, stream,
                  deletion, events>>
  BY DEF StepFails, TakeError, FinishAnswer, StoreAnswer, runOnly
<1>2. /\ run' \in [Turns -> RunPoints] /\ \A u \in Turns \ {t} : run'[u] = run[u]
      /\ \/ run[t] \in {"history", "retrieve", "answer"} /\ run'[t] = "error"
         \/ run[t] = "answer" /\ run'[t] = "store" /\ FinishAnswer(t)
         \/ run[t] = "store" /\ run'[t] = "done"
  BY DEF StepFails, TakeError, FinishAnswer, StoreAnswer, At, TypeOK, RunPoints
<1>3. faults' \in 0..MaxFaults
  <2>1. \E kind : Fault(kind) \/ NoFault
    BY DEF StepFails, TakeError, FinishAnswer, StoreAnswer, Works, Fails, NoFault
  <2> QED
    BY <2>1, FaultTypes DEF TypeOK
<1>4. TypeOK'
  <2>1. ControlTypes'
    BY <1>1, <1>2, <1>3 DEF ControlTypes, TypeOK, HandlerPoints, RunPoints, ReaderStates
  <2>2. TurnData(t)'
    BY <1>1 DEF TurnData, TypeOK, Message, Roles, Terminal
  <2> QED
    BY <1>1, <2>1, <2>2, TypesKept
<1>5. TurnInPlace(t)' /\ PerTurn'
  <2>1. CASE run'[t] # "store"
    BY <1>1, <1>2, <2>1 DEF TurnInPlace, Early, PerTurn
  <2>2. CASE run[t] = "answer" /\ run'[t] = "store" /\ FinishAnswer(t)
    <3>1. StreamInPlace(t)
      BY <2>2 DEF TurnInPlace
    <3>2. stream[t] \in Seq({"piece", "marker", "error"}) /\ answer[t] \in Nat /\ sent[t] \in Nat
      BY DEF TypeOK
    <3>3. stream[t] # <<>> /\ stream[t][1] = "marker" /\ Len(stream[t]) \in Nat /\ Len(stream[t]) > 0
      BY <2>2, <3>1, <3>2 DEF FinishAnswer, StreamInPlace, PiecesThen, Upcoming
    <3>4. reader[t] = "complete" /\ Len(stream[t]) = 1
      <4>1. 1 \in 1..Len(stream[t]) /\ (Len(stream[t]) # 1 => 1 \in 1..(Len(stream[t]) - 1))
        <5>1. \A k \in Nat : k > 0 => 1 \in 1..k /\ (k # 1 => 1 \in 1..(k - 1))
          OBVIOUS
        <5> QED
          BY <3>3, <5>1
      <4>2. reader[t] # "open"
        BY <3>1, <3>3, <4>1 DEF StreamInPlace
      <4>3. Len(stream[t]) = 1
        BY <3>1, <3>3, <4>1, <4>2 DEF StreamInPlace, PiecesThen
      <4>4. ~PiecesThen(t, "error")
        BY <3>3, <4>3 DEF PiecesThen
      <4> QED
        BY <3>1, <4>2, <4>3, <4>4 DEF StreamInPlace
    <3>5. answer[t] = sent[t]
      BY <3>1, <3>2, <3>4 DEF StreamInPlace, PiecesThen
    <3> QED
      BY <1>1, <2>2, <3>4, <3>5 DEF TurnInPlace, Early, PerTurn
  <2> QED
    BY <1>2, <2>1, <2>2
<1>6. \A u \in Turns \ {t} : UNCHANGED Fields(u)
  BY <1>1, <1>2 DEF Fields
<1> QED
  BY <1>1, <1>2, <1>4, <1>5, <1>6, TurnKeeps DEF Stored

\* The history that is read is settled and older than the question.
LEMMA HistoryKeeps ==
  ASSUME ChatStrong, NEW t \in Turns, ReadHistory(t)
  PROVE  ChatStrong'
<1> USE ChatAssumption DEF ChatStrong, ChatInvariant
<1>1. /\ UNCHANGED <<tables, question, reply, handler, client, cancelled, hits, answer, reader, sent, stream,
                     deletion, events, faults>>
      /\ run[t] = "history" /\ run' = [run EXCEPT ![t] = "retrieve"]
      /\ history' = [history EXCEPT ![t] = Recent(t)]
  BY DEF ReadHistory, runOnly, At, Works, NoFault
<1>2. Recent(t) \subseteq Message
  BY DEF Recent, TypeOK, StoreTypeOK
<1>3. TypeOK'
  <2>1. ControlTypes'
    BY <1>1 DEF ControlTypes, TypeOK, HandlerPoints, RunPoints, ReaderStates
  <2>2. TurnData(t)'
    BY <1>1, <1>2 DEF TurnData, TypeOK, PerTurn, Message, Roles, Terminal
  <2>3. \A u \in Turns \ {t} : history'[u] = history[u]
    BY <1>1 DEF PerTurn
  <2> QED
    BY <1>1, <2>1, <2>2, <2>3, TypesKept
<1>4. run'[t] = "retrieve" /\ \A u \in Turns \ {t} : run'[u] = run[u]
  BY <1>1 DEF TypeOK
<1>5. TurnInPlace(t)' /\ PerTurn'
  BY <1>1, <1>4 DEF TurnInPlace, Early, PerTurn
<1>6. \A u \in Turns \ {t} : UNCHANGED Fields(u)
  BY <1>1, <1>4 DEF Fields, PerTurn
<1> QED
  BY <1>1, <1>3, <1>4, <1>5, <1>6, TurnKeeps DEF Stored, PerTurn

\* The model is called with what the retrieval offers; the stream is new.
LEMMA RetrieveKeeps ==
  ASSUME ChatStrong, NEW t \in Turns, Retrieve(t)
  PROVE  ChatStrong'
<1> USE ChatAssumption DEF ChatStrong, ChatInvariant
<1>1. /\ UNCHANGED <<tables, question, reply, handler, client, cancelled, history, answer, sent, stream,
                     deletion, events>>
      /\ run[t] = "retrieve" /\ run' = [run EXCEPT ![t] = "answer"]
      /\ reader' = [reader EXCEPT ![t] = "open"]
      /\ faults' = faults
  BY DEF Retrieve, At, Works, NoFault
<1>2. hits' \in [Turns -> 0..MaxHits] /\ \A u \in Turns \ {t} : hits'[u] = hits[u]
  BY DEF Retrieve, TypeOK
<1>3. /\ run'[t] = "answer" /\ reader'[t] = "open"
      /\ \A u \in Turns \ {t} : run'[u] = run[u] /\ reader'[u] = reader[u]
  BY <1>1 DEF TypeOK
<1>4. TypeOK'
  <2>1. ControlTypes'
    BY <1>1, <1>2 DEF ControlTypes, TypeOK, HandlerPoints, RunPoints, ReaderStates
  <2>2. TurnData(t)'
    BY <1>1 DEF TurnData, TypeOK, Message, Roles, Terminal
  <2> QED
    BY <1>1, <2>1, <2>2, TypesKept
<1>5. reader[t] = "off" /\ stream[t] = <<>> /\ sent[t] = 0 /\ answer[t] = 0
  BY <1>1 DEF TurnInPlace, Early
<1>6. StreamInPlace(t)'
  BY <1>1, <1>3, <1>5 DEF StreamInPlace
<1>7. TurnInPlace(t)' /\ PerTurn'
  BY <1>1, <1>3, <1>6 DEF TurnInPlace, Early, PerTurn
<1>8. \A u \in Turns \ {t} : UNCHANGED Fields(u)
  BY <1>1, <1>2, <1>3 DEF Fields
<1> QED
  BY <1>1, <1>3, <1>4, <1>5, <1>7, <1>8, TurnKeeps DEF Stored

\* A piece goes from the stream to the answer.
LEMMA TakeKeeps ==
  ASSUME ChatStrong, NEW t \in Turns, TakePiece(t)
  PROVE  ChatStrong'
<1> USE ChatAssumption DEF ChatStrong, ChatInvariant
<1>1. /\ UNCHANGED <<tables, question, reply, handler, client, cancelled, history, hits, reader, sent,
                     deletion, events, faults>>
      /\ run[t] = "answer" /\ run' = [run EXCEPT ![t] = "forward"]
      /\ stream[t] # <<>> /\ Head(stream[t]) = "piece"
      /\ stream' = [stream EXCEPT ![t] = Tail(@)] /\ answer' = [answer EXCEPT ![t] = @ + 1]
  BY DEF TakePiece, At, Upcoming
<1>2. /\ run'[t] = "forward" /\ stream'[t] = Tail(stream[t]) /\ answer'[t] = answer[t] + 1
      /\ \A u \in Turns \ {t} : run'[u] = run[u] /\ stream'[u] = stream[u] /\ answer'[u] = answer[u]
  BY <1>1 DEF TypeOK, PerTurn
<1>3. /\ stream[t] \in Seq({"piece", "marker", "error"}) /\ Len(stream[t]) <= StreamCap
      /\ answer[t] \in Nat /\ sent[t] \in Nat /\ StreamInPlace(t)
  BY <1>1 DEF TypeOK, TurnInPlace
<1>4. /\ Tail(stream[t]) \in Seq({"piece", "marker", "error"}) /\ Len(Tail(stream[t])) = Len(stream[t]) - 1
      /\ Len(stream[t]) \in Nat /\ Len(stream[t]) > 0 /\ stream[t][1] = "piece"
      /\ \A i \in 1..(Len(stream[t]) - 1) : Tail(stream[t])[i] = stream[t][i + 1]
  BY <1>1, <1>3, Channels
<1> DEFINE n == Len(stream[t])
<1>5. ASSUME NEW last \in {"marker", "error"}, PiecesThen(t, last)
      PROVE  PiecesThen(t, last)' /\ answer[t] < sent[t]
  <2>1. n # 1
    BY <1>4, <1>5 DEF PiecesThen
  <2>2. Len(Tail(stream[t])) = n - 1 /\ n - 1 > 0 /\ n - 1 \in 1..(n - 1) /\ (n - 1) + 1 = n
    <3>1. \A k \in Nat : k > 0 /\ k # 1 => k - 1 > 0 /\ k - 1 \in 1..(k - 1) /\ (k - 1) + 1 = k
      OBVIOUS
    <3> QED
      BY <1>4, <2>1, <3>1
  <2>3. Tail(stream[t])[n - 1] = last
    BY <1>4, <1>5, <2>2 DEF PiecesThen
  <2>4. \A i \in 1..((n - 1) - 1) : Tail(stream[t])[i] = "piece"
    <3> TAKE i \in 1..((n - 1) - 1)
    <3>1. i \in 1..(n - 1) /\ i + 1 \in 1..(n - 1)
      BY <1>4
    <3> QED
      BY <1>4, <1>5, <3>1 DEF PiecesThen
  <2>5. (answer[t] + 1) + (n - 1) - 1 = sent[t] /\ answer[t] < sent[t]
    <3>1. \A a, k, m \in Nat : a + k - 1 = m /\ k > 0 /\ k # 1 => (a + 1) + (k - 1) - 1 = m /\ a < m
      OBVIOUS
    <3> QED
      BY <1>3, <1>4, <1>5, <2>1, <3>1 DEF PiecesThen
  <2> QED
    BY <1>1, <1>2, <2>2, <2>3, <2>4, <2>5 DEF PiecesThen
<1>6. ASSUME reader[t] = "open"
      PROVE  StreamInPlace(t)' /\ answer[t] < sent[t]
  <2>1. (\A i \in 1..n : stream[t][i] = "piece") /\ answer[t] + n = sent[t]
    BY <1>3, <1>6 DEF StreamInPlace
  <2>2. \A i \in 1..(n - 1) : Tail(stream[t])[i] = "piece"
    <3> TAKE i \in 1..(n - 1)
    <3>1. i + 1 \in 1..n
      BY <1>4
    <3> QED
      BY <1>4, <2>1, <3>1
  <2>3. (answer[t] + 1) + (n - 1) = sent[t] /\ answer[t] < sent[t]
    <3>1. \A a, k, m \in Nat : a + k = m /\ k > 0 => (a + 1) + (k - 1) = m /\ a < m
      OBVIOUS
    <3> QED
      BY <1>3, <1>4, <2>1, <3>1
  <2>4. StreamInPlace(t)'
    BY <1>1, <1>2, <1>4, <1>6, <2>2, <2>3 DEF StreamInPlace
  <2> QED
    BY <2>3, <2>4
<1>7. StreamInPlace(t)' /\ answer[t] < sent[t]
  <2>1. CASE reader[t] = "open"
    BY <1>6, <2>1
  <2>2. CASE reader[t] = "complete" /\ PiecesThen(t, "marker")
    <3>1. PiecesThen(t, "marker")' /\ answer[t] < sent[t] /\ reader'[t] = "complete"
      BY <1>1, <1>5, <2>2
    <3> QED
      BY <3>1 DEF StreamInPlace
  <2>3. CASE reader[t] = "broken" /\ PiecesThen(t, "error")
    <3>1. PiecesThen(t, "error")' /\ answer[t] < sent[t] /\ reader'[t] = "broken"
      BY <1>1, <1>5, <2>3
    <3> QED
      BY <3>1 DEF StreamInPlace
  <2> QED
    BY <1>3, <2>1, <2>2, <2>3 DEF StreamInPlace
<1>8. TypeOK'
  <2>1. ControlTypes'
    BY <1>1 DEF ControlTypes, TypeOK, HandlerPoints, RunPoints, ReaderStates
  <2>2. answer'[t] \in 0..sent'[t] /\ Len(stream'[t]) <= StreamCap
    BY <1>1, <1>2, <1>3, <1>4, <1>7
  <2>3. TurnData(t)'
    BY <1>1, <1>2, <1>4, <2>2 DEF TurnData, TypeOK, Message, Roles, Terminal
  <2> QED
    BY <1>1, <1>2, <2>1, <2>3, TypesKept
<1>9. TurnInPlace(t)' /\ PerTurn'
  BY <1>1, <1>2, <1>7 DEF TurnInPlace, Early, PerTurn
<1>10. \A u \in Turns \ {t} : UNCHANGED Fields(u)
  BY <1>1, <1>2 DEF Fields
<1> QED
  BY <1>1, <1>2, <1>8, <1>9, <1>10, TurnKeeps DEF Stored

\* The model client's goroutine sends a piece or the end of the stream.
LEMMA ReadKeeps ==
  ASSUME ChatStrong, NEW t \in Turns, Read(t)
  PROVE  ChatStrong'
<1> USE ChatAssumption DEF ChatStrong, ChatInvariant
<1>1. PICK item \in {"piece", "marker", "error"} :
        /\ Push(t, item)
        /\ \/ item = "piece" /\ sent[t] < Chunks /\ sent' = [sent EXCEPT ![t] = @ + 1] /\ reader' = reader
           \/ item = "marker" /\ sent' = sent /\ reader' = [reader EXCEPT ![t] = "complete"]
           \/ item = "error" /\ sent' = sent /\ reader' = [reader EXCEPT ![t] = "broken"]
        /\ \E kind : Fault(kind) \/ NoFault
  BY DEF Read, ReadPiece, ReadMarker, ReadBreaks, Fails, NoFault
<1>2. /\ UNCHANGED <<tables, question, reply, handler, client, cancelled, run, history, hits, answer,
                     deletion, events>>
      /\ reader[t] = "open" /\ Len(stream[t]) < StreamCap
      /\ stream' = [stream EXCEPT ![t] = Append(@, item)]
  BY <1>1 DEF Push
<1>3. /\ stream[t] \in Seq({"piece", "marker", "error"}) /\ Len(stream[t]) \in Nat
      /\ answer[t] \in Nat /\ sent[t] \in Nat /\ answer[t] <= sent[t] /\ sent[t] <= Chunks
  BY DEF TypeOK
<1>4. /\ stream'[t] = Append(stream[t], item)
      /\ \A u \in Turns \ {t} : /\ stream'[u] = stream[u] /\ sent'[u] = sent[u] /\ reader'[u] = reader[u]
      /\ sent'[t] = IF item = "piece" THEN sent[t] + 1 ELSE sent[t]
      /\ reader'[t] = IF item = "piece" THEN "open" ELSE IF item = "marker" THEN "complete" ELSE "broken"
      /\ reader' \in [Turns -> ReaderStates]
  <2>1. /\ stream'[t] = Append(stream[t], item) /\ \A u \in Turns \ {t} : stream'[u] = stream[u]
    BY <1>2 DEF PerTurn
  <2>2. sent' = sent \/ sent' = [sent EXCEPT ![t] = @ + 1]
    BY <1>1
  <2>3. sent'[t] = (IF item = "piece" THEN sent[t] + 1 ELSE sent[t]) /\ \A u \in Turns \ {t} : sent'[u] = sent[u]
    BY <1>1 DEF PerTurn
  <2>4. /\ \A u \in Turns \ {t} : reader'[u] = reader[u]
        /\ reader'[t] = IF item = "piece" THEN "open" ELSE IF item = "marker" THEN "complete" ELSE "broken"
        /\ reader' \in [Turns -> ReaderStates]
    BY <1>1, <1>2 DEF TypeOK, ReaderStates
  <2> QED
    BY <2>1, <2>3, <2>4
<1>5. /\ Append(stream[t], item) \in Seq({"piece", "marker", "error"})
      /\ Len(Append(stream[t], item)) = Len(stream[t]) + 1
      /\ \A i \in 1..Len(stream[t]) : Append(stream[t], item)[i] = stream[t][i]
      /\ Append(stream[t], item)[Len(stream[t]) + 1] = item
  BY <1>3, Channels
<1>6. TypeOK'
  <2>1. ControlTypes'
    <3>1. faults' \in 0..MaxFaults
      BY <1>1, FaultTypes DEF TypeOK
    <3> QED
      BY <1>2, <1>4, <3>1 DEF ControlTypes, TypeOK, HandlerPoints, RunPoints, ReaderStates
  <2>2. answer'[t] \in 0..sent'[t] /\ sent'[t] \in 0..Chunks
    <3>1. answer'[t] = answer[t] /\ sent'[t] \in {sent[t], sent[t] + 1} /\ (sent'[t] # sent[t] => sent[t] < Chunks)
      BY <1>1, <1>2, <1>4
    <3> QED
      BY <1>3, <3>1
  <2>3. Len(stream'[t]) <= StreamCap
    BY <1>2, <1>3, <1>4, <1>5
  <2>4. TurnData(t)'
    BY <1>2, <1>4, <1>5, <2>2, <2>3 DEF TurnData, TypeOK, Message, Roles, Terminal
  <2> QED
    BY <1>2, <1>4, <2>1, <2>4, TypesKept
<1>7. StreamInPlace(t) => StreamInPlace(t)'
  <2> SUFFICES ASSUME StreamInPlace(t) PROVE StreamInPlace(t)'
    OBVIOUS
  <2>1. (\A i \in 1..Len(stream[t]) : stream[t][i] = "piece") /\ answer[t] + Len(stream[t]) = sent[t]
    BY <1>2 DEF StreamInPlace
  <2>2. \A i \in 1..Len(stream[t]) : stream'[t][i] = "piece"
    BY <1>4, <1>5, <2>1
  <2>3. Len(stream'[t]) = Len(stream[t]) + 1 /\ stream'[t][Len(stream[t]) + 1] = item
    BY <1>4, <1>5
  <2>4. \A k \in Nat : (k + 1) - 1 = k /\ k + 1 > 0 /\ \A i \in 1..(k + 1) : i \in 1..k \/ i = k + 1
    OBVIOUS
  <2>5. \A a, k, m \in Nat : a + k = m => a + (k + 1) = m + 1 /\ a + (k + 1) - 1 = m
    OBVIOUS
  <2>6. CASE item = "piece"
    <3>1. \A i \in 1..Len(stream'[t]) : stream'[t][i] = "piece"
      BY <1>3, <2>2, <2>3, <2>4, <2>6
    <3>2. answer'[t] + Len(stream'[t]) = sent'[t] /\ reader'[t] = "open"
      BY <1>2, <1>3, <1>4, <2>1, <2>3, <2>5, <2>6
    <3> QED
      BY <3>1, <3>2 DEF StreamInPlace
  <2>7. CASE item # "piece"
    <3>1. Len(stream'[t]) > 0 /\ Len(stream'[t]) - 1 = Len(stream[t]) /\ stream'[t][Len(stream'[t])] = item
      BY <1>3, <2>3, <2>4
    <3>2. answer'[t] + Len(stream'[t]) - 1 = sent'[t]
      BY <1>2, <1>3, <1>4, <2>1, <2>3, <2>5, <2>7
    <3>3. PiecesThen(t, item)'
      BY <2>2, <3>1, <3>2 DEF PiecesThen
    <3>4. CASE item = "marker"
      BY <1>4, <3>3, <3>4 DEF StreamInPlace
    <3>5. CASE item = "error"
      BY <1>4, <3>3, <3>5 DEF StreamInPlace
    <3> QED
      BY <2>7, <3>4, <3>5
  <2> QED
    BY <2>6, <2>7
<1>8. TurnInPlace(t)' /\ PerTurn'
  BY <1>1, <1>2, <1>7 DEF TurnInPlace, Early, PerTurn
<1>9. \A u \in Turns \ {t} : UNCHANGED Fields(u)
  BY <1>2, <1>4 DEF Fields
<1> QED
  BY <1>2, <1>6, <1>8, <1>9, TurnKeeps DEF Stored

(* Steps that change the tables.                                           *)

\* A new message is nobody's history, and a reply only to the turn it is for.
LEMMA MessageAdded ==
  ASSUME ChatStrong, NEW role \in Roles, NEW content \in Nat, CreateMessage(role, content)
  PROVE  /\ StoreTypeOK' /\ lastId \in Nat /\ lastId' = lastId + 1 /\ UNCHANGED <<session, citations>>
         /\ messages' = messages \cup {[id |-> lastId + 1, role |-> role, content |-> content]}
         /\ \A m \in messages' : m.id <= lastId => m \in messages
         /\ \A m \in messages' : m.id = lastId + 1 => m.content = content
         /\ \A k \in 0..lastId : k \notin IdsOf(messages) => k \notin IdsOf(messages)'
         /\ \A c \in citations : c[1] # lastId + 1
         /\ \A t \in Turns : question[t] \in 0..lastId /\ reply[t] \in 0..lastId
<1> USE DEF ChatStrong, ChatInvariant
<1> DEFINE new == [id |-> lastId + 1, role |-> role, content |-> content]
<1>1. /\ lastId' = lastId + 1 /\ messages' = messages \cup {new} /\ UNCHANGED <<session, citations>>
  BY DEF CreateMessage
<1>2. /\ messages \subseteq Message /\ \A m \in messages : m.id <= lastId
      /\ \A m, n \in messages : m.id = n.id => m = n
      /\ citations \subseteq (1..lastId) \X Nat /\ session \in BOOLEAN
      /\ \A t \in Turns : question[t] \in 0..lastId /\ reply[t] \in 0..lastId
  BY DEF TypeOK, StoreTypeOK
<1>3. lastId \in Nat
  OBVIOUS
<1>4. new \in Message /\ new.id = lastId + 1 /\ new.content = content
  BY <1>3 DEF Message
<1>5. StoreTypeOK'
  <2>1. messages' \subseteq Message
    BY <1>1, <1>2, <1>4 DEF Message, Roles
  <2>2. \A m \in messages' : m.id <= lastId'
    BY <1>1, <1>2, <1>3, <1>4 DEF Message
  <2>3. \A m, n \in messages' : m.id = n.id => m = n
    BY <1>1, <1>2, <1>3, <1>4 DEF Message
  <2>4. citations' \subseteq (1..lastId') \X Nat
    BY <1>1, <1>2, <1>3
  <2> QED
    BY <1>1, <1>2, <2>1, <2>2, <2>3, <2>4 DEF StoreTypeOK, Message, Roles
<1>6. \A m \in messages : m.id \in Nat /\ m.id <= lastId
  BY <1>2 DEF Message
<1>7. \A c \in citations : c[1] # lastId + 1
  BY <1>2, <1>3
<1> HIDE DEF new
<1>8. /\ \A m \in messages' : m.id <= lastId => m \in messages
      /\ \A m \in messages' : m.id = lastId + 1 => m.content = content
  BY <1>1, <1>3, <1>4, <1>6
<1>9. \A k \in 0..lastId : k \notin IdsOf(messages) => k \notin IdsOf(messages)'
  BY <1>1, <1>3, <1>4 DEF IdsOf
<1> QED
  BY <1>1, <1>2, <1>3, <1>5, <1>7, <1>8, <1>9 DEF new

\* What the invariant says of stored replies and of history, for the tables as
\* they are and turns as they were.
LEMMA AddedKeeps ==
  ASSUME ChatStrong, NEW role \in Roles, NEW content \in Nat, CreateMessage(role, content),
         NEW t \in Turns, run[t] = "off",
         TypeOK', PerTurn', TurnInPlace(t)', history'[t] = {},
         \A u \in Turns \ {t} : UNCHANGED Fields(u),
         \/ question'[t] = lastId + 1 /\ reply'[t] = 0
         \/ question'[t] = question[t] /\ reply'[t] = lastId + 1 /\ content = Blank,
         run'[t] \notin Stored
  PROVE  ChatStrong'
<1> USE ChatAssumption DEF ChatStrong, ChatInvariant
<1>1. \A u \in Turns \ {t} :
        /\ handler'[u] = handler[u] /\ question'[u] = question[u] /\ reply'[u] = reply[u]
        /\ run'[u] = run[u] /\ history'[u] = history[u] /\ hits'[u] = hits[u]
        /\ answer'[u] = answer[u] /\ reader'[u] = reader[u] /\ sent'[u] = sent[u]
        /\ stream'[u] = stream[u]
  BY DEF Fields
<1>2. /\ lastId \in Nat /\ lastId' = lastId + 1 /\ citations' = citations
      /\ \A m \in messages' : m.id <= lastId => m \in messages
      /\ \A m \in messages' : m.id = lastId + 1 => m.content = content
      /\ \A k \in 0..lastId : k \notin IdsOf(messages) => k \notin IdsOf(messages)'
      /\ \A c \in citations : c[1] # lastId + 1
      /\ \A u \in Turns : question[u] \in 0..lastId /\ reply[u] \in 0..lastId
      /\ messages \subseteq messages'
  BY MessageAdded
<1>3. \A rows : CitationsOf(rows)' = CitationsOf(rows)
  BY <1>2 DEF CitationsOf
<1>4. \A u \in Turns : TurnInPlace(u)'
  <2> TAKE u \in Turns
  <2>1. CASE u # t
    BY <1>1, <2>1 DEF TurnInPlace, StreamInPlace, PiecesThen
  <2>2. CASE u = t
    BY <2>2
  <2> QED
    BY <2>1, <2>2
<1>5. IdsApart'
  <2> SUFFICES ASSUME NEW u \in Turns, NEW v \in Turns
               PROVE  /\ question'[u] # 0 /\ question'[u] = question'[v] => u = v
                      /\ reply'[u] # 0 /\ reply'[u] = reply'[v] => u = v
    BY DEF IdsApart
  <2>1. \A w \in Turns \ {t} : question'[w] = question[w] /\ reply'[w] = reply[w]
                               /\ question[w] \in 0..lastId /\ reply[w] \in 0..lastId
    BY <1>1, <1>2
  <2>2. question'[t] \in {lastId + 1, question[t]} /\ reply'[t] \in {0, lastId + 1}
    OBVIOUS
  <2> QED
    BY <1>2, <2>1, <2>2 DEF IdsApart
<1>6. \A u \in Turns \ {t} : ReplyOf(u)' \subseteq ReplyOf(u)
  BY <1>1, <1>2 DEF ReplyOf
<1>7. \A m \in ReplyOf(t)' : m.content = Blank /\ CitationsOf({m}) = {}
  <2> TAKE m \in ReplyOf(t)'
  <2>1. m \in messages' /\ m.id = reply'[t]
    BY DEF ReplyOf
  <2>2. m.id \in Nat \ {0}
    BY <2>1 DEF TypeOK, StoreTypeOK, Message
  <2>3. m.id = lastId + 1 /\ content = Blank
    BY <2>1, <2>2
  <2>4. m.content = Blank
    BY <1>2, <2>1, <2>3
  <2>5. CitationsOf({m}) = {}
    BY <1>2, <2>3 DEF CitationsOf, IdsOf
  <2> QED
    BY <2>4, <2>5
<1>8. BlankUntilStored'
  <2> SUFFICES ASSUME NEW u \in Turns, run'[u] \notin Stored, NEW m \in ReplyOf(u)'
               PROVE  m.content = Blank /\ CitationsOf({m}) = {}
    BY <1>3 DEF BlankUntilStored
  <2>1. CASE u # t
    BY <1>1, <1>6, <2>1 DEF BlankUntilStored
  <2>2. CASE u = t
    BY <1>7, <2>2
  <2> QED
    BY <2>1, <2>2
<1>9. StoredIsComplete'
  <2> SUFFICES ASSUME NEW u \in Turns, NEW m \in ReplyOf(u)'
               PROVE  /\ Settled(m) => /\ reader'[u] = "complete"
                                       /\ m.content = IF sent'[u] = 0 THEN Sorry ELSE sent'[u]
                      /\ \A c \in CitationsOf({m}) : m.content \in 1..Chunks /\ c[2] \in 1..hits'[u]
    BY <1>3 DEF StoredIsComplete, Settled, Sorry
  <2>1. CASE u # t
    BY <1>1, <1>6, <2>1 DEF StoredIsComplete
  <2>2. CASE u = t
    BY <1>7, <2>2 DEF Settled
  <2> QED
    BY <2>1, <2>2
<1>10. HistorySettled' /\ HistoryIsFinal'
  <2> SUFFICES ASSUME NEW u \in Turns, NEW m \in history'[u]
               PROVE  /\ Settled(m) /\ m.id < question'[u] /\ m.id \in 1..lastId'
                      /\ m \in messages' \/ m.id \notin IdsOf(messages)'
                      /\ m.id \notin {question'[u], reply'[u]}
    BY DEF HistorySettled, HistoryIsFinal, Settled, IdsOf
  <2>1. u # t
    OBVIOUS
  <2>2. m \in history[u] /\ question'[u] = question[u] /\ reply'[u] = reply[u]
    BY <1>1, <2>1
  <2>3. /\ Settled(m) /\ m.id < question[u] /\ m.id \in 1..lastId
        /\ m \in messages \/ m.id \notin IdsOf(messages)
        /\ m.id \notin {question[u], reply[u]}
    BY <2>2 DEF HistorySettled, HistoryIsFinal
  <2> QED
    BY <1>2, <2>2, <2>3
<1> QED
  BY <1>2, <1>4, <1>5, <1>8, <1>9, <1>10

\* The question and the placeholder of the reply are stored.
LEMMA CreateKeeps ==
  ASSUME ChatStrong, NEW t \in Turns, CreateQuestion(t) \/ CreateReply(t)
  PROVE  ChatStrong'
<1> USE ChatAssumption DEF ChatStrong, ChatInvariant
<1>1. PICK role \in Roles, content \in Nat :
        CreateMessage(role, content) /\ (CreateReply(t) => content = Blank)
  <2>1. CASE CreateQuestion(t)
    <3>1. CreateMessage("user", 1) /\ ~CreateReply(t)
      BY <2>1 DEF CreateQuestion, CreateReply, At
    <3>2. "user" \in Roles /\ 1 \in Nat
      BY DEF Roles
    <3> QED
      BY <3>1, <3>2
  <2>2. CASE CreateReply(t)
    <3>1. CreateMessage("assistant", Blank)
      BY <2>2 DEF CreateReply
    <3>2. "assistant" \in Roles /\ Blank \in Nat
      BY DEF Roles, Blank
    <3> QED
      BY <3>1, <3>2
  <2> QED
    BY <2>1, <2>2
<1>2. /\ StoreTypeOK' /\ lastId' = lastId + 1 /\ lastId \in Nat
      /\ \A u \in Turns : question[u] \in 0..lastId /\ reply[u] \in 0..lastId
  BY <1>1, MessageAdded
<1>3. /\ UNCHANGED <<client, cancelled, history, hits, answer, reader, sent, stream, events, deletion, faults>>
      /\ run[t] = "off" /\ handler' \in [Turns -> HandlerPoints] /\ run' \in [Turns -> RunPoints]
      /\ question' \in [Turns -> 0..lastId'] /\ reply' \in [Turns -> 0..lastId']
      /\ \A u \in Turns \ {t} : /\ handler'[u] = handler[u] /\ run'[u] = run[u]
                                /\ question'[u] = question[u] /\ reply'[u] = reply[u]
      /\ \/ CreateQuestion(t) /\ handler'[t] = "reply" /\ question'[t] = lastId + 1 /\ reply'[t] = 0 /\ run'[t] = "off"
         \/ CreateReply(t) /\ handler'[t] = "serving" /\ question'[t] = question[t] /\ question[t] # 0
            /\ reply'[t] = lastId + 1 /\ run'[t] = "meta"
  <2>1. lastId + 1 \in 0..lastId' /\ question \in [Turns -> 0..lastId'] /\ reply \in [Turns -> 0..lastId']
    BY <1>2 DEF TypeOK
  <2>2. CASE CreateQuestion(t)
    <3>1. /\ UNCHANGED <<client, cancelled, history, hits, answer, reader, sent, stream, events, deletion, faults>>
          /\ UNCHANGED <<run, reply>> /\ handler[t] = "question" /\ handler' = [handler EXCEPT ![t] = "reply"]
          /\ question' = [question EXCEPT ![t] = lastId + 1]
      BY <1>2, <2>2 DEF CreateQuestion, At, Works, NoFault, others
    <3>2. run[t] = "off" /\ reply[t] = 0
      BY <3>1 DEF TurnInPlace
    <3> QED
      BY <2>1, <2>2, <3>1, <3>2 DEF TypeOK, HandlerPoints
  <2>3. CASE CreateReply(t)
    <3>1. /\ UNCHANGED <<client, cancelled, history, hits, answer, reader, sent, stream, events, deletion, faults>>
          /\ question' = question /\ handler[t] = "reply" /\ handler' = [handler EXCEPT ![t] = "serving"]
          /\ reply' = [reply EXCEPT ![t] = lastId + 1] /\ run' = [run EXCEPT ![t] = "meta"]
      BY <1>2, <2>3 DEF CreateReply, At, Works, NoFault
    <3>2. run[t] = "off" /\ question[t] # 0
      BY <3>1 DEF TurnInPlace
    <3> QED
      BY <2>1, <2>3, <3>1, <3>2 DEF TypeOK, HandlerPoints, RunPoints
  <2> QED
    BY <2>2, <2>3
<1>4. TypeOK'
  <2>1. ControlTypes'
    BY <1>3 DEF ControlTypes, TypeOK, HandlerPoints, RunPoints, ReaderStates
  <2>2. DataTypes'
    BY <1>3 DEF DataTypes, TypeOK, Message, Roles, Terminal
  <2>3. IdTypes'
    BY <1>3 DEF IdTypes
  <2> QED
    BY <1>2, <2>1, <2>2, <2>3 DEF TypeOK, ControlTypes, DataTypes, IdTypes
<1>5. history[t] = {} /\ reader[t] = "off" /\ stream[t] = <<>> /\ sent[t] = 0 /\ answer[t] = 0
  BY <1>3 DEF TurnInPlace, Early
<1>6. TurnInPlace(t)' /\ PerTurn'
  BY <1>2, <1>3, <1>5 DEF TurnInPlace, Early, PerTurn
<1>7. \A u \in Turns \ {t} : UNCHANGED Fields(u)
  BY <1>3 DEF Fields
<1>8. run'[t] \notin Stored
  BY <1>3 DEF Stored
<1>9. CASE CreateQuestion(t) /\ question'[t] = lastId + 1 /\ reply'[t] = 0
  BY <1>1, <1>3, <1>4, <1>5, <1>6, <1>7, <1>8, <1>9, AddedKeeps
<1>10. CASE CreateReply(t) /\ question'[t] = question[t] /\ reply'[t] = lastId + 1
  BY <1>1, <1>3, <1>4, <1>5, <1>6, <1>7, <1>8, <1>10, AddedKeeps
<1> QED
  BY <1>3, <1>9, <1>10

\* What an update does to the rows: the ids stay, one message has new content.
LEMMA Updated ==
  ASSUME StoreTypeOK, NEW id, NEW content \in Nat, NEW positions \in SUBSET Nat,
         UpdateContent(id, content, positions)
  PROVE  /\ StoreTypeOK' /\ lastId' = lastId /\ IdsOf(messages)' = IdsOf(messages)
         /\ id \in IdsOf(messages)
         /\ \A m \in messages' : m.id = id => m.content = content
         /\ \A m : m.id # id => (m \in messages' <=> m \in messages)
         /\ \A c : c[1] # id => (c \in citations' <=> c \in citations)
         /\ \A c \in citations' : c[1] = id => c[2] \in positions
<1> DEFINE upd(m) == IF m.id = id THEN [m EXCEPT !.content = content] ELSE m
<1>1. /\ messages' = {upd(m) : m \in messages}
      /\ citations' = {c \in citations : c[1] # id} \cup ({id} \X positions)
      /\ UNCHANGED <<session, lastId>> /\ id \in IdsOf(messages)
  BY DEF UpdateContent
<1>2. /\ messages \subseteq Message /\ \A m \in messages : m.id <= lastId
      /\ \A m, n \in messages : m.id = n.id => m = n
      /\ citations \subseteq (1..lastId) \X Nat /\ session \in BOOLEAN
  BY DEF StoreTypeOK
<1>3. \A m \in messages : /\ upd(m) \in Message /\ upd(m).id = m.id
                          /\ m.id = id => upd(m).content = content
                          /\ m.id # id => upd(m) = m
  <2> TAKE m \in messages
  <2>1. m \in Message
    BY <1>2
  <2> QED
    BY <2>1 DEF Message
<1> HIDE DEF upd
<1>4. id \in 1..lastId
  BY <1>1, <1>2 DEF IdsOf, Message
<1>5. citations' \subseteq (1..lastId) \X Nat
  BY <1>1, <1>2, <1>4
<1>6. StoreTypeOK'
  <2>1. messages' \subseteq Message /\ \A m \in messages' : m.id <= lastId'
    BY <1>1, <1>2, <1>3
  <2>2. \A m, n \in messages' : m.id = n.id => m = n
    BY <1>1, <1>2, <1>3
  <2> QED
    BY <1>1, <1>2, <1>5, <2>1, <2>2 DEF StoreTypeOK, Message, Roles
<1>7. IdsOf(messages)' = IdsOf(messages)
  BY <1>1, <1>3 DEF IdsOf
<1>8. \A m \in messages' : m.id = id => m.content = content
  BY <1>1, <1>3
<1>9. \A m : m.id # id => (m \in messages' <=> m \in messages)
  BY <1>1, <1>3
<1>10. /\ \A c : c[1] # id => (c \in citations' <=> c \in citations)
       /\ \A c \in citations' : c[1] = id => c[2] \in positions
  BY <1>1
<1> QED
  BY <1>1, <1>6, <1>7, <1>8, <1>9, <1>10

\* The whole answer replaces the placeholder; nothing else changes.
LEMMA StoreKeeps ==
  ASSUME ChatStrong, NEW t \in Turns, StoreAnswer(t)
  PROVE  ChatStrong'
<1> USE ChatAssumption DEF ChatStrong, ChatInvariant
<1> DEFINE cited == IF answer[t] = 0 THEN {} ELSE 1..hits[t]
<1>1. CASE UNCHANGED tables
  BY <1>1, MoveKeeps
<1>2. ASSUME NEW positions \in SUBSET cited, UpdateContent(reply[t], Final(t), positions),
             Works(t)
      PROVE  ChatStrong'
  <2>1. /\ UNCHANGED <<handler, client, cancelled, question, reply, reader, sent, stream,
                       deletion, events, history, hits, answer, faults>>
        /\ run[t] = "store" /\ run' = [run EXCEPT ![t] = "done"]
    BY <1>2 DEF StoreAnswer, At, Works, NoFault
  <2>2. /\ reader[t] = "complete" /\ answer[t] = sent[t] /\ sent[t] \in 0..Chunks /\ hits[t] \in 0..MaxHits
    BY <2>1 DEF TurnInPlace, TypeOK
  <2>3. Final(t) \in Nat /\ positions \in SUBSET Nat /\ Final(t) # 0
        /\ Final(t) = (IF sent[t] = 0 THEN Sorry ELSE sent[t])
        /\ (positions # {} => Final(t) \in 1..Chunks)
    BY <2>2 DEF Final, Sorry
  <2>4. /\ StoreTypeOK' /\ lastId' = lastId /\ IdsOf(messages)' = IdsOf(messages)
        /\ reply[t] \in IdsOf(messages)
        /\ \A m \in messages' : m.id = reply[t] => m.content = Final(t)
        /\ \A m : m.id # reply[t] => (m \in messages' <=> m \in messages)
        /\ \A c : c[1] # reply[t] => (c \in citations' <=> c \in citations)
        /\ \A c \in citations' : c[1] = reply[t] => c[2] \in positions
    BY <1>2, <2>3, Updated DEF TypeOK
  <2>5. run'[t] = "done" /\ run' \in [Turns -> RunPoints] /\ \A u \in Turns \ {t} : run'[u] = run[u]
    BY <2>1 DEF TypeOK, RunPoints
  <2>6. TypeOK'
    <3>1. ControlTypes'
      BY <2>1, <2>5 DEF ControlTypes, TypeOK, HandlerPoints, RunPoints, ReaderStates
    <3>2. DataTypes'
      BY <2>1 DEF DataTypes, TypeOK, Message, Roles, Terminal
    <3>3. IdTypes'
      BY <2>1, <2>4 DEF IdTypes, TypeOK
    <3> QED
      BY <2>4, <3>1, <3>2, <3>3 DEF TypeOK, ControlTypes, DataTypes, IdTypes
  <2>7. PerTurn' /\ lastId' \in Nat /\ IdsApart'
    BY <2>1, <2>4 DEF PerTurn, IdsApart
  <2>8. \A u \in Turns : TurnInPlace(u)'
    BY <2>1, <2>5 DEF TurnInPlace, StreamInPlace, PiecesThen, Early
  <2>9. reply[t] # 0
    BY <2>4 DEF IdsOf, TypeOK, StoreTypeOK, Message
  <2>10. ASSUME NEW u \in Turns \ {t}, NEW m \in ReplyOf(u)'
         PROVE  m \in ReplyOf(u) /\ CitationsOf({m})' = CitationsOf({m})
    <3>1. m \in messages' /\ m.id = reply[u]
      BY <2>1 DEF ReplyOf
    <3>2. reply[u] # reply[t]
      BY <2>9 DEF IdsApart
    <3>3. m \in messages
      BY <2>4, <3>1, <3>2
    <3>4. \A c : c[1] = m.id => (c \in citations' <=> c \in citations)
      BY <2>4, <3>1, <3>2
    <3>5. CitationsOf({m})' = {c \in citations' : c[1] = m.id} /\ CitationsOf({m}) = {c \in citations : c[1] = m.id}
      BY DEF CitationsOf, IdsOf
    <3> QED
      BY <3>1, <3>3, <3>4, <3>5 DEF ReplyOf
  <2>11. BlankUntilStored'
    <3> SUFFICES ASSUME NEW u \in Turns, run'[u] \notin Stored, NEW m \in ReplyOf(u)'
                 PROVE  m.content = Blank /\ CitationsOf({m})' = {}
      BY DEF BlankUntilStored
    <3>1. u # t /\ run[u] \notin Stored
      BY <2>5 DEF Stored
    <3> QED
      BY <2>10, <3>1 DEF BlankUntilStored
  <2>12. StoredIsComplete'
    <3> SUFFICES ASSUME NEW u \in Turns, NEW m \in ReplyOf(u)'
                 PROVE  /\ Settled(m) => /\ reader[u] = "complete"
                                         /\ m.content = IF sent[u] = 0 THEN Sorry ELSE sent[u]
                        /\ \A c \in CitationsOf({m})' : m.content \in 1..Chunks /\ c[2] \in 1..hits[u]
      BY <2>1 DEF StoredIsComplete, Settled, Sorry
    <3>1. CASE u # t
      BY <2>10, <3>1 DEF StoredIsComplete
    <3>2. CASE u = t
      <4>1. m \in messages' /\ m.id = reply[t]
        BY <2>1, <3>2 DEF ReplyOf
      <4>2. m.content = Final(t)
        BY <2>4, <4>1
      <4>3. ASSUME NEW c \in CitationsOf({m})'
            PROVE  c[2] \in positions
        BY <2>4, <4>1 DEF CitationsOf, IdsOf
      <4>4. positions \subseteq 1..hits[t]
        OBVIOUS
      <4> QED
        BY <2>2, <2>3, <3>2, <4>2, <4>3, <4>4
    <3> QED
      BY <3>1, <3>2
  <2>13. HistorySettled' /\ HistoryIsFinal'
    <3> SUFFICES ASSUME NEW u \in Turns, NEW m \in history[u]
                 PROVE  /\ Settled(m) /\ m.id < question[u] /\ m.id \in 1..lastId
                        /\ m \in messages' \/ m.id \notin IdsOf(messages)'
                        /\ m.id \notin {question[u], reply[u]}
      BY <2>1, <2>4 DEF HistorySettled, HistoryIsFinal, Settled, IdsOf
    <3>1. /\ Settled(m) /\ m.id < question[u] /\ m.id \in 1..lastId
          /\ m \in messages \/ m.id \notin IdsOf(messages)
          /\ m.id \notin {question[u], reply[u]}
      BY DEF HistorySettled, HistoryIsFinal
    <3>2. m \in messages => m.id # reply[t]
      <4> SUFFICES ASSUME m \in messages, m.id = reply[t] PROVE FALSE
        OBVIOUS
      <4>1. m \in ReplyOf(t) /\ run[t] \notin Stored
        BY <2>1 DEF ReplyOf, Stored
      <4> QED
        BY <3>1, <4>1 DEF BlankUntilStored, Settled
    <3> QED
      BY <2>4, <3>1, <3>2
  <2> QED
    BY <2>6, <2>7, <2>8, <2>11, <2>12, <2>13
<1>3. CASE /\ Works(t)
           /\ \E mentioned \in SUBSET (1..(MaxHits + 1)) :
                UpdateContent(reply[t], Final(t), IF answer[t] = 0 THEN {} ELSE Cited(mentioned, hits[t]))
  BY <1>2, <1>3 DEF Cited
<1> QED
  BY <1>1, <1>3 DEF StoreAnswer

\* Deleting the session takes rows away, and no turn is touched.
LEMMA DeletionKeeps ==
  ASSUME ChatStrong,
         DeleteChecks \/ Delete \/ UNCHANGED vars
  PROVE  ChatStrong'
<1> USE ChatAssumption DEF ChatStrong, ChatInvariant
<1>1. /\ UNCHANGED <<handler, client, cancelled, question, reply, run, history, hits>>
      /\ UNCHANGED <<answer, reader, sent, stream, events, lastId>>
      /\ session' \in BOOLEAN /\ faults' \in 0..MaxFaults
      /\ deletion' \in {"none", "citations", "messages", "row", "done", "failed"}
      /\ messages' = messages \/ messages' = {}
      /\ citations' \subseteq citations
  <2>1. CASE DeleteChecks
    BY <2>1 DEF DeleteChecks, turnVars, tables, TypeOK, StoreTypeOK
  <2>2. CASE DeleteFinds
    BY <2>2 DEF DeleteFinds, turnVars, tables, TypeOK, StoreTypeOK
  <2>3. CASE DeleteMessages
    BY <2>3 DEF DeleteMessages, CommitDeleteBySession, turnVars, TypeOK, StoreTypeOK
  <2>4. CASE DeleteRow
    BY <2>4 DEF DeleteRow, DeleteSessionRow, turnVars, TypeOK, StoreTypeOK
  <2>5. CASE DeleteFails
    <3>1. faults' \in 0..MaxFaults
      BY <2>5, FaultTypes DEF DeleteFails, TypeOK
    <3> QED
      BY <2>5, <3>1 DEF DeleteFails, turnVars, tables, TypeOK, StoreTypeOK
  <2>6. CASE UNCHANGED vars
    BY <2>6 DEF vars, turnVars, tables, TypeOK, StoreTypeOK
  <2> QED
    BY <2>1, <2>2, <2>3, <2>4, <2>5, <2>6 DEF Delete
<1>2. TypeOK'
  <2>1. StoreTypeOK'
    BY <1>1 DEF TypeOK, StoreTypeOK, Message, Roles
  <2>2. ControlTypes'
    BY <1>1 DEF ControlTypes, TypeOK, HandlerPoints, RunPoints, ReaderStates
  <2>3. DataTypes'
    BY <1>1 DEF DataTypes, TypeOK, Message, Roles, Terminal
  <2>4. IdTypes'
    BY <1>1 DEF IdTypes, TypeOK
  <2> QED
    BY <2>1, <2>2, <2>3, <2>4 DEF TypeOK, ControlTypes, DataTypes, IdTypes
<1>3. PerTurn' /\ lastId' \in Nat /\ IdsApart' /\ \A t \in Turns : TurnInPlace(t)'
  BY <1>1 DEF PerTurn, IdsApart, TurnInPlace, StreamInPlace, PiecesThen
<1>4. /\ \A t \in Turns : ReplyOf(t)' \subseteq ReplyOf(t)
      /\ \A m : CitationsOf({m})' \subseteq CitationsOf({m})
  BY <1>1 DEF ReplyOf, CitationsOf, IdsOf
<1>5. BlankUntilStored'
  BY <1>1, <1>4 DEF BlankUntilStored
<1>6. StoredIsComplete'
  <2> SUFFICES ASSUME NEW t \in Turns, NEW m \in ReplyOf(t)'
               PROVE  /\ Settled(m) => /\ reader[t] = "complete"
                                       /\ m.content = IF sent[t] = 0 THEN Sorry ELSE sent[t]
                      /\ \A c \in CitationsOf({m})' : m.content \in 1..Chunks /\ c[2] \in 1..hits[t]
    BY <1>1 DEF StoredIsComplete, Settled, Sorry
  <2> QED
    BY <1>4 DEF StoredIsComplete
<1>7. HistorySettled' /\ HistoryIsFinal'
  BY <1>1 DEF HistorySettled, HistoryIsFinal, Settled, IdsOf
<1> QED
  BY <1>2, <1>3, <1>5, <1>6, <1>7

\* The process dies: no turn runs on, and what is stored stays.
LEMMA CrashKeeps ==
  ASSUME ChatStrong, ServerDies
  PROVE  ChatStrong'
<1> USE ChatAssumption DEF ChatStrong, ChatInvariant
<1>1. /\ UNCHANGED <<session, messages, citations, lastId, question, reply, history, hits, answer, sent>>
      /\ handler' = [t \in Turns |-> IF Live(t) THEN "ended" ELSE handler[t]]
      /\ client' = [t \in Turns |-> ~Live(t) /\ client[t]]
      /\ cancelled' = [t \in Turns |-> Live(t) \/ cancelled[t]]
      /\ run' = [t \in Turns |-> IF run[t] = "off" THEN "off" ELSE "ended"]
      /\ reader' = [t \in Turns |-> IF reader[t] = "open" THEN "broken" ELSE reader[t]]
      /\ stream' = [t \in Turns |-> <<>>] /\ events' = [t \in Turns |-> <<>>]
  BY DEF ServerDies, tables
<1>2. TypeOK'
  <2>1. StoreTypeOK' /\ IdTypes'
    BY <1>1, StoreStays, TypesSplit DEF tables
  <2>2. ControlTypes'
    <3>1. faults' \in 0..MaxFaults
      BY FaultTypes DEF ServerDies, TypeOK
    <3>2. deletion' \in {"none", "citations", "messages", "row", "done", "failed"}
      BY DEF ServerDies
    <3>3. client' \in [Turns -> BOOLEAN] /\ cancelled' \in [Turns -> BOOLEAN]
      BY <1>1 DEF TypeOK
    <3>4. handler' \in [Turns -> HandlerPoints] /\ run' \in [Turns -> RunPoints] /\ reader' \in [Turns -> ReaderStates]
      BY <1>1 DEF TypeOK, HandlerPoints, RunPoints, ReaderStates
    <3>5. hits' \in [Turns -> 0..MaxHits]
      BY <1>1 DEF TypeOK
    <3> QED
      BY <3>1, <3>2, <3>3, <3>4, <3>5 DEF ControlTypes, HandlerPoints, RunPoints, ReaderStates
  <2>3. DataTypes'
    BY <1>1 DEF DataTypes, TypeOK, Message, Roles, Terminal
  <2> QED
    BY <2>1, <2>2, <2>3 DEF TypeOK, ControlTypes, DataTypes, IdTypes
<1>3. ASSUME NEW t \in Turns
      PROVE  TurnInPlace(t)'
  <2>1. run'[t] = (IF run[t] = "off" THEN "off" ELSE "ended") /\ stream'[t] = <<>>
        /\ reader'[t] = IF reader[t] = "open" THEN "broken" ELSE reader[t]
    BY <1>1
  <2>2. handler'[t] = "ended" \/ (~Live(t) /\ handler'[t] = handler[t])
    BY <1>1
  <2>3. handler'[t] \in {"session", "question", "reply"} => FALSE
    BY <2>2 DEF Live
  <2>4. handler'[t] = "idle" => handler[t] = "idle"
    BY <2>2
  <2> QED
    BY <1>1, <2>1, <2>3, <2>4 DEF TurnInPlace, Early
<1>4. PerTurn' /\ IdsApart' /\ lastId' \in Nat
  BY <1>1 DEF PerTurn, IdsApart
<1>5. BlankUntilStored'
  <2>1. \A t \in Turns : run'[t] \notin Stored => run[t] \notin Stored
    BY <1>1 DEF Stored
  <2> QED
    BY <1>1, <2>1 DEF BlankUntilStored, ReplyOf, CitationsOf, IdsOf
<1>6. StoredIsComplete'
  <2>1. \A t \in Turns : reader[t] = "complete" => reader'[t] = "complete"
    BY <1>1
  <2> QED
    BY <1>1, <2>1 DEF StoredIsComplete, ReplyOf, CitationsOf, IdsOf, Settled, Sorry
<1>7. HistorySettled' /\ HistoryIsFinal'
  BY <1>1 DEF HistorySettled, HistoryIsFinal, Settled, IdsOf
<1> QED
  BY <1>2, <1>3, <1>4, <1>5, <1>6, <1>7

\* The start: nothing is stored and nobody has asked.
LEMMA ChatStarts == Init => ChatStrong
<1> SUFFICES ASSUME Init PROVE ChatStrong
  OBVIOUS
<1> USE ChatAssumption, FaultAssumption DEF Init, StoreInit, FaultInit
<1>1. StoreTypeOK
  BY DEF StoreTypeOK
<1>2. ControlTypes /\ IdTypes
  BY DEF ControlTypes, IdTypes, HandlerPoints, RunPoints, ReaderStates
<1>3. DataTypes
  <2>1. <<>> \in Seq({"piece", "marker", "error"}) /\ <<>> \in Seq({"meta", "delta"} \cup Terminal) /\ Len(<<>>) = 0
    OBVIOUS
  <2> QED
    BY <2>1 DEF DataTypes
<1>4. TypeOK
  BY <1>1, <1>2, <1>3, TypesSplit
<1>5. StoredIsComplete /\ HistoryIsFinal /\ BlankUntilStored /\ HistorySettled
  BY DEF StoredIsComplete, HistoryIsFinal, BlankUntilStored, HistorySettled, ReplyOf
<1>6. PerTurn /\ lastId \in Nat /\ IdsApart
  BY DEF PerTurn, IdsApart
<1>7. \A t \in Turns : TurnInPlace(t)
  BY DEF TurnInPlace
<1> QED
  BY <1>4, <1>5, <1>6, <1>7 DEF ChatStrong, ChatInvariant

\* Every step keeps the invariant.
LEMMA ChatSteps ==
  ASSUME ChatStrong, [Next]_vars
  PROVE  ChatStrong'
<1>1. ASSUME NEW t \in Turns, Start(t) \/ SetUp(t) \/ Serve(t) \/ ClientLeaves(t) \/ NoticeGone(t)
      PROVE  ChatStrong'
  BY <1>1, HandlerKeeps, CreateKeeps DEF SetUp, Serve
<1>2. ASSUME NEW t \in Turns, Run(t)
      PROVE  ChatStrong'
  BY <1>2, EmitKeeps, MoveKeeps, HistoryKeeps, RetrieveKeeps, TakeKeeps, StoreKeeps DEF Run
<1> QED
  BY <1>1, <1>2, ReadKeeps, DeletionKeeps, CrashKeeps DEF Next

\* For any number of turns, any answers, capacities and faults: a stored reply
\* is the whole answer of its turn, cites only what its turn found, and what is
\* read as history is final.
THEOREM AnswersAreWhole == Spec => []ChatInvariant
<1>1. ChatStrong => ChatInvariant
  BY DEF ChatStrong
<1> QED
  BY <1>1, ChatStarts, ChatSteps, PTL DEF Spec

\* No step brings a message back or cites for one that is gone.
LEMMA NoStepRevives ==
  ASSUME ChatStrong, [Next]_vars
  PROVE  /\ \A m \in messages' : m.id <= lastId => m.id \in IdsOf(messages)
         /\ \A c \in citations' \ citations : c[1] \in IdsOf(messages')
<1> DEFINE Goal == /\ \A m \in messages' : m.id <= lastId => m.id \in IdsOf(messages)
                   /\ \A c \in citations' \ citations : c[1] \in IdsOf(messages')
<1>1. ASSUME messages' \subseteq messages, citations' \subseteq citations
      PROVE  Goal
  BY <1>1 DEF IdsOf
<1>2. ASSUME NEW role \in Roles, NEW content \in Nat, CreateMessage(role, content)
      PROVE  Goal
  <2>1. citations' = citations /\ \A m \in messages' : m.id <= lastId => m \in messages
    BY <1>2, MessageAdded
  <2> QED
    BY <2>1 DEF IdsOf
<1>3. ASSUME NEW t \in Turns, StoreAnswer(t)
      PROVE  Goal
  <2>1. CASE UNCHANGED tables
    BY <1>1, <2>1 DEF tables
  <2>2. ASSUME NEW id, NEW content, NEW positions, UpdateContent(id, content, positions)
        PROVE  Goal
    <3>1. id \in IdsOf(messages) /\ messages \subseteq Message
      BY <2>2 DEF UpdateContent, ChatStrong, ChatInvariant, TypeOK, StoreTypeOK
    <3>2. \A m \in messages : (IF m.id = id THEN [m EXCEPT !.content = content] ELSE m).id = m.id
      BY <3>1 DEF Message
    <3>3. IdsOf(messages') = IdsOf(messages)
      BY <2>2, <3>2 DEF UpdateContent, IdsOf
    <3>4. \A c \in citations' \ citations : c[1] = id
      BY <2>2 DEF UpdateContent
    <3> QED
      BY <3>1, <3>3, <3>4 DEF IdsOf
  <2> QED
    BY <1>3, <2>1, <2>2 DEF StoreAnswer
<1>4. ASSUME NEW t \in Turns, CreateQuestion(t) \/ CreateReply(t)
      PROVE  Goal
  <2>1. CreateMessage("user", 1) \/ CreateMessage("assistant", Blank)
    BY <1>4 DEF CreateQuestion, CreateReply
  <2>2. "user" \in Roles /\ "assistant" \in Roles /\ 1 \in Nat /\ Blank \in Nat
    BY DEF Roles, Blank
  <2> QED
    BY <1>2, <2>1, <2>2
<1>5. ASSUME DeleteMessages
      PROVE  Goal
  BY <1>1, <1>5 DEF DeleteMessages, CommitDeleteBySession
<1>6. ASSUME DeleteRow
      PROVE  Goal
  BY <1>1, <1>6 DEF DeleteRow, DeleteSessionRow
<1>7. ASSUME UNCHANGED tables
      PROVE  Goal
  BY <1>1, <1>7 DEF tables
<1>8. ASSUME NEW t \in Turns,
             Start(t) \/ SetUp(t) \/ Serve(t) \/ ClientLeaves(t) \/ NoticeGone(t)
      PROVE  Goal
  <2>1. CheckSession(t) \/ Refuse(t) => UNCHANGED tables
    BY DEF CheckSession, Refuse
  <2>2. Start(t) \/ Serve(t) \/ ClientLeaves(t) \/ NoticeGone(t) => UNCHANGED tables
    BY DEF Start, Serve, Forward, HandlerReturns, ClientLeaves, NoticeGone
  <2> QED
    BY <1>4, <1>7, <1>8, <2>1, <2>2 DEF SetUp
<1>9. ASSUME NEW t \in Turns, Run(t)
      PROVE  Goal
  <2>1. SendMeta(t) \/ SendPiece(t) \/ SendDone(t) \/ SendError(t) => UNCHANGED tables
    BY DEF SendMeta, SendPiece, SendDone, SendError, runOnly
  <2>2. ReadHistory(t) \/ Retrieve(t) \/ StepFails(t) \/ TakePiece(t) \/ TakeError(t) \/ FinishAnswer(t) => UNCHANGED tables
    BY DEF ReadHistory, Retrieve, StepFails, TakePiece, TakeError, FinishAnswer, runOnly
  <2> QED
    BY <1>3, <1>7, <1>9, <2>1, <2>2 DEF Run
<1>10. ASSUME NEW t \in Turns, Read(t)
      PROVE  Goal
  <2>1. UNCHANGED tables
    BY <1>10 DEF Read, ReadPiece, ReadMarker, ReadBreaks, Push
  <2> QED
    BY <1>7, <2>1
<1>11. DeleteChecks \/ DeleteFinds \/ DeleteFails \/ ServerDies \/ UNCHANGED vars => UNCHANGED tables
  BY DEF DeleteChecks, DeleteFinds, DeleteFails, ServerDies, vars
<1> HIDE DEF Goal
<1>12. Goal
  BY <1>5, <1>6, <1>7, <1>8, <1>9, <1>10, <1>11 DEF Next, Delete
<1> QED
  BY <1>12 DEF Goal

\* For any number of turns and faults: a turn that still runs when its session
\* is deleted never brings a message back, nor cites for one that is gone.
THEOREM NothingComesBack == Spec => NoRevival
<1>1. ChatStrong /\ [Next]_vars =>
        [ /\ \A m \in messages' : m.id <= lastId => m.id \in IdsOf(messages)
          /\ \A c \in citations' \ citations : c[1] \in IdsOf(messages') ]_vars
  BY NoStepRevives
<1> QED
  BY <1>1, ChatStarts, ChatSteps, PTL DEF Spec, NoRevival

-----------------------------------------------------------------------------
(* StreamIsTrue: the frames the client has received and those in the       *)
(* events channel are one sequence; Forward moves its border, only run     *)
(* adds to it.                                                             *)

Kinds == {"meta", "delta"} \cup Terminal

\* The frames of a turn: the received ones, then those in the channel.
Shown(t) == Len(seen[t]) + Len(events[t])
Frame(t, i) == IF i <= Len(seen[t]) THEN seen[t][i] ELSE events[t][i - Len(seen[t])]

\* What done promises of the session, and what it has to do with its place.
IsStored(t) == faults = 0 => deletion # "none" \/ \E m \in ReplyOf(t) : Settled(m)
DoneAt(t, i) == i = sent[t] + 2 /\ reader[t] = "complete" /\ IsStored(t)

\* How many frames there are at each point of run.
Counted(t) ==
  /\ run[t] \in {"off", "meta"} => Shown(t) = 0
  /\ run[t] \in {"history", "retrieve"} => Shown(t) = 1
  /\ run[t] \in {"answer", "store", "done"} => Shown(t) = answer[t] + 1
  /\ run[t] = "forward" => Shown(t) = answer[t] /\ answer[t] > 0
  /\ run[t] = "error" => Shown(t) > 0

FramesInPlace(t) ==
  /\ Counted(t)
  /\ \A i \in 1..Shown(t) :
       /\ (Frame(t, i) = "meta") <=> (i = 1)
       /\ Frame(t, i) \in Terminal => i = Shown(t) /\ run[t] = "ended"
       /\ Frame(t, i) = "done" => DoneAt(t, i)

SeenInPlace(t) ==
  /\ seen[t] \in Seq(Kinds)
  /\ \A i \in 1..Len(seen[t]) :
       /\ (seen[t][i] = "meta") <=> (i = 1)
       /\ seen[t][i] \in Terminal => i = Len(seen[t])
       /\ seen[t][i] = "done" => DoneAt(t, i)

ReplyThere(t) == reply[t] # 0 => deletion # "none" \/ reply[t] \in IdsOf(messages)

TurnFollows(t) ==
  /\ handler[t] = "refused" => run[t] = "off"
  /\ client[t] /\ handler[t] = "ended" => run[t] = "ended" /\ events[t] = <<>>
  /\ client[t] /\ handler[t] \notin {"refused", "ended"} => ~cancelled[t]
  /\ run[t] # "off" => reply[t] # 0
  /\ ReplyThere(t)
  /\ run[t] = "done" => /\ reader[t] = "complete" /\ answer[t] = sent[t]
                        /\ client[t] => IsStored(t)
  /\ client[t] => FramesInPlace(t)
  /\ SeenInPlace(t)

StreamStrong == ChatStrong /\ DOMAIN seen = Turns /\ \A t \in Turns : TurnFollows(t)

-----------------------------------------------------------------------------
(* What the steps do to the tables.                                        *)

\* Faults are only added.
LEMMA FaultsGrow ==
  ASSUME faults \in Nat, NEW kind, Fault(kind) \/ NoFault
  PROVE  faults' \in Nat /\ (faults' = 0 => faults = 0)
  BY DEF Fault, NoFault

\* A deletion that has begun is never forgotten either.
LEMMA BudgetStep ==
  ASSUME ChatStrong, [Next]_vars
  PROVE  /\ faults' \in Nat /\ (faults' = 0 => faults = 0)
         /\ deletion' = "none" => deletion = "none"
<1>1. faults \in Nat
  BY FaultAssumption DEF ChatStrong, ChatInvariant, TypeOK
<1>2. ASSUME NEW t \in Turns, Start(t) \/ SetUp(t) \/ Serve(t) \/ ClientLeaves(t) \/ NoticeGone(t)
      PROVE  deletion' = deletion /\ \E kind : Fault(kind) \/ NoFault
  BY <1>2 DEF Start, SetUp, CheckSession, CreateQuestion, CreateReply, Refuse, Serve, Forward,
     HandlerReturns, ClientLeaves, NoticeGone, Works, Fails, NoFault
<1>3. ASSUME NEW t \in Turns, Run(t)
      PROVE  deletion' = deletion /\ \E kind : Fault(kind) \/ NoFault
  BY <1>3 DEF Run, SendMeta, ReadHistory, Retrieve, StepFails, TakePiece, SendPiece, TakeError,
     FinishAnswer, StoreAnswer, SendDone, SendError, runOnly, Works, Fails, NoFault
<1>4. ASSUME NEW t \in Turns, Read(t)
      PROVE  deletion' = deletion /\ \E kind : Fault(kind) \/ NoFault
  BY <1>4 DEF Read, ReadPiece, ReadMarker, ReadBreaks, Push, Fails, NoFault
<1>5. ASSUME DeleteChecks \/ Delete \/ ServerDies \/ UNCHANGED vars
      PROVE  (deletion' = "none" => deletion = "none") /\ \E kind : Fault(kind) \/ NoFault
  BY <1>5 DEF DeleteChecks, Delete, DeleteFinds, DeleteMessages, DeleteRow, DeleteFails, ServerDies,
     vars, NoFault
<1>6. (deletion' = "none" => deletion = "none") /\ \E kind : Fault(kind) \/ NoFault
  BY <1>2, <1>3, <1>4, <1>5 DEF Next
<1> QED
  BY <1>1, <1>6, FaultsGrow

\* What a step may do to the messages.
LEMMA MessageSteps ==
  ASSUME ChatStrong, [Next]_vars
  PROVE  \/ messages' = messages
         \/ deletion' # "none"
         \/ \E role \in Roles, content \in Nat : CreateMessage(role, content)
         \/ \E t \in Turns, positions \in SUBSET Nat :
              UpdateContent(reply[t], Final(t), positions) /\ answer[t] \in 0..Chunks
<1> DEFINE Goal == \/ messages' = messages
                   \/ deletion' # "none"
                   \/ \E role \in Roles, content \in Nat : CreateMessage(role, content)
                   \/ \E t \in Turns, positions \in SUBSET Nat :
                        UpdateContent(reply[t], Final(t), positions) /\ answer[t] \in 0..Chunks
<1>1. ASSUME NEW t \in Turns, Start(t) \/ SetUp(t) \/ Serve(t) \/ ClientLeaves(t) \/ NoticeGone(t)
      PROVE  Goal
  <2>1. "user" \in Roles /\ "assistant" \in Roles /\ 1 \in Nat /\ Blank \in Nat
    BY DEF Roles, Blank
  <2>2. CASE SetUp(t)
    BY <2>1, <2>2 DEF SetUp, CheckSession, CreateQuestion, CreateReply, Refuse, tables
  <2>3. CASE ~SetUp(t)
    BY <1>1, <2>3 DEF Start, Serve, Forward, HandlerReturns, ClientLeaves, NoticeGone, tables
  <2> QED
    BY <2>2, <2>3
<1>2. ASSUME NEW t \in Turns, StoreAnswer(t)
      PROVE  Goal
  <2>1. answer[t] \in 0..Chunks /\ hits[t] \in 0..MaxHits
    <3>1. answer[t] \in 0..sent[t] /\ sent[t] \in 0..Chunks /\ hits[t] \in 0..MaxHits
      BY DEF ChatStrong, ChatInvariant, TypeOK
    <3> QED
      BY <3>1, ChatAssumption
  <2>2. ASSUME NEW mentioned \in SUBSET (1..(MaxHits + 1))
        PROVE  (IF answer[t] = 0 THEN {} ELSE Cited(mentioned, hits[t])) \in SUBSET Nat
    BY <2>1 DEF Cited
  <2>3. CASE UNCHANGED tables
    BY <2>3 DEF tables
  <2> QED
    BY <1>2, <2>1, <2>2, <2>3 DEF StoreAnswer
<1>3. ASSUME NEW t \in Turns, Run(t), ~StoreAnswer(t)
      PROVE  messages' = messages
  BY <1>3 DEF Run, SendMeta, ReadHistory, Retrieve, StepFails, TakePiece, SendPiece, TakeError,
     FinishAnswer, SendDone, SendError, runOnly, tables
<1>4. ASSUME NEW t \in Turns, Read(t)
      PROVE  messages' = messages
  BY <1>4 DEF Read, ReadPiece, ReadMarker, ReadBreaks, Push, tables
<1>5. ASSUME DeleteChecks \/ Delete \/ ServerDies \/ UNCHANGED vars
      PROVE  messages' = messages \/ deletion' # "none"
  BY <1>5 DEF DeleteChecks, Delete, DeleteFinds, DeleteMessages, DeleteRow, DeleteSessionRow,
     DeleteFails, ServerDies, vars, tables
<1> HIDE DEF Goal
<1>6. Goal
  BY <1>1, <1>2, <1>3, <1>4, <1>5 DEF Next, Goal
<1> QED
  BY <1>6 DEF Goal

\* As long as no deletion has begun, replies stay in the session, and stay
\* settled.
LEMMA RowsStay ==
  ASSUME ChatStrong, [Next]_vars, NEW t \in Turns, reply'[t] = reply[t]
  PROVE  /\ ReplyThere(t) => ReplyThere(t)'
         /\ IsStored(t) => IsStored(t)'
<1>1. /\ faults' \in Nat /\ (faults' = 0 => faults = 0)
      /\ deletion' = "none" => deletion = "none"
  BY BudgetStep
<1>2. ASSUME deletion' = "none"
      PROVE  /\ \A m \in messages : m.id \in IdsOf(messages)'
             /\ \A m \in messages : Settled(m) => \E n \in messages' : n.id = m.id /\ Settled(n)
  <2>1. CASE messages' = messages
    BY <2>1 DEF IdsOf
  <2>2. ASSUME NEW role \in Roles, NEW content \in Nat, CreateMessage(role, content)
        PROVE  messages \subseteq messages'
    BY <2>2 DEF CreateMessage
  <2>3. ASSUME NEW u \in Turns, NEW positions \in SUBSET Nat,
               UpdateContent(reply[u], Final(u), positions), answer[u] \in 0..Chunks
        PROVE  /\ \A m \in messages : m.id \in IdsOf(messages)'
               /\ \A m \in messages : Settled(m) => \E n \in messages' : n.id = m.id /\ Settled(n)
    <3>1. Final(u) \in Nat /\ Final(u) # Blank
      BY <2>3, ChatAssumption DEF Final, Sorry, Blank
    <3>2. /\ IdsOf(messages)' = IdsOf(messages)
          /\ \A m \in messages' : m.id = reply[u] => m.content = Final(u)
          /\ \A m : m.id # reply[u] => (m \in messages' <=> m \in messages)
      BY <2>3, <3>1, Updated DEF ChatStrong, ChatInvariant, TypeOK
    <3>3. ASSUME NEW m \in messages, Settled(m)
          PROVE  \E n \in messages' : n.id = m.id /\ Settled(n)
      <4>1. PICK n \in messages' : n.id = m.id
        BY <3>2 DEF IdsOf
      <4>2. CASE m.id = reply[u]
        BY <3>1, <3>2, <4>1, <4>2 DEF Settled
      <4>3. CASE m.id # reply[u]
        BY <3>2, <3>3, <4>3
      <4> QED
        BY <4>2, <4>3
    <3> QED
      BY <3>2, <3>3 DEF IdsOf
  <2> QED
    BY <1>2, <2>1, <2>2, <2>3, MessageSteps DEF IdsOf
<1>3. ReplyThere(t) => ReplyThere(t)'
  BY <1>1, <1>2 DEF ReplyThere, IdsOf
<1>4. IsStored(t) => IsStored(t)'
  <2> SUFFICES ASSUME IsStored(t), faults' = 0, deletion' = "none"
               PROVE  \E n \in messages' : n.id = reply'[t] /\ Settled(n)
    BY DEF IsStored, ReplyOf, Settled
  <2>1. PICK m \in messages : m.id = reply[t] /\ Settled(m)
    BY <1>1 DEF IsStored, ReplyOf
  <2> QED
    BY <1>2, <2>1
<1> QED
  BY <1>3, <1>4

-----------------------------------------------------------------------------
(* The steps.                                                              *)

\* The rest of a turn that the invariant is about.
Same(t) ==
  /\ handler'[t] = handler[t] /\ client'[t] = client[t] /\ cancelled'[t] = cancelled[t]
  /\ reply'[t] = reply[t] /\ run'[t] = run[t] /\ answer'[t] = answer[t]
  /\ reader'[t] = reader[t] /\ sent'[t] = sent[t]
  /\ events'[t] = events[t] /\ seen'[t] = seen[t]

\* Types of one turn.
LEMMA TurnTypes ==
  ASSUME StreamStrong, NEW t \in Turns
  PROVE  /\ handler[t] \in HandlerPoints /\ client[t] \in BOOLEAN /\ cancelled[t] \in BOOLEAN
         /\ run[t] \in RunPoints /\ reader[t] \in ReaderStates
         /\ answer[t] \in Nat /\ sent[t] \in Nat
         /\ seen[t] \in Seq(Kinds) /\ events[t] \in Seq(Kinds)
         /\ Len(seen[t]) \in Nat /\ Len(events[t]) \in Nat /\ Shown(t) \in Nat
<1>1. TurnFollows(t) /\ TypeOK
  BY DEF StreamStrong, ChatStrong, ChatInvariant
<1>2. seen[t] \in Seq(Kinds) /\ events[t] \in Seq(Kinds)
  BY <1>1 DEF TurnFollows, SeenInPlace, TypeOK, Kinds
<1>3. Len(seen[t]) \in Nat /\ Len(events[t]) \in Nat
  BY <1>2
<1>4. answer[t] \in Nat /\ sent[t] \in Nat
  <2>1. answer[t] \in 0..sent[t] /\ sent[t] \in 0..Chunks
    BY <1>1 DEF TypeOK
  <2> QED
    BY <2>1, ChatAssumption
<1>5. Shown(t) \in Nat
  <2>1. \A a, b \in Nat : a + b \in Nat
    OBVIOUS
  <2> QED
    BY <1>3, <2>1 DEF Shown
<1>6. /\ handler[t] \in HandlerPoints /\ client[t] \in BOOLEAN /\ cancelled[t] \in BOOLEAN
      /\ run[t] \in RunPoints /\ reader[t] \in ReaderStates
  BY <1>1 DEF TypeOK
<1> QED
  BY <1>2, <1>3, <1>4, <1>5, <1>6

\* What is promised of a frame at a place stays promised.
LEMMA DoneStays ==
  ASSUME StreamStrong, [Next]_vars, NEW t \in Turns, NEW i, DoneAt(t, i),
         reply'[t] = reply[t], reader'[t] = reader[t], sent'[t] = sent[t]
  PROVE  DoneAt(t, i)'
  BY RowsStay DEF StreamStrong, DoneAt

\* Received frames that stay the same stay in place.
LEMMA SeenStays ==
  ASSUME StreamStrong, [Next]_vars, NEW t \in Turns, seen'[t] = seen[t], reply'[t] = reply[t],
         reader[t] = "complete" => reader'[t] = reader[t] /\ sent'[t] = sent[t]
  PROVE  SeenInPlace(t)'
<1>1. SeenInPlace(t)
  BY DEF StreamStrong, TurnFollows
<1>2. ASSUME NEW i \in 1..Len(seen[t]), DoneAt(t, i)
      PROVE  DoneAt(t, i)'
  BY <1>2, DoneStays DEF DoneAt
<1> QED
  BY <1>1, <1>2 DEF SeenInPlace

\* A turn that is left alone stays in place.
LEMMA SameStays ==
  ASSUME StreamStrong, [Next]_vars, NEW t \in Turns, Same(t)
  PROVE  TurnFollows(t)'
<1> USE DEF Same
<1>1. TurnFollows(t)
  BY DEF StreamStrong
<1>2. SeenInPlace(t)'
  BY SeenStays
<1>3. ReplyThere(t)' /\ (IsStored(t) => IsStored(t)')
  BY <1>1, RowsStay DEF StreamStrong, TurnFollows
<1>4. ASSUME FramesInPlace(t)
      PROVE  FramesInPlace(t)'
  <2>1. Shown(t)' = Shown(t) /\ \A i \in 1..Shown(t) : Frame(t, i)' = Frame(t, i)
    BY DEF Shown, Frame
  <2>2. Counted(t)'
    BY <1>4, <2>1 DEF FramesInPlace, Counted
  <2>3. ASSUME NEW i \in 1..Shown(t), DoneAt(t, i)
        PROVE  DoneAt(t, i)'
    BY <2>3, DoneStays
  <2> QED
    BY <1>4, <2>1, <2>2, <2>3 DEF FramesInPlace
<1> QED
  BY <1>1, <1>2, <1>3, <1>4 DEF TurnFollows

\* A connected client's frames that are not added to stay in place when run
\* and the reader move without ending the turn.
LEMMA FramesStay ==
  ASSUME StreamStrong, [Next]_vars, NEW t \in Turns, FramesInPlace(t),
         seen'[t] = seen[t], events'[t] = events[t], reply'[t] = reply[t],
         reader[t] = "complete" => reader'[t] = reader[t] /\ sent'[t] = sent[t],
         run[t] = "ended" => run'[t] = "ended",
         Counted(t)'
  PROVE  FramesInPlace(t)'
<1>1. Shown(t)' = Shown(t) /\ \A i \in 1..Shown(t) : Frame(t, i)' = Frame(t, i)
  BY DEF Shown, Frame
<1>2. ASSUME NEW i \in 1..Shown(t), DoneAt(t, i)
      PROVE  DoneAt(t, i)'
  BY <1>2, DoneStays DEF DoneAt
<1> QED
  BY <1>1, <1>2 DEF FramesInPlace

\* The handler and its client move on; no frame does.
LEMMA AroundStays ==
  ASSUME StreamStrong, [Next]_vars, NEW t \in Turns,
         reply'[t] = reply[t], run'[t] = run[t], answer'[t] = answer[t],
         reader'[t] = reader[t], sent'[t] = sent[t], events'[t] = events[t], seen'[t] = seen[t],
         client'[t] => client[t],
         handler'[t] = "refused" => run[t] = "off",
         client'[t] /\ handler'[t] = "ended" => run[t] = "ended" /\ events[t] = <<>>,
         client'[t] /\ handler'[t] \notin {"refused", "ended"} => ~cancelled'[t]
  PROVE  TurnFollows(t)'
<1>1. TurnFollows(t)
  BY DEF StreamStrong
<1>2. SeenInPlace(t)'
  BY SeenStays
<1>3. ReplyThere(t)' /\ (IsStored(t) => IsStored(t)')
  BY <1>1, RowsStay DEF StreamStrong, TurnFollows
<1>4. Counted(t) => Counted(t)'
  BY DEF Counted, Shown
<1>5. FramesInPlace(t) => FramesInPlace(t)'
  BY <1>4, FramesStay DEF FramesInPlace
<1> QED
  BY <1>1, <1>2, <1>3, <1>5 DEF TurnFollows

\* The handler before it serves, and at its end; clients.
LEMMA HandlerFollows ==
  ASSUME StreamStrong, [Next]_vars, NEW t \in Turns,
         \/ Start(t) \/ CheckSession(t) \/ Refuse(t)
         \/ HandlerReturns(t) \/ ClientLeaves(t) \/ NoticeGone(t)
  PROVE  TurnFollows(t)'
<1>1. UNCHANGED <<reply, run, answer, reader, sent, seen>>
  BY DEF Start, CheckSession, Refuse, HandlerReturns, ClientLeaves, NoticeGone, others
<1>2. TurnFollows(t) /\ TurnInPlace(t) /\ TypeOK
  BY DEF StreamStrong, ChatStrong, ChatInvariant
<1>3. CASE Start(t) \/ CheckSession(t)
  <2>1. /\ UNCHANGED <<client, cancelled, events>>
        /\ handler'[t] \notin {"refused", "ended"} /\ handler[t] \notin {"refused", "ended"}
    BY <1>2, <1>3 DEF Start, CheckSession, others, At, TypeOK
  <2> QED
    BY <1>1, <1>2, <2>1, AroundStays DEF TurnFollows
<1>4. CASE Refuse(t)
  <2>1. /\ UNCHANGED <<client, events>> /\ handler'[t] = "refused"
        /\ handler[t] \in {"session", "question", "reply"}
    BY <1>2, <1>4 DEF Refuse, others, TypeOK
  <2>2. run[t] = "off"
    BY <1>2, <2>1 DEF TurnInPlace
  <2> QED
    BY <1>1, <2>1, <2>2, AroundStays
<1>5. CASE HandlerReturns(t)
  <2>1. handler'[t] = "ended" /\ handler[t] = "serving" /\ client' = client
    BY <1>2, <1>5 DEF HandlerReturns, At, TypeOK
  <2>2. CASE client[t]
    <3>1. run[t] = "ended" /\ events[t] = <<>> /\ events' = events
      BY <1>5, <2>2 DEF HandlerReturns
    <3> QED
      BY <1>1, <2>1, <3>1, AroundStays
  <2>3. CASE ~client[t]
    <3>1. ReplyThere(t)' /\ (IsStored(t) => IsStored(t)')
      BY <1>1, <1>2, RowsStay DEF StreamStrong, TurnFollows
    <3>2. SeenInPlace(t)'
      BY <1>1, SeenStays
    <3> QED
      BY <1>1, <1>2, <2>1, <2>3, <3>1, <3>2 DEF TurnFollows
  <2> QED
    BY <2>2, <2>3
<1>6. CASE ClientLeaves(t) \/ NoticeGone(t)
  <2>1. /\ UNCHANGED <<handler, events>> /\ ~client'[t]
    BY <1>2, <1>6 DEF ClientLeaves, NoticeGone, others, TypeOK
  <2> QED
    BY <1>1, <1>2, <2>1, AroundStays DEF TurnFollows
<1> QED
  BY <1>3, <1>4, <1>5, <1>6

\* A frame goes from the channel to the client.
LEMMA ForwardFollows ==
  ASSUME StreamStrong, [Next]_vars, NEW t \in Turns, Forward(t)
  PROVE  TurnFollows(t)'
<1>1. TurnFollows(t) /\ DOMAIN seen = Turns /\ DOMAIN events = Turns
  BY DEF StreamStrong, ChatStrong, PerTurn
<1>2. /\ UNCHANGED <<handler, client, cancelled, reply, run, answer, reader, sent>>
      /\ handler[t] = "serving" /\ events[t] # <<>>
      /\ events'[t] = Tail(events[t])
      /\ seen'[t] = IF client[t] THEN Append(seen[t], Head(events[t])) ELSE seen[t]
  BY <1>1 DEF Forward
<1>3. ReplyThere(t)' /\ (IsStored(t) => IsStored(t)')
  BY <1>1, <1>2, RowsStay DEF StreamStrong, TurnFollows
<1>4. CASE ~client[t]
  <2>1. SeenInPlace(t)'
    BY <1>2, <1>4, SeenStays
  <2> QED
    BY <1>1, <1>2, <1>3, <1>4, <2>1 DEF TurnFollows
<1>5. CASE client[t]
  <2> DEFINE n == Len(seen[t])
             e == Len(events[t])
  <2>1. /\ seen[t] \in Seq(Kinds) /\ events[t] \in Seq(Kinds) /\ n \in Nat /\ e \in Nat
        /\ Shown(t) = n + e
    BY TurnTypes DEF Shown
  <2>2. /\ Tail(events[t]) \in Seq(Kinds) /\ Len(Tail(events[t])) = e - 1 /\ e > 0
        /\ Head(events[t]) = events[t][1]
        /\ \A i \in 1..(e - 1) : Tail(events[t])[i] = events[t][i + 1]
    BY <1>2, <2>1, Channels DEF Kinds, Terminal
  <2>3. /\ events[t][1] \in Kinds /\ seen'[t] \in Seq(Kinds) /\ Len(seen'[t]) = n + 1
        /\ \A i \in 1..n : seen'[t][i] = seen[t][i]
        /\ seen'[t][n + 1] = events[t][1]
    <3>1. events[t][1] \in Kinds
      BY <2>1, <2>2
    <3> QED
      BY <1>2, <1>5, <2>1, <2>2, <3>1, Channels
  <2>4. Shown(t)' = Shown(t)
    <3>1. \A a, b \in Nat : (a + 1) + (b - 1) = a + b
      OBVIOUS
    <3> QED
      BY <1>2, <2>1, <2>2, <2>3, <3>1 DEF Shown
  <2>5. \A i \in 1..Shown(t) : Frame(t, i)' = Frame(t, i)
    <3> SUFFICES ASSUME NEW i \in 1..Shown(t) PROVE Frame(t, i)' = Frame(t, i)
      OBVIOUS
    <3>1. i \in 1..n \/ i = n + 1 \/ (i - (n + 1) \in 1..(e - 1) /\ (i - (n + 1)) + 1 = i - n /\ ~(i <= n + 1))
      <4>1. \A a, b \in Nat : \A k \in 1..(a + b) :
              k \in 1..a \/ k = a + 1 \/ (k - (a + 1) \in 1..(b - 1) /\ (k - (a + 1)) + 1 = k - a /\ ~(k <= a + 1))
        OBVIOUS
      <4> QED
        BY <2>1, <4>1
    <3>2. CASE i \in 1..n
      <4>1. i <= n /\ i <= n + 1
        BY <2>1, <3>2
      <4> QED
        BY <2>3, <3>2, <4>1 DEF Frame
    <3>3. CASE i = n + 1
      <4>1. ~(n + 1 <= n) /\ (n + 1) - n = 1 /\ n + 1 <= n + 1
        BY <2>1
      <4> QED
        BY <2>3, <3>3, <4>1 DEF Frame
    <3>4. CASE i - (n + 1) \in 1..(e - 1) /\ (i - (n + 1)) + 1 = i - n /\ ~(i <= n + 1)
      <4>1. ~(i <= n)
        BY <2>1, <3>4
      <4>2. Frame(t, i)' = Tail(events[t])[i - (n + 1)]
        BY <1>2, <2>3, <3>4 DEF Frame
      <4>3. Frame(t, i) = events[t][i - n]
        BY <4>1 DEF Frame
      <4> QED
        BY <2>2, <3>4, <4>2, <4>3
    <3> QED
      BY <3>1, <3>2, <3>3, <3>4
  <2>6. ASSUME NEW i \in 1..Shown(t), DoneAt(t, i)
        PROVE  DoneAt(t, i)'
    BY <1>2, <2>6, DoneStays
  <2>7. FramesInPlace(t)
    BY <1>1, <1>5 DEF TurnFollows
  <2>8. FramesInPlace(t)'
    <3>1. Counted(t)'
      BY <1>2, <2>4, <2>7 DEF FramesInPlace, Counted
    <3> QED
      BY <1>2, <2>4, <2>5, <2>6, <2>7, <3>1 DEF FramesInPlace
  <2>9. SeenInPlace(t)'
    <3> SUFFICES ASSUME NEW i \in 1..Len(seen'[t])
                 PROVE  /\ (seen'[t][i] = "meta") <=> (i = 1)
                        /\ seen'[t][i] \in Terminal => i = Len(seen'[t])
                        /\ seen'[t][i] = "done" => DoneAt(t, i)'
      BY <2>3 DEF SeenInPlace
    <3>1. i \in 1..Shown(t) /\ (i = Shown(t) => i = n + 1) /\ i <= n + 1
      <4>1. \A a, b \in Nat : b > 0 => \A k \in 1..(a + 1) :
              k \in 1..(a + b) /\ (k = a + b => k = a + 1) /\ k <= a + 1
        OBVIOUS
      <4> QED
        BY <2>1, <2>2, <2>3, <4>1
    <3>2. Frame(t, i)' = seen'[t][i]
      BY <2>3 DEF Frame
    <3> QED
      BY <2>3, <2>4, <2>8, <3>1, <3>2 DEF FramesInPlace
  <2> QED
    BY <1>1, <1>2, <1>3, <1>5, <2>8, <2>9 DEF TurnFollows
<1> QED
  BY <1>4, <1>5

\* run moves on without a frame.
LEMMA MoveFollows ==
  ASSUME StreamStrong, [Next]_vars, NEW t \in Turns,
         ReadHistory(t) \/ Retrieve(t) \/ StepFails(t) \/ TakePiece(t) \/ TakeError(t) \/ FinishAnswer(t)
  PROVE  TurnFollows(t)'
<1>1. TurnFollows(t) /\ TurnInPlace(t) /\ TypeOK /\ PerTurn
  BY DEF StreamStrong, ChatStrong, ChatInvariant
<1>2. UNCHANGED <<handler, client, cancelled, reply, sent, events, seen>>
  BY DEF ReadHistory, Retrieve, StepFails, TakePiece, TakeError, FinishAnswer, runOnly
<1>3. \/ run[t] = "history" /\ run'[t] = "retrieve" /\ answer' = answer
      \/ run[t] \in {"history", "retrieve", "answer"} /\ run'[t] = "error" /\ answer' = answer
      \/ run[t] = "retrieve" /\ run'[t] = "answer" /\ answer' = answer
      \/ run[t] = "answer" /\ run'[t] = "forward" /\ answer'[t] = answer[t] + 1
      \/ run[t] = "answer" /\ run'[t] = "store" /\ answer' = answer
  BY <1>1 DEF ReadHistory, Retrieve, StepFails, TakePiece, TakeError, FinishAnswer, runOnly, At, TypeOK,
     PerTurn
<1>4. reader[t] = "complete" => reader'[t] = reader[t]
  BY <1>1 DEF ReadHistory, Retrieve, StepFails, TakePiece, TakeError, FinishAnswer, runOnly, At,
     TurnInPlace, Early
<1>5. answer[t] \in Nat /\ Shown(t) \in Nat
  BY TurnTypes
<1>6. ASSUME Counted(t)
      PROVE  Counted(t)'
  <2>1. Shown(t)' = Shown(t)
    BY <1>2 DEF Shown
  <2>2. run[t] = "retrieve" => answer[t] = 0
    BY <1>1 DEF TurnInPlace, Early
  <2> QED
    BY <1>3, <1>5, <1>6, <2>1, <2>2 DEF Counted
<1>7. FramesInPlace(t) => FramesInPlace(t)'
  BY <1>2, <1>3, <1>4, <1>6, FramesStay DEF FramesInPlace
<1>8. SeenInPlace(t)'
  BY <1>2, <1>4, SeenStays
<1>9. ReplyThere(t)'
  BY <1>1, <1>2, RowsStay DEF StreamStrong, TurnFollows
<1> QED
  BY <1>1, <1>2, <1>3, <1>7, <1>8, <1>9 DEF TurnFollows

\* The reader moves on.
LEMMA ReadFollows ==
  ASSUME StreamStrong, [Next]_vars, NEW t \in Turns, Read(t)
  PROVE  TurnFollows(t)'
<1>1. TurnFollows(t) /\ TurnInPlace(t)
  BY DEF StreamStrong, ChatStrong
<1>2. /\ UNCHANGED <<handler, client, cancelled, reply, run, answer, events, seen>>
      /\ reader[t] = "open"
  BY DEF Read, ReadPiece, ReadMarker, ReadBreaks, Push
<1>3. Counted(t) => Counted(t)'
  BY <1>2 DEF Counted, Shown
<1>4. FramesInPlace(t) => FramesInPlace(t)'
  BY <1>2, <1>3, FramesStay DEF FramesInPlace
<1>5. SeenInPlace(t)'
  BY <1>2, SeenStays
<1>6. ReplyThere(t)'
  BY <1>1, <1>2, RowsStay DEF StreamStrong, TurnFollows
<1> QED
  BY <1>1, <1>2, <1>4, <1>5, <1>6 DEF TurnFollows

\* A frame is sent.
LEMMA EmitFollows ==
  ASSUME StreamStrong, [Next]_vars, NEW t \in Turns,
         SendMeta(t) \/ SendPiece(t) \/ SendDone(t) \/ SendError(t)
  PROVE  TurnFollows(t)'
<1>1. TurnFollows(t) /\ TypeOK /\ PerTurn
  BY DEF StreamStrong, ChatStrong, ChatInvariant
<1>2. UNCHANGED <<handler, client, cancelled, reply, answer, reader, sent, seen>>
  BY DEF SendMeta, SendPiece, SendDone, SendError, runOnly
<1>3. PICK kind \in Kinds :
        /\ events'[t] = Append(events[t], kind)
        /\ \/ run[t] = "meta" /\ run'[t] = "history" /\ kind = "meta"
           \/ run[t] = "forward" /\ run'[t] = "answer" /\ kind = "delta"
           \/ run[t] = "done" /\ run'[t] = "ended" /\ kind = "done"
           \/ run[t] = "error" /\ run'[t] = "ended" /\ kind = "error"
  BY <1>1 DEF SendMeta, SendPiece, SendDone, SendError, Emit, At, TypeOK, PerTurn, Kinds, Terminal
<1>4. SeenInPlace(t)'
  BY <1>2, SeenStays
<1>5. ReplyThere(t)' /\ (IsStored(t) => IsStored(t)')
  BY <1>1, <1>2, RowsStay DEF StreamStrong, TurnFollows
<1>6. ASSUME client[t]
      PROVE  FramesInPlace(t)'
  <2> DEFINE n == Len(seen[t])
             e == Len(events[t])
  <2>1. /\ events[t] \in Seq(Kinds) /\ n \in Nat /\ e \in Nat /\ answer[t] \in Nat
        /\ Shown(t) = n + e
    BY TurnTypes DEF Shown
  <2>2. /\ Len(events'[t]) = e + 1 /\ events'[t][e + 1] = kind
        /\ \A i \in 1..e : events'[t][i] = events[t][i]
    BY <1>3, <2>1, Channels
  <2>3. Shown(t)' = Shown(t) + 1
    <3>1. \A a, b \in Nat : a + (b + 1) = (a + b) + 1
      OBVIOUS
    <3> QED
      BY <1>2, <2>1, <2>2, <3>1 DEF Shown
  <2>4. \A i \in 1..Shown(t) : Frame(t, i)' = Frame(t, i)
    <3> SUFFICES ASSUME NEW i \in 1..Shown(t) PROVE Frame(t, i)' = Frame(t, i)
      OBVIOUS
    <3>1. i <= n \/ (~(i <= n) /\ i - n \in 1..e)
      <4>1. \A a, b \in Nat : \A k \in 1..(a + b) : k <= a \/ (~(k <= a) /\ k - a \in 1..b)
        OBVIOUS
      <4> QED
        BY <2>1, <4>1
    <3> QED
      BY <1>2, <2>2, <3>1 DEF Frame
  <2>5. ASSUME NEW i, i = Shown(t) + 1
        PROVE  Frame(t, i)' = kind
    <3>1. ~(i <= n) /\ i - n = e + 1
      <4>1. \A a, b \in Nat : ~((a + b) + 1 <= a) /\ ((a + b) + 1) - a = b + 1
        OBVIOUS
      <4> QED
        BY <2>1, <2>5, <4>1
    <3> QED
      BY <1>2, <2>2, <3>1 DEF Frame
  <2>6. FramesInPlace(t) /\ run[t] # "ended"
    BY <1>1, <1>3, <1>6 DEF TurnFollows
  <2>7. Shown(t) \in Nat /\ answer[t] \in Nat /\ Counted(t)
    BY <2>6, TurnTypes DEF FramesInPlace
  <2>8. Counted(t)'
    <3>1. answer'[t] = answer[t]
      BY <1>2
    <3>2. run[t] = "meta" => Shown(t)' = 1
      BY <2>3, <2>7 DEF Counted
    <3>3. run[t] = "forward" => Shown(t)' = answer'[t] + 1
      BY <2>3, <2>7, <3>1 DEF Counted
    <3> QED
      BY <1>3, <3>2, <3>3 DEF Counted
  <2>9. kind # "meta" <=> Shown(t) > 0
    <3>1. run[t] = "meta" => ~(Shown(t) > 0)
      BY <2>7 DEF Counted
    <3>2. run[t] \in {"forward", "done", "error"} => Shown(t) > 0
      BY <2>7 DEF Counted
    <3> QED
      BY <1>3, <3>1, <3>2
  <2>10. ASSUME NEW i, i = Shown(t) + 1, kind = "done"
         PROVE  DoneAt(t, i)'
    <3>1. reader'[t] = "complete" /\ sent'[t] = answer[t] /\ IsStored(t)'
      BY <1>1, <1>2, <1>3, <1>5, <1>6, <2>10 DEF TurnFollows
    <3>2. i = sent'[t] + 2
      <4>1. run[t] = "done"
        BY <1>3, <2>10
      <4>2. Shown(t) = answer[t] + 1
        BY <2>7, <4>1 DEF Counted
      <4> QED
        BY <2>7, <2>10, <3>1, <4>2
    <3> QED
      BY <3>1, <3>2 DEF DoneAt
  <2>11. ASSUME NEW i \in 1..Shown(t)'
         PROVE  /\ (Frame(t, i)' = "meta") <=> (i = 1)
                /\ Frame(t, i)' \in Terminal => i = Shown(t)' /\ run'[t] = "ended"
                /\ Frame(t, i)' = "done" => DoneAt(t, i)'
    <3>1. i \in 1..Shown(t) \/ i = Shown(t) + 1
      BY <2>3, <2>7
    <3>2. CASE i \in 1..Shown(t)
      BY <2>4, <2>6, <3>2 DEF FramesInPlace, Terminal
    <3>3. CASE i = Shown(t) + 1
      <4>1. Frame(t, i)' = kind /\ (kind = "done" => DoneAt(t, i)')
        BY <2>5, <2>10, <3>3
      <4>2. (kind = "meta") <=> (i = 1)
        BY <2>7, <2>9, <3>3
      <4> QED
        BY <1>3, <2>3, <3>3, <4>1, <4>2 DEF Terminal
    <3> QED
      BY <3>1, <3>2, <3>3
  <2> QED
    BY <2>8, <2>11 DEF FramesInPlace
<1> QED
  BY <1>1, <1>2, <1>3, <1>4, <1>5, <1>6 DEF TurnFollows

\* The user's message and the placeholder are created.
LEMMA CreateFollows ==
  ASSUME StreamStrong, [Next]_vars, NEW t \in Turns, CreateQuestion(t) \/ CreateReply(t)
  PROVE  TurnFollows(t)'
<1>1. TurnFollows(t) /\ TurnInPlace(t) /\ TypeOK /\ PerTurn
  BY DEF StreamStrong, ChatStrong, ChatInvariant
<1>2. CASE CreateQuestion(t)
  <2>1. /\ UNCHANGED <<client, cancelled, reply, run, answer, reader, sent, events, seen>>
        /\ handler[t] = "question" /\ handler'[t] = "reply"
    BY <1>1, <1>2 DEF CreateQuestion, others, At, TypeOK
  <2> QED
    BY <1>1, <2>1, AroundStays DEF TurnFollows
<1>3. CASE CreateReply(t)
  <2>1. /\ UNCHANGED <<client, cancelled, answer, reader, sent, events, seen>>
        /\ handler[t] = "reply" /\ handler'[t] = "serving"
        /\ run'[t] = "meta" /\ reply'[t] = lastId'
        /\ CreateMessage("assistant", Blank)
    BY <1>1, <1>3 DEF CreateReply, At, TypeOK
  <2>2. run[t] = "off" /\ reader[t] = "off"
    BY <1>1, <2>1 DEF TurnInPlace, Early
  <2>3. reply'[t] # 0 /\ reply'[t] \in IdsOf(messages)'
    <3>1. lastId \in Nat
      BY DEF StreamStrong, ChatStrong
    <3>2. reply'[t] = lastId + 1
      BY <2>1 DEF CreateMessage
    <3> DEFINE new == [id |-> lastId + 1, role |-> "assistant", content |-> Blank]
    <3>3. new \in messages' /\ new.id = lastId + 1
      BY <2>1 DEF CreateMessage
    <3> HIDE DEF new
    <3> QED
      BY <3>1, <3>2, <3>3 DEF IdsOf
  <2>4. SeenInPlace(t)'
    BY <1>1, <2>1, <2>2 DEF TurnFollows, SeenInPlace, DoneAt
  <2>5. ASSUME FramesInPlace(t)
        PROVE  FramesInPlace(t)'
    <3>1. Shown(t) = 0 /\ Shown(t)' = 0
      BY <2>1, <2>2, <2>5 DEF FramesInPlace, Counted, Shown
    <3> QED
      BY <2>1, <3>1 DEF FramesInPlace, Counted
  <2> QED
    BY <1>1, <2>1, <2>3, <2>4, <2>5 DEF TurnFollows, ReplyThere
<1> QED
  BY <1>2, <1>3

\* The answer is stored, or storing it fails.
LEMMA StoreFollows ==
  ASSUME StreamStrong, [Next]_vars, NEW t \in Turns, StoreAnswer(t)
  PROVE  TurnFollows(t)'
<1>1. TurnFollows(t) /\ TurnInPlace(t) /\ TypeOK
  BY DEF StreamStrong, ChatStrong, ChatInvariant
<1>2. /\ UNCHANGED <<handler, client, cancelled, reply, answer, reader, sent, events, seen, deletion>>
      /\ run[t] = "store" /\ run'[t] = "done"
  BY <1>1 DEF StoreAnswer, At, TypeOK
<1>3. reader[t] = "complete" /\ answer[t] = sent[t] /\ reply[t] # 0
  BY <1>1, <1>2 DEF TurnInPlace, TurnFollows
<1>4. ReplyThere(t)'
  BY <1>1, <1>2, RowsStay DEF StreamStrong, TurnFollows
<1>5. SeenInPlace(t)'
  BY <1>2, SeenStays
<1>6. Counted(t) => Counted(t)'
  BY <1>2 DEF Counted, Shown
<1>7. FramesInPlace(t) => FramesInPlace(t)'
  BY <1>2, <1>6, FramesStay DEF FramesInPlace
<1>8. ASSUME client[t]
      PROVE  IsStored(t)'
  <2>1. ~cancelled[t]
    <3>1. handler[t] \notin {"refused", "ended"}
      BY <1>1, <1>2, <1>8 DEF TurnFollows
    <3> QED
      BY <1>1, <1>8, <3>1 DEF TurnFollows
  <2>2. CASE Fails(t, "db")
    <3>1. faults' = faults + 1 /\ faults \in Nat
      BY <1>1, <2>1, <2>2, FaultAssumption DEF Fails, Fault, TypeOK
    <3> QED
      BY <3>1 DEF IsStored
  <2>3. CASE reply[t] \notin IdsOf(messages)
    BY <1>1, <1>2, <1>3, <2>3 DEF TurnFollows, ReplyThere, IsStored
  <2>4. ASSUME NEW mentioned \in SUBSET (1..(MaxHits + 1)),
               UpdateContent(reply[t], Final(t), IF answer[t] = 0 THEN {} ELSE Cited(mentioned, hits[t]))
        PROVE  IsStored(t)'
    <3>1. answer[t] \in Nat /\ answer[t] <= Chunks
      <4>1. answer[t] \in 0..sent[t] /\ sent[t] \in 0..Chunks
        BY <1>1 DEF TypeOK
      <4> QED
        BY <4>1, ChatAssumption
    <3>2. Final(t) \in Nat /\ Final(t) # Blank
      BY <3>1, ChatAssumption DEF Final, Sorry, Blank
    <3>3. (IF answer[t] = 0 THEN {} ELSE Cited(mentioned, hits[t])) \in SUBSET Nat
      BY <1>1 DEF Cited, TypeOK
    <3>4. /\ IdsOf(messages)' = IdsOf(messages) /\ reply[t] \in IdsOf(messages)
          /\ \A m \in messages' : m.id = reply[t] => m.content = Final(t)
      BY <1>1, <2>4, <3>2, <3>3, Updated DEF TypeOK
    <3>5. PICK m \in messages' : m.id = reply[t]
      BY <3>4 DEF IdsOf
    <3> QED
      BY <1>2, <3>2, <3>4, <3>5 DEF IsStored, ReplyOf, Settled
  <2> QED
    BY <2>2, <2>3, <2>4 DEF StoreAnswer
<1> QED
  BY <1>1, <1>2, <1>3, <1>4, <1>5, <1>7, <1>8 DEF TurnFollows

\* The process dies: who was being served is gone.
LEMMA CrashFollows ==
  ASSUME StreamStrong, [Next]_vars, NEW t \in Turns, ServerDies
  PROVE  TurnFollows(t)'
<1>1. TurnFollows(t) /\ TurnInPlace(t) /\ TypeOK
  BY DEF StreamStrong, ChatStrong, ChatInvariant
<1>2. /\ UNCHANGED <<reply, answer, sent, seen>>
      /\ handler'[t] = (IF Live(t) THEN "ended" ELSE handler[t])
      /\ client'[t] = (~Live(t) /\ client[t])
      /\ cancelled'[t] = (Live(t) \/ cancelled[t])
      /\ run'[t] = (IF run[t] = "off" THEN "off" ELSE "ended")
      /\ reader'[t] = (IF reader[t] = "open" THEN "broken" ELSE reader[t])
      /\ events'[t] = <<>>
  BY DEF ServerDies
<1>3. SeenInPlace(t)'
  BY <1>2, SeenStays
<1>4. ReplyThere(t)'
  BY <1>1, <1>2, RowsStay DEF StreamStrong, TurnFollows
<1>5. CASE Live(t)
  BY <1>1, <1>2, <1>3, <1>4, <1>5 DEF TurnFollows, Live
<1>6. CASE ~Live(t)
  <2>1. handler[t] \in {"idle", "refused"} \/ (handler[t] = "ended" /\ run[t] \in {"off", "ended"})
    BY <1>6 DEF Live
  <2>2. run[t] \in {"off", "ended"} /\ run'[t] = run[t]
    BY <1>1, <1>2, <2>1 DEF TurnInPlace, TurnFollows
  <2>3. ASSUME client[t]
        PROVE  events[t] = <<>> /\ FramesInPlace(t)
    <3>1. FramesInPlace(t)
      BY <1>1, <2>3 DEF TurnFollows
    <3>2. CASE handler[t] = "ended"
      BY <1>1, <2>3, <3>1, <3>2 DEF TurnFollows
    <3>3. CASE handler[t] # "ended"
      <4>1. run[t] = "off"
        BY <1>1, <2>1, <3>3 DEF TurnInPlace, TurnFollows
      <4>2. Len(events[t]) = 0
        <5>1. Len(seen[t]) + Len(events[t]) = 0
          BY <3>1, <4>1 DEF FramesInPlace, Counted, Shown
        <5>2. \A a, b \in Nat : a + b = 0 => b = 0
          OBVIOUS
        <5> QED
          BY <5>1, <5>2, TurnTypes
      <4> QED
        BY <3>1, <4>2, TurnTypes
    <3> QED
      BY <3>2, <3>3
  <2>4. ASSUME client[t]
        PROVE  FramesInPlace(t)'
    <3>1. Counted(t) => Counted(t)'
      BY <1>2, <2>2, <2>3, <2>4 DEF Counted, Shown
    <3>2. reader[t] = "complete" => reader'[t] = reader[t] /\ sent'[t] = sent[t]
      BY <1>2
    <3> QED
      BY <1>2, <2>2, <2>3, <2>4, <3>1, <3>2, FramesStay DEF FramesInPlace
  <2>5. handler'[t] = handler[t] /\ client'[t] = client[t] /\ cancelled'[t] = cancelled[t]
    BY <1>1, <1>2, <1>6 DEF TypeOK
  <2> QED
    BY <1>1, <1>2, <1>3, <1>4, <2>2, <2>3, <2>4, <2>5 DEF TurnFollows
<1> QED
  BY <1>5, <1>6

-----------------------------------------------------------------------------
\* Every step leaves every turn in place.
LEMMA StreamSteps ==
  ASSUME StreamStrong, [Next]_vars
  PROVE  StreamStrong'
<1>1. DOMAIN seen = Turns /\ DOMAIN seen' = Turns
  <2>1. DOMAIN seen = Turns
    BY DEF StreamStrong
  <2>2. seen' = seen \/ \E t \in Turns : Forward(t)
    <3>1. ASSUME NEW t \in Turns, SetUp(t) PROVE seen' = seen
      BY <3>1 DEF SetUp, CheckSession, CreateQuestion, CreateReply, Refuse, others
    <3>2. ASSUME NEW t \in Turns, Start(t) \/ HandlerReturns(t) \/ ClientLeaves(t) \/ NoticeGone(t)
          PROVE  seen' = seen
      BY <3>2 DEF Start, HandlerReturns, ClientLeaves, NoticeGone, others
    <3>3. ASSUME NEW t \in Turns, Run(t) PROVE seen' = seen
      BY <3>3 DEF Run, SendMeta, ReadHistory, Retrieve, StepFails, TakePiece, SendPiece, TakeError,
         FinishAnswer, StoreAnswer, SendDone, SendError, runOnly
    <3>4. ASSUME NEW t \in Turns, Read(t) PROVE seen' = seen
      BY <3>4 DEF Read, ReadPiece, ReadMarker, ReadBreaks, Push
    <3>5. ASSUME DeleteChecks \/ Delete \/ ServerDies \/ UNCHANGED vars PROVE seen' = seen
      BY <3>5 DEF DeleteChecks, Delete, DeleteFinds, DeleteMessages, DeleteRow, DeleteFails,
         ServerDies, vars, turnVars
    <3> QED
      BY <3>1, <3>2, <3>3, <3>4, <3>5 DEF Next, Serve
  <2> QED
    BY <2>1, <2>2 DEF Forward
<1>2. PerTurn /\ TypeOK /\ ChatStrong
  BY DEF StreamStrong, ChatStrong, ChatInvariant
<1>3. ASSUME NEW t \in Turns, Start(t) \/ SetUp(t) \/ Serve(t) \/ ClientLeaves(t) \/ NoticeGone(t),
             NEW u \in Turns \ {t}
      PROVE  Same(u)
  BY <1>1, <1>2, <1>3 DEF Start, SetUp, CheckSession, CreateQuestion, CreateReply, Refuse, Serve,
     Forward, HandlerReturns, ClientLeaves, NoticeGone, others, At, Same, PerTurn, TypeOK
<1>4. ASSUME NEW t \in Turns, Run(t), NEW u \in Turns \ {t}
      PROVE  Same(u)
  BY <1>1, <1>2, <1>4 DEF Run, SendMeta, ReadHistory, Retrieve, StepFails, TakePiece, SendPiece,
     TakeError, FinishAnswer, StoreAnswer, SendDone, SendError, Emit, runOnly, At, Same, PerTurn, TypeOK
<1>5. ASSUME NEW t \in Turns, Read(t), NEW u \in Turns \ {t}
      PROVE  Same(u)
  BY <1>1, <1>2, <1>5 DEF Read, ReadPiece, ReadMarker, ReadBreaks, Push, Same, PerTurn, TypeOK
<1>6. ASSUME NEW t \in Turns, Start(t) \/ SetUp(t) \/ Serve(t) \/ ClientLeaves(t) \/ NoticeGone(t)
      PROVE  TurnFollows(t)'
  BY <1>6, HandlerFollows, CreateFollows, ForwardFollows DEF SetUp, Serve
<1>7. ASSUME NEW t \in Turns, Run(t)
      PROVE  TurnFollows(t)'
  BY <1>7, MoveFollows, EmitFollows, StoreFollows DEF Run
<1>8. ASSUME NEW t \in Turns, Read(t)
      PROVE  TurnFollows(t)'
  BY <1>8, ReadFollows
<1>9. ASSUME NEW u \in Turns
      PROVE  TurnFollows(u)'
  <2>1. ASSUME NEW t \in Turns, Start(t) \/ SetUp(t) \/ Serve(t) \/ ClientLeaves(t) \/ NoticeGone(t)
                                \/ Run(t) \/ Read(t)
        PROVE  TurnFollows(u)'
    BY <1>3, <1>4, <1>5, <1>6, <1>7, <1>8, <2>1, SameStays
  <2>2. CASE DeleteChecks \/ Delete \/ UNCHANGED vars
    <3>1. Same(u)
      BY <2>2 DEF DeleteChecks, Delete, DeleteFinds, DeleteMessages, DeleteRow, DeleteFails, vars,
         turnVars, Same
    <3> QED
      BY <3>1, SameStays
  <2>3. CASE ServerDies
    BY <2>3, CrashFollows
  <2> QED
    BY <2>1, <2>2, <2>3 DEF Next
<1>10. ChatStrong'
  BY <1>2, ChatSteps
<1> QED
  BY <1>1, <1>9, <1>10 DEF StreamStrong

\* At the start nobody has seen anything.
LEMMA StreamStarts == Init => StreamStrong
<1> SUFFICES ASSUME Init PROVE StreamStrong
  OBVIOUS
<1>1. ChatStrong /\ DOMAIN seen = Turns
  BY ChatStarts DEF Init
<1>2. ASSUME NEW t \in Turns
      PROVE  TurnFollows(t)
  <2>1. /\ handler[t] = "idle" /\ run[t] = "off" /\ reply[t] = 0 /\ ~cancelled[t]
        /\ seen[t] = <<>> /\ events[t] = <<>>
    BY DEF Init
  <2>2. seen[t] \in Seq(Kinds) /\ Len(seen[t]) = 0 /\ Len(events[t]) = 0
    BY <2>1
  <2>3. SeenInPlace(t)
    BY <2>2 DEF SeenInPlace
  <2>4. Shown(t) = 0
    BY <2>2 DEF Shown
  <2>5. FramesInPlace(t)
    BY <2>1, <2>4 DEF FramesInPlace, Counted
  <2> QED
    BY <2>1, <2>3, <2>5 DEF TurnFollows, ReplyThere
<1> QED
  BY <1>1, <1>2 DEF StreamStrong

\* Between the meta and the done of a stream there are only deltas.
LEMMA DeltasCounted ==
  ASSUME StreamStrong, NEW t \in Turns, Saw(t, "done")
  PROVE  Cardinality(Deltas(t)) = sent[t] /\ IsStored(t)
<1>1. SeenInPlace(t) /\ sent[t] \in Nat /\ Len(seen[t]) \in Nat
  BY TurnTypes DEF StreamStrong, TurnFollows
<1>2. PICK d \in 1..Len(seen[t]) : seen[t][d] = "done"
  BY DEF Saw
<1>3. d = Len(seen[t]) /\ d = sent[t] + 2 /\ IsStored(t)
  BY <1>1, <1>2 DEF SeenInPlace, DoneAt, Terminal
<1>4. Deltas(t) = 2..(sent[t] + 1)
  <2>1. ASSUME NEW i \in 1..Len(seen[t])
        PROVE  seen[t][i] = "delta" <=> i \in 2..(sent[t] + 1)
    <3>1. seen[t][i] \in Kinds
      BY <1>1 DEF SeenInPlace
    <3>2. i = 1 \/ i = d \/ i \in 2..(sent[t] + 1)
      BY <1>1, <1>3
    <3>3. i \in 2..(sent[t] + 1) => i # 1 /\ i # d
      BY <1>1, <1>3
    <3> QED
      BY <1>1, <1>2, <1>3, <3>1, <3>2, <3>3 DEF SeenInPlace, Kinds, Terminal
  <2>2. 2..(sent[t] + 1) \subseteq 1..Len(seen[t])
    BY <1>1, <1>3
  <2> QED
    BY <2>1, <2>2 DEF Deltas
<1>5. Cardinality(2..(sent[t] + 1)) = sent[t]
  <2>1. 2 \in Int /\ sent[t] + 1 \in Int
    BY <1>1
  <2>2. Cardinality(2..(sent[t] + 1)) = IF 2 > sent[t] + 1 THEN 0 ELSE (sent[t] + 1) - 2 + 1
    BY <2>1, FS_Interval
  <2> QED
    BY <1>1, <2>2
<1> QED
  BY <1>3, <1>4, <1>5

\* For any number of turns, any capacities, any answers and faults: what a
\* client receives is one meta, deltas and at most one end, and a done comes
\* after every piece of an answer that is in the session (unless a statement
\* failed or the session was deleted).
THEOREM StreamsAreTrue == Spec => []StreamIsTrue
<1>1. StreamStrong => StreamIsTrue
  <2> SUFFICES ASSUME StreamStrong PROVE StreamIsTrue
    OBVIOUS
  <2>1. WellFormedStream
    BY DEF StreamStrong, TurnFollows, SeenInPlace, WellFormedStream
  <2>2. DoneIsStored
    BY DeltasCounted DEF DoneIsStored, IsStored
  <2> QED
    BY <2>1, <2>2 DEF StreamIsTrue
<1> QED
  BY <1>1, StreamStarts, StreamSteps, PTL DEF Spec
=============================================================================
