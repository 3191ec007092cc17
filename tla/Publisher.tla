----------------------------- MODULE Publisher -----------------------------
(***************************************************************************)
(* The publisher shared by the outbox relay and the consumer's retries:    *)
(* one channel in confirm mode, one message at a time under a mutex.  The  *)
(* broker answers a message with an ack or a nack, preceded by a return if *)
(* it could not be routed; a channel given up may still have a message in  *)
(* flight.  The relay and the workers' models rely on what is shown here:  *)
(* no error means stored, an error means nothing.                          *)
(***************************************************************************)
EXTENDS Integers, Sequences, FiniteSets, Faults

CONSTANTS
  Callers,             \* goroutines that publish
  MaxMessages          \* bound on the messages

ASSUME PublisherAssumption == MaxMessages \in Nat /\ "free" \notin Callers

VARIABLES
  mu,                  \* caller holding the mutex, or "free"
  closed,              \* Close has been called
  channel,             \* current channel: 0 for none, else its generation
  opened,              \* channels opened so far
  alive,               \* the current channel's connection stands
  returns,             \* the channel's buffer for returned messages, one long
  call,                \* [Callers -> publish under way]
  inflight,            \* messages sent and not handled: <<channel, message>>
  wire,                \* answers on the current channel
  confirmation,        \* [Messages -> deferred confirmation]
  stored, returned,    \* messages the broker queued, gave back
  result               \* [Messages -> what the caller was told]

broker == <<inflight, wire, confirmation, stored, returned>>
publisher == <<mu, closed, channel, opened, alive, returns>>
publishVars == <<publisher, broker, call, result, faults>>

Messages == 1..MaxMessages
NoCall == [at |-> "idle", msg |-> 0]
Answers == {"ack", "nack", "return"}

PublisherInit ==
  /\ mu = "free" /\ closed = FALSE /\ channel = 0 /\ opened = 0 /\ alive = TRUE
  /\ returns = <<>>
  /\ call = [c \in Callers |-> NoCall]
  /\ inflight = <<>> /\ wire = <<>>
  /\ confirmation = [m \in Messages |-> "none"]
  /\ stored = {} /\ returned = {}
  /\ result = [m \in Messages |-> "none"]
  /\ FaultInit

-----------------------------------------------------------------------------
(* publish and waitForConfirm.                                             *)

Msg(c) == call[c].msg
CallAt(c, at) == call[c].at = at
CallTo(c, at) == call' = [call EXCEPT ![c].at = at]
Used == {m \in Messages : result[m] # "none" \/ \E c \in Callers : call[c].msg = m}

\* Mutated: only the reference is dropped.
KeepReturns ==
  /\ channel' = 0 /\ alive' = alive
  /\ UNCHANGED <<returns, wire>>

\* Mutated: the channel is used again.
KeepChannel == UNCHANGED <<channel, alive, returns, wire>>

closeChannel ==
  /\ channel' = 0 /\ alive' = alive
  /\ returns' = <<>> /\ wire' = <<>>

\* The call ends and releases the mutex.
Return(c, res) ==
  /\ result' = [result EXCEPT ![Msg(c)] = res]
  /\ call' = [call EXCEPT ![c] = NoCall]
  /\ mu' = "free"

\* PublishOutbox refuses an unknown topic or an unreadable payload.
BeginPublish(c) ==
  /\ CallAt(c, "idle")
  /\ \E m \in Messages \ Used :
       /\ \A l \in Messages \ Used : m <= l
       /\ \/ call' = [call EXCEPT ![c] = [at |-> "lock", msg |-> m]] /\ result' = result
          \/ call' = call /\ result' = [result EXCEPT ![m] = "refused"]
  /\ UNCHANGED <<publisher, broker, faults>>

LockPublisher(c) ==
  /\ CallAt(c, "lock") /\ mu = "free"
  /\ \/ closed /\ Return(c, "error")
     \/ ~closed /\ mu' = c /\ CallTo(c, IF channel = 0 THEN "open" ELSE "send") /\ result' = result
  /\ UNCHANGED <<closed, channel, opened, alive, returns, broker, faults>>

\* The channel is opened, its topology declared and confirm mode set; without
\* a connection this fails.
openChannel(c) ==
  /\ CallAt(c, "open")
  /\ \/ /\ alive
        /\ channel' = opened + 1 /\ opened' = opened + 1
        /\ returns' = <<>>
        /\ CallTo(c, "send")
        /\ UNCHANGED <<mu, closed, alive, broker, result, faults>>
     \/ /\ alive => Fault("publish")
        /\ ~alive => NoFault
        /\ Return(c, "error")
        /\ UNCHANGED <<closed, channel, opened, alive, returns, broker>>

\* When sending fails the broker may have got the message all the same.
Send(c) ==
  /\ CallAt(c, "send")
  /\ \/ /\ alive
        /\ inflight' = Append(inflight, <<channel, Msg(c)>>)
        /\ CallTo(c, "wait")
        /\ UNCHANGED <<publisher, wire, result, faults>>
     \/ /\ \/ alive /\ Fault("publish") /\ inflight' \in {inflight, Append(inflight, <<channel, Msg(c)>>)}
           \/ ~alive /\ NoFault /\ inflight' = inflight
        /\ closeChannel /\ Return(c, "error")
        /\ UNCHANGED <<closed, opened>>
  /\ UNCHANGED <<confirmation, stored, returned>>

\* Mutated: the confirmation alone decides.
AckIsEnough(c) ==
  /\ CallAt(c, "wait") /\ alive
  /\ confirmation[Msg(c)] = "ack"
  /\ Return(c, "ok")
  /\ UNCHANGED <<closed, channel, opened, alive, returns, broker, faults>>

\* Done and acked, with no returned message waiting.
Confirmed(c) ==
  /\ CallAt(c, "wait") /\ alive
  /\ confirmation[Msg(c)] = "ack" /\ returns = <<>>
  /\ Return(c, "ok")
  /\ UNCHANGED <<closed, channel, opened, alive, returns, broker, faults>>

\* A returned message, a nack, or the channel's death; the channel is given up.
Rejected(c) ==
  /\ CallAt(c, "wait")
  /\ \/ returns # <<>> /\ Return(c, "unroutable")
     \/ returns = <<>> /\ (confirmation[Msg(c)] = "nack" \/ ~alive) /\ Return(c, "error")
  /\ closeChannel
  /\ UNCHANGED <<closed, opened, inflight, confirmation, stored, returned, faults>>

\* Mutated: the wait has no limit.
Never(c) == FALSE
TimedOut(c) == CallAt(c, "wait")

\* The confirm timeout or the caller's context ends the wait at any time.
GiveUp(c) ==
  /\ TimedOut(c)
  /\ closeChannel /\ Return(c, "error")
  /\ UNCHANGED <<closed, opened, inflight, confirmation, stored, returned, faults>>

Close ==
  /\ ~closed /\ mu = "free"
  /\ closed' = TRUE /\ closeChannel
  /\ UNCHANGED <<mu, opened, inflight, confirmation, stored, returned, call, result, faults>>

-----------------------------------------------------------------------------
(* The broker and the client library's reader.                             *)

\* Messages are handled in order; the answers to those of a channel that was
\* given up are lost.
Handle ==
  /\ inflight # <<>>
  /\ LET ch == Head(inflight)[1]
         m == Head(inflight)[2]
         Answer(as) == wire' = IF ch = channel /\ alive THEN wire \o as ELSE wire
     IN  \/ stored' = stored \cup {m} /\ returned' = returned /\ Answer(<<<<"ack", m>>>>)
         \/ returned' = returned \cup {m} /\ stored' = stored /\ Answer(<<<<"return", m>>, <<"ack", m>>>>)
         \/ UNCHANGED <<stored, returned>> /\ Answer(<<<<"nack", m>>>>)
         \/ UNCHANGED <<stored, returned, wire>> /\ (ch # channel \/ ~alive)
  /\ inflight' = Tail(inflight)
  /\ UNCHANGED <<publisher, confirmation, call, result, faults>>

\* The reader waits for room in the buffer.
Deliver ==
  /\ wire # <<>>
  /\ IF Head(wire)[1] = "return"
     THEN returns = <<>> /\ returns' = <<Head(wire)[2]>> /\ confirmation' = confirmation
     ELSE /\ confirmation' = [confirmation EXCEPT ![Head(wire)[2]] = Head(wire)[1]]
          /\ returns' = returns
  /\ wire' = Tail(wire)
  /\ UNCHANGED <<mu, closed, channel, opened, alive, inflight, stored, returned, call, result, faults>>

LoseConnection ==
  /\ alive /\ Fault("conn")
  /\ alive' = FALSE /\ wire' = <<>>
  /\ UNCHANGED <<mu, closed, channel, opened, returns, inflight, confirmation, stored, returned, call, result>>

CallStep(c) ==
  \/ LockPublisher(c) \/ openChannel(c) \/ Send(c) \/ Confirmed(c) \/ Rejected(c) \/ GiveUp(c)

PublisherNext ==
  \/ \E c \in Callers : BeginPublish(c) \/ CallStep(c)
  \/ Close \/ Handle \/ Deliver \/ LoseConnection

\* The goroutine of a call runs on, its timer fires; the broker owes nothing.
PublisherFairness == \A c \in Callers : WF_publishVars(CallStep(c))

PublisherSpec == PublisherInit /\ [][PublisherNext]_publishVars /\ PublisherFairness

-----------------------------------------------------------------------------
(* Properties.                                                             *)

\* Types; nothing is buffered for a channel that was given up.
PublisherTypeOK ==
  /\ mu \in Callers \cup {"free"} /\ closed \in BOOLEAN /\ alive \in BOOLEAN
  /\ channel \in 0..opened
  /\ Len(returns) <= 1 /\ (channel = 0 => returns = <<>> /\ wire = <<>>)
  /\ \A m \in Messages : confirmation[m] \in {"none", "ack", "nack"}
  /\ stored \subseteq Messages /\ returned \subseteq Messages
  /\ \A m \in Messages : result[m] \in {"none", "ok", "error", "unroutable", "refused"}

\* A caller told that its message was published has it in a queue: an ack alone
\* would not do, a message that could not be routed is acked too.
NilMeansStored == \A m \in Messages : result[m] = "ok" => m \in stored

\* A caller told that its message could not be routed got its own message back,
\* not that of an earlier publish that had timed out.
ReturnIsOwn == \A m \in Messages : result[m] = "unroutable" => m \in returned

\* Every publish ends, even with a broker that never answers.
PublishEnds == \A c \in Callers : call[c] # NoCall ~> call[c] = NoCall

\* What publish answers is true, whatever earlier publishes have left on the
\* channel.
PublisherInvariant == PublisherTypeOK /\ NilMeansStored /\ ReturnIsOwn
=============================================================================
