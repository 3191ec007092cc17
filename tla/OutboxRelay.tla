---------------------------- MODULE OutboxRelay ----------------------------
(***************************************************************************)
(* The askbase-relay process: several replicas poll t_outbox, claim one    *)
(* event in a short transaction (SELECT ... FOR UPDATE SKIP LOCKED, then   *)
(* UPDATE), publish it to RabbitMQ outside the transaction, and write the  *)
(* outcome back under the lease token of the claim.                        *)
(*                                                                         *)
(* Time is abstracted to what the SQL conditions read: whether             *)
(* next_attempt_at has passed (due) and whether lease_until has passed     *)
(* (leaseOver).  A lease that runs out while its holder is still working   *)
(* is a fault (the lease, 30 s, outlasts the confirm timeout, 5 s, unless  *)
(* the process stalls), as is a crash or a publish that is not confirmed;  *)
(* MaxFaults bounds their number.                                          *)
(***************************************************************************)
EXTENDS Naturals, FiniteSets

CONSTANTS
  Relays,              \* relay processes
  Events,              \* outbox row ids, ordered as numbers
  MaxFaults            \* bound on crashes, stalls and failed publishes

ASSUME EventAssumption == Events \subseteq Nat

ASSUME RelayAssumption ==
  /\ IsFiniteSet(Relays)
  /\ 0 \notin Relays
  /\ MaxFaults \in Nat

VARIABLES
  status,              \* status[e]: "absent", a t_outbox status, or "deleted"
  due,                 \* due[e]: next_attempt_at <= now
  leaseOver,           \* leaseOver[e]: lease_until <= now
  leaseToken,          \* leaseToken[e]: token of the current claim, 0 for NULL
  attempts,            \* attempts[e]: publish_attempts
  rowLock,             \* rowLock[e]: relay whose transaction locks the row, or 0
  pc,                  \* control point of each relay
  job,                 \* job[r]: the event relay r has selected
  claimNo,             \* claimNo[r]: event.PublishAttempts in r's memory
  token,               \* token[r]: lease token r generated for this round
  lastToken,           \* tokens handed out so far (uuid.NewString)
  copies,              \* copies[e]: messages accepted by the broker
  faults               \* faults so far

table == <<status, due, leaseOver, leaseToken, attempts>>
memory == <<job, claimNo, token>>
vars == <<table, rowLock, pc, memory, lastToken, copies, faults>>

Statuses == {"absent", "pending", "processing", "published", "deleted"}
Points == {"down", "poll", "locked", "claimed", "confirmed", "rejected", "idle"}
NoRelay == 0
NoToken == 0

Init ==
  /\ status = [e \in Events |-> "absent"]
  /\ due = [e \in Events |-> FALSE]
  /\ leaseOver = [e \in Events |-> FALSE]
  /\ leaseToken = [e \in Events |-> NoToken]
  /\ attempts = [e \in Events |-> 0]
  /\ rowLock = [e \in Events |-> NoRelay]
  /\ pc = [r \in Relays |-> "poll"]
  /\ job = [r \in Relays |-> 0]
  /\ claimNo = [r \in Relays |-> 0]
  /\ token = [r \in Relays |-> NoToken]
  /\ lastToken = 0
  /\ copies = [e \in Events |-> 0]
  /\ faults = 0

\* A relay that has committed its claim and not yet reported.
Working(r) == pc[r] \in {"claimed", "confirmed", "rejected"}

Goto(r, point) == pc' = [pc EXCEPT ![r] = point]

Fault == faults < MaxFaults /\ faults' = faults + 1

-----------------------------------------------------------------------------
(* The API side: OutboxRepository.Create inside the business transaction.  *)

Record(e) ==
  /\ status[e] = "absent"
  /\ status' = [status EXCEPT ![e] = "pending"]
  /\ due' = [due EXCEPT ![e] = TRUE]
  /\ UNCHANGED <<leaseOver, leaseToken, attempts, rowLock, pc, memory, lastToken, copies, faults>>

-----------------------------------------------------------------------------
(* Claiming.                                                               *)

\* Variant of Due that forgets the expired leases.
DuePendingOnly(e) == status[e] = "pending" /\ due[e]

\* The WHERE clause of LockNextDue.
Due(e) ==
  \/ status[e] = "pending" /\ due[e]
  \/ status[e] = "processing" /\ leaseOver[e]

\* Rows a new transaction may select: SKIP LOCKED passes over locked ones.
Selectable == {e \in Events : Due(e) /\ rowLock[e] = NoRelay}

\* Variant of NextAttempt with the increment dropped.
NextAttemptSame(e) == attempts[e]

\* event.PublishAttempts++ in the claim transaction.
NextAttempt(e) == attempts[e] + 1

\* LockNextDue takes the smallest selectable id and locks its row; the token
\* of the round was generated just before.
Select(r) ==
  /\ pc[r] = "poll"
  /\ \E e \in Selectable :
       /\ \A f \in Selectable : e <= f
       /\ rowLock' = [rowLock EXCEPT ![e] = r]
       /\ job' = [job EXCEPT ![r] = e]
       /\ claimNo' = [claimNo EXCEPT ![r] = NextAttempt(e)]
  /\ lastToken' = lastToken + 1
  /\ token' = [token EXCEPT ![r] = lastToken + 1]
  /\ Goto(r, "locked")
  /\ UNCHANGED <<table, copies, faults>>

\* The claim transaction writes the lease and commits, releasing the row.
CommitClaim(r) ==
  /\ pc[r] = "locked"
  /\ LET e == job[r] IN
       /\ status' = [status EXCEPT ![e] = "processing"]
       /\ attempts' = [attempts EXCEPT ![e] = claimNo[r]]
       /\ leaseToken' = [leaseToken EXCEPT ![e] = token[r]]
       /\ leaseOver' = [leaseOver EXCEPT ![e] = FALSE]
       /\ rowLock' = [rowLock EXCEPT ![e] = NoRelay]
  /\ Goto(r, "claimed")
  /\ UNCHANGED <<due, memory, lastToken, copies, faults>>

\* Nothing to publish: Run waits for its tickers.
FindNothing(r) ==
  /\ pc[r] = "poll"
  /\ Selectable = {}
  /\ Goto(r, "idle")
  /\ UNCHANGED <<table, rowLock, memory, lastToken, copies, faults>>

\* The poll ticker fires.
Wake(r) ==
  /\ pc[r] = "idle"
  /\ Goto(r, "poll")
  /\ UNCHANGED <<table, rowLock, memory, lastToken, copies, faults>>

\* The cleanup ticker fires: DeletePublishedBefore removes the published rows
\* older than the retention, whichever those are.
Cleanup(r) ==
  /\ pc[r] = "idle"
  /\ \E old \in SUBSET {e \in Events : status[e] = "published"} :
       status' = [e \in Events |-> IF e \in old THEN "deleted" ELSE status[e]]
  /\ Goto(r, "poll")
  /\ UNCHANGED <<due, leaseOver, leaseToken, attempts, rowLock, memory, lastToken, copies, faults>>

-----------------------------------------------------------------------------
(* Publishing with confirms, outside any transaction.                      *)

Accept(e) == copies' = [copies EXCEPT ![e] = @ + 1]

PublishConfirmed(r) ==
  /\ pc[r] = "claimed"
  /\ Accept(job[r])
  /\ Goto(r, "confirmed")
  /\ UNCHANGED <<table, rowLock, memory, lastToken, faults>>

\* Timeout or a broken connection: the broker has the message, the relay sees
\* an error.
PublishUnconfirmed(r) ==
  /\ pc[r] = "claimed"
  /\ Fault
  /\ Accept(job[r])
  /\ Goto(r, "rejected")
  /\ UNCHANGED <<table, rowLock, memory, lastToken>>

\* Nack, basic.return, or no channel at all: the broker has nothing.
PublishRefused(r) ==
  /\ pc[r] = "claimed"
  /\ Fault
  /\ Goto(r, "rejected")
  /\ UNCHANGED <<table, rowLock, memory, lastToken, copies>>

-----------------------------------------------------------------------------
(* Writing the outcome back: finishClaim.                                  *)

\* Variants of HoldsLease: the token condition dropped, both dropped.
HoldsAnyLease(r) == status[job[r]] = "processing"

HoldsNothing(r) == r \in Relays

\* The WHERE clause of finishClaim.
HoldsLease(r) ==
  /\ status[job[r]] = "processing"
  /\ leaseToken[job[r]] = token[r]

\* The UPDATE waits for a concurrent claim of the row to commit.
RowFree(r) == rowLock[job[r]] = NoRelay

\* Variant of ClearLease that leaves the lease columns as they are.
KeepLease(e) ==
  /\ e \in Events
  /\ UNCHANGED <<leaseToken, leaseOver>>

ClearLease(e) ==
  /\ leaseToken' = [leaseToken EXCEPT ![e] = NoToken]
  /\ leaseOver' = [leaseOver EXCEPT ![e] = FALSE]

\* Variant of FinishPublished that ignores the publish error.
FinishRegardless(r) ==
  /\ pc[r] \in {"confirmed", "rejected"} /\ RowFree(r) /\ HoldsLease(r)
  /\ status' = [status EXCEPT ![job[r]] = "published"]
  /\ ClearLease(job[r])
  /\ Goto(r, "poll")
  /\ UNCHANGED <<due, attempts, rowLock, memory, lastToken, copies, faults>>

FinishPublished(r) ==
  /\ pc[r] = "confirmed" /\ RowFree(r) /\ HoldsLease(r)
  /\ status' = [status EXCEPT ![job[r]] = "published"]
  /\ ClearLease(job[r])
  /\ Goto(r, "poll")
  /\ UNCHANGED <<due, attempts, rowLock, memory, lastToken, copies, faults>>

\* Variant of FinishRetry that settles the row although the publish failed.
FinishRetryAsPublished(r) ==
  /\ pc[r] = "rejected" /\ RowFree(r) /\ HoldsLease(r)
  /\ status' = [status EXCEPT ![job[r]] = "published"]
  /\ ClearLease(job[r])
  /\ Goto(r, "down")
  /\ UNCHANGED <<due, attempts, rowLock, memory, lastToken, copies, faults>>

\* A failed publish goes back to pending with a backoff, and Run returns so
\* that the process manager rebuilds the RabbitMQ connection.
FinishRetry(r) ==
  /\ pc[r] = "rejected" /\ RowFree(r) /\ HoldsLease(r)
  /\ status' = [status EXCEPT ![job[r]] = "pending"]
  /\ due' = [due EXCEPT ![job[r]] = FALSE]
  /\ ClearLease(job[r])
  /\ Goto(r, "down")
  /\ UNCHANGED <<attempts, rowLock, memory, lastToken, copies, faults>>

\* The lease was taken over: no row matches, Run returns the error.
FinishLate(r) ==
  /\ pc[r] \in {"confirmed", "rejected"} /\ RowFree(r) /\ ~HoldsLease(r)
  /\ Goto(r, "down")
  /\ UNCHANGED <<table, rowLock, memory, lastToken, copies, faults>>

-----------------------------------------------------------------------------
(* Environment.                                                            *)

\* A crash, a shutdown, or a database error, which also ends Run: an open
\* transaction is rolled back.
Crash(r) ==
  /\ pc[r] # "down"
  /\ Fault
  /\ rowLock' = [e \in Events |-> IF rowLock[e] = r THEN NoRelay ELSE rowLock[e]]
  /\ Goto(r, "down")
  /\ UNCHANGED <<table, memory, lastToken, copies>>

Restart(r) ==
  /\ pc[r] = "down"
  /\ Goto(r, "poll")
  /\ UNCHANGED <<table, rowLock, memory, lastToken, copies, faults>>

\* Some live relay is still working under the row's current token.
HolderAlive(e) ==
  \E r \in Relays : Working(r) /\ job[r] = e /\ token[r] = leaseToken[e]

LeaseExpires(e) ==
  /\ status[e] = "processing" /\ ~leaseOver[e]
  /\ leaseOver' = [leaseOver EXCEPT ![e] = TRUE]
  /\ IF HolderAlive(e) THEN Fault ELSE UNCHANGED faults
  /\ UNCHANGED <<status, due, leaseToken, attempts, rowLock, pc, memory, lastToken, copies>>

BackoffElapses(e) ==
  /\ status[e] = "pending" /\ ~due[e]
  /\ due' = [due EXCEPT ![e] = TRUE]
  /\ UNCHANGED <<status, leaseOver, leaseToken, attempts, rowLock, pc, memory, lastToken, copies, faults>>

-----------------------------------------------------------------------------
RelayWork(r) ==
  \/ Select(r) \/ CommitClaim(r) \/ FindNothing(r) \/ Wake(r)
  \/ PublishConfirmed(r)
  \/ FinishPublished(r) \/ FinishRetry(r) \/ FinishLate(r)
  \/ Restart(r)

RelayStep(r) ==
  RelayWork(r) \/ Cleanup(r) \/ PublishUnconfirmed(r) \/ PublishRefused(r) \/ Crash(r)

Clock(e) == LeaseExpires(e) \/ BackoffElapses(e)

Next ==
  \/ \E e \in Events : Record(e) \/ Clock(e)
  \/ \E r \in Relays : RelayStep(r)

\* The poll loop never stops by itself, a manager restarts dead relays, and
\* time passes.  Nothing makes users record events or relays fail.
Fairness ==
  /\ \A r \in Relays : WF_vars(RelayWork(r))
  /\ \A e \in Events : WF_vars(Clock(e))

SafeSpec == Init /\ [][Next]_vars
Spec == SafeSpec /\ Fairness

-----------------------------------------------------------------------------
(* Properties.                                                             *)

\* Types, and the lease columns of a row are set exactly while it is claimed.
TypeOK ==
  /\ status \in [Events -> Statuses]
  /\ due \in [Events -> BOOLEAN]
  /\ leaseOver \in [Events -> BOOLEAN]
  /\ leaseToken \in [Events -> Nat]
  /\ attempts \in [Events -> Nat]
  /\ rowLock \in [Events -> Relays \cup {NoRelay}]
  /\ pc \in [Relays -> Points]
  /\ job \in [Relays -> Events \cup {0}]
  /\ claimNo \in [Relays -> Nat]
  /\ token \in [Relays -> Nat]
  /\ lastToken \in Nat
  /\ copies \in [Events -> Nat]
  /\ faults \in 0..MaxFaults
  /\ \A e \in Events : leaseToken[e] # NoToken <=> status[e] = "processing"

\* An event marked published, or removed by the cleanup, has reached the
\* broker: neither crashes, nor lost confirms, nor late outcomes of an older
\* claim may mark it before the broker has it (Relay.processNext).
PublishedWasDelivered ==
  \A e \in Events : status[e] \in {"published", "deleted"} => copies[e] > 0

\* Every copy in the broker is accounted for by one claim of the row, so
\* publish_attempts bounds the duplicates a consumer can see.
CopiesWithinAttempts ==
  \A e \in Events : copies[e] <= attempts[e]

\* The latest claim of a row stays in force until its owner reports: a relay
\* that was overtaken can neither settle nor reopen the row of the new owner
\* (the token condition of finishClaim).
LatestClaimInForce ==
  \A r \in Relays :
    Working(r) /\ claimNo[r] = attempts[job[r]] =>
      status[job[r]] = "processing" /\ leaseToken[job[r]] = token[r]

\* A published event is never put back into circulation.
StaysPublished(e) ==
  status[e] \in {"published", "deleted"} => status'[e] \in {"published", "deleted"}

PublishedIsFinal == [][\A e \in Events : StaysPublished(e)]_vars

\* Every recorded event is eventually published, whatever crashes, stalls and
\* lost confirms happen on the way, as long as they stop.
EventuallyPublished ==
  \A e \in Events : status[e] # "absent" ~> status[e] \in {"published", "deleted"}

\* The relay implements the at-least-once channel.
Channel == INSTANCE AtLeastOnce WITH
             recorded <- {e \in Events : status[e] # "absent"}

ImplementsChannel == Channel!Spec

-----------------------------------------------------------------------------
(* The inductive invariant behind the safety properties.                   *)

Engaged(r) == pc[r] = "locked" \/ Working(r)

\* An engaged relay works on a recorded event under a token of its own.
JobsRecorded ==
  \A r \in Relays : Engaged(r) =>
    /\ job[r] \in Events
    /\ status[job[r]] # "absent"
    /\ token[r] # NoToken

\* Tokens are handed out once.
TokensFresh ==
  /\ \A r \in Relays : token[r] <= lastToken
  /\ \A e \in Events : leaseToken[e] <= lastToken
  /\ \A r, s \in Relays : token[r] = token[s] /\ token[r] # NoToken => r = s

\* A row lock belongs to the transaction that is claiming the row, and what
\* that transaction has read is still what the row says.
LocksHeld ==
  /\ \A r \in Relays : pc[r] = "locked" =>
       /\ rowLock[job[r]] = r
       /\ status[job[r]] \in {"pending", "processing"}
       /\ claimNo[r] = attempts[job[r]] + 1
  /\ \A e \in Events : \A r \in Relays :
       rowLock[e] = r => pc[r] = "locked" /\ job[r] = e

ClaimsCounted ==
  \A r \in Relays : Working(r) => claimNo[r] <= attempts[job[r]]

ConfirmedDelivered ==
  \A r \in Relays : pc[r] = "confirmed" => copies[job[r]] > 0

\* Relays whose claim of e has not been published yet, and with them the count
\* behind CopiesWithinAttempts: each of them has an attempt to its name.
Claimants(e) == {r \in Relays : pc[r] = "claimed" /\ job[r] = e}

AttemptsCover == \A e \in Events : copies[e] + Cardinality(Claimants(e)) <= attempts[e]

\* The strengthening that every step preserves: who holds which lock, lease
\* and token, besides the properties themselves.
RelayInvariant ==
  /\ TypeOK
  /\ JobsRecorded
  /\ TokensFresh
  /\ LocksHeld
  /\ ClaimsCounted
  /\ ConfirmedDelivered
  /\ PublishedWasDelivered
  /\ LatestClaimInForce
=============================================================================
