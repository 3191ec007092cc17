------------------------- MODULE OutboxRelay_proofs -------------------------
(***************************************************************************)
(* Safety of the outbox relay for any number of relays, events and faults. *)
(***************************************************************************)
EXTENDS OutboxRelay, FiniteSetTheorems, TLAPS

USE RelayAssumption DEF NoRelay, NoToken

-----------------------------------------------------------------------------
(* The initial state.                                                      *)

\* The relay starts in the invariant: all rows are absent, all relays poll.
LEMMA InitInvariant == Init => RelayInvariant
BY DEF Init, RelayInvariant, TypeOK, JobsRecorded, TokensFresh, LocksHeld, ClaimsCounted,
       ConfirmedDelivered, PublishedWasDelivered, LatestClaimInForce, Engaged, Working,
       Statuses, Points

-----------------------------------------------------------------------------
(* Every step preserves every part of it.                                  *)

\* Types and the lease columns: a row has a token exactly while it is claimed.
LEMMA TypeStep == RelayInvariant /\ [Next]_vars => TypeOK'
<1> SUFFICES ASSUME RelayInvariant, [Next]_vars PROVE TypeOK'
  OBVIOUS
<1> USE DEF RelayInvariant, TypeOK, Statuses, Points, table, memory, Goto, Fault
<1>1. ASSUME NEW e \in Events, Record(e) PROVE TypeOK'
  BY <1>1 DEF Record
<1>2. ASSUME NEW e \in Events, Clock(e) PROVE TypeOK'
  <2>1. CASE LeaseExpires(e) /\ HolderAlive(e)
    BY <2>1 DEF LeaseExpires
  <2>2. CASE LeaseExpires(e) /\ ~HolderAlive(e)
    BY <2>2 DEF LeaseExpires
  <2>3. CASE BackoffElapses(e)
    BY <2>3 DEF BackoffElapses
  <2> QED
    BY <1>2, <2>1, <2>2, <2>3 DEF Clock
<1>3. ASSUME NEW r \in Relays, RelayStep(r) PROVE TypeOK'
  <2>1. CASE Select(r)
    BY <2>1 DEF Select, Selectable, NextAttempt
  <2>2. CASE CommitClaim(r)
    BY <2>2 DEF CommitClaim, JobsRecorded, Engaged
  <2>3. CASE FindNothing(r) \/ Wake(r) \/ Restart(r)
    BY <2>3 DEF FindNothing, Wake, Restart
  <2>4. CASE PublishConfirmed(r)
    <3>1. job[r] \in Events
      BY <2>4 DEF PublishConfirmed, JobsRecorded, Engaged, Working
    <3>2. copies' = [copies EXCEPT ![job[r]] = copies[job[r]] + 1]
      BY <2>4 DEF PublishConfirmed, Accept
    <3>3. copies[job[r]] + 1 \in Nat
      BY <3>1
    <3>4. copies' \in [Events -> Nat]
      BY <3>1, <3>2, <3>3
    <3> QED
      BY <2>4, <3>4 DEF PublishConfirmed
  <2>5. CASE PublishUnconfirmed(r)
    <3>1. job[r] \in Events
      BY <2>5 DEF PublishUnconfirmed, JobsRecorded, Engaged, Working
    <3>2. copies' = [copies EXCEPT ![job[r]] = copies[job[r]] + 1]
      BY <2>5 DEF PublishUnconfirmed, Accept
    <3>3. copies[job[r]] + 1 \in Nat
      BY <3>1
    <3>4. copies' \in [Events -> Nat]
      BY <3>1, <3>2, <3>3
    <3> QED
      BY <2>5, <3>4 DEF PublishUnconfirmed
  <2>6. CASE PublishRefused(r)
    BY <2>6 DEF PublishRefused
  <2>7. CASE FinishPublished(r)
    BY <2>7 DEF FinishPublished, ClearLease, JobsRecorded, Engaged, Working
  <2>8. CASE FinishRetry(r)
    BY <2>8 DEF FinishRetry, ClearLease, JobsRecorded, Engaged, Working
  <2>9. CASE FinishLate(r)
    BY <2>9 DEF FinishLate
  <2>10. CASE Cleanup(r)
    BY <2>10 DEF Cleanup
  <2>11. CASE Crash(r)
    BY <2>11 DEF Crash
  <2> QED
    BY <1>3, <2>1, <2>2, <2>3, <2>4, <2>5, <2>6, <2>7, <2>8, <2>9, <2>10, <2>11
    DEF RelayStep, RelayWork
<1>4. CASE UNCHANGED vars
  BY <1>4 DEF vars
<1> QED
  BY <1>1, <1>2, <1>3, <1>4 DEF Next

\* Engaged relays keep a recorded event and their token.
LEMMA JobsStep == RelayInvariant /\ [Next]_vars => JobsRecorded'
<1> SUFFICES ASSUME RelayInvariant, [Next]_vars PROVE JobsRecorded'
  OBVIOUS
<1> USE DEF RelayInvariant, TypeOK, Statuses, Points, table, memory, Goto, Fault,
            JobsRecorded, Engaged, Working
<1>1. ASSUME NEW e \in Events, Record(e) PROVE JobsRecorded'
  BY <1>1 DEF Record
<1>2. ASSUME NEW e \in Events, Clock(e) PROVE JobsRecorded'
  BY <1>2 DEF Clock, LeaseExpires, BackoffElapses
<1>3. ASSUME NEW r \in Relays, RelayStep(r) PROVE JobsRecorded'
  <2>1. CASE Select(r)
    BY <2>1 DEF Select, Selectable, Due
  <2>2. CASE CommitClaim(r)
    BY <2>2 DEF CommitClaim
  <2>3. CASE FindNothing(r) \/ Wake(r) \/ Restart(r) \/ FinishLate(r)
    BY <2>3 DEF FindNothing, Wake, Restart, FinishLate
  <2>4. CASE PublishConfirmed(r) \/ PublishUnconfirmed(r) \/ PublishRefused(r)
    BY <2>4 DEF PublishConfirmed, PublishUnconfirmed, PublishRefused
  <2>5. CASE FinishPublished(r)
    BY <2>5 DEF FinishPublished
  <2>6. CASE FinishRetry(r)
    BY <2>6 DEF FinishRetry
  <2>7. CASE Cleanup(r)
    BY <2>7 DEF Cleanup
  <2>8. CASE Crash(r)
    BY <2>8 DEF Crash
  <2> QED
    BY <1>3, <2>1, <2>2, <2>3, <2>4, <2>5, <2>6, <2>7, <2>8 DEF RelayStep, RelayWork
<1>4. CASE UNCHANGED vars
  BY <1>4 DEF vars
<1> QED
  BY <1>1, <1>2, <1>3, <1>4 DEF Next

\* Only Select makes a token, and only CommitClaim and the finishes store one.
LEMMA TokensStep == RelayInvariant /\ [Next]_vars => TokensFresh'
<1> SUFFICES ASSUME RelayInvariant, [Next]_vars PROVE TokensFresh'
  OBVIOUS
<1> USE DEF RelayInvariant, TypeOK, table, memory, TokensFresh
<1>1. ASSUME NEW e \in Events, Record(e) \/ Clock(e) PROVE TokensFresh'
  BY <1>1 DEF Record, Clock, LeaseExpires, BackoffElapses
<1>2. ASSUME NEW r \in Relays, RelayStep(r) PROVE TokensFresh'
  <2>1. CASE Select(r)
    BY <2>1 DEF Select
  <2>2. CASE CommitClaim(r)
    BY <2>2 DEF CommitClaim
  <2>3. CASE FinishPublished(r) \/ FinishRetry(r)
    BY <2>3 DEF FinishPublished, FinishRetry, ClearLease
  <2>4. CASE \/ FindNothing(r) \/ Wake(r) \/ Restart(r) \/ FinishLate(r) \/ Cleanup(r)
             \/ PublishConfirmed(r) \/ PublishUnconfirmed(r) \/ PublishRefused(r) \/ Crash(r)
    BY <2>4 DEF FindNothing, Wake, Restart, FinishLate, Cleanup, PublishConfirmed,
                PublishUnconfirmed, PublishRefused, Crash
  <2> QED
    BY <1>2, <2>1, <2>2, <2>3, <2>4 DEF RelayStep, RelayWork
<1>3. CASE UNCHANGED vars
  BY <1>3 DEF vars
<1> QED
  BY <1>1, <1>2, <1>3 DEF Next

\* A locked row does not change under the transaction that locked it.
LEMMA LocksStep == RelayInvariant /\ [Next]_vars => LocksHeld'
<1> SUFFICES ASSUME RelayInvariant, [Next]_vars PROVE LocksHeld'
  OBVIOUS
<1> USE DEF RelayInvariant, TypeOK, table, memory, Goto, Fault, LocksHeld, JobsRecorded, Engaged
<1>1. ASSUME NEW e \in Events, Record(e) PROVE LocksHeld'
  BY <1>1 DEF Record
<1>2. ASSUME NEW e \in Events, Clock(e) PROVE LocksHeld'
  BY <1>2 DEF Clock, LeaseExpires, BackoffElapses
<1>3. ASSUME NEW r \in Relays, RelayStep(r) PROVE LocksHeld'
  <2>1. CASE Select(r)
    BY <2>1 DEF Select, Selectable, Due, NextAttempt
  <2>2. CASE CommitClaim(r)
    <3>1. job[r] \in Events /\ rowLock[job[r]] = r
      BY <2>2 DEF CommitClaim
    <3>2. ASSUME NEW s \in Relays, pc'[s] = "locked"
          PROVE /\ rowLock'[job'[s]] = s
                /\ status'[job'[s]] \in {"pending", "processing"}
                /\ claimNo'[s] = attempts'[job'[s]] + 1
      <4>1. s # r /\ pc[s] = "locked"
        BY <2>2, <3>2 DEF CommitClaim
      <4>2. job[s] \in Events /\ job[s] # job[r]
        BY <3>1, <4>1
      <4> QED
        BY <2>2, <3>1, <4>1, <4>2 DEF CommitClaim
    <3>3. ASSUME NEW e \in Events, NEW s \in Relays, rowLock'[e] = s
          PROVE pc'[s] = "locked" /\ job'[s] = e
      BY <2>2, <3>1, <3>3 DEF CommitClaim
    <3> QED
      BY <3>2, <3>3
  <2>3. CASE FindNothing(r) \/ Wake(r) \/ Restart(r) \/ FinishLate(r)
    BY <2>3 DEF FindNothing, Wake, Restart, FinishLate
  <2>4. CASE PublishConfirmed(r) \/ PublishUnconfirmed(r) \/ PublishRefused(r)
    BY <2>4 DEF PublishConfirmed, PublishUnconfirmed, PublishRefused
  <2>5. CASE FinishPublished(r)
    BY <2>5 DEF FinishPublished, RowFree
  <2>6. CASE FinishRetry(r)
    <3>1. /\ job[r] \in Events /\ rowLock[job[r]] = NoRelay
          /\ pc[r] = "rejected" /\ pc' = [pc EXCEPT ![r] = "down"]
          /\ status' = [status EXCEPT ![job[r]] = "pending"]
          /\ UNCHANGED <<attempts, rowLock, memory>>
      BY <2>6 DEF FinishRetry, RowFree, Working
    <3>2. ASSUME NEW s \in Relays, pc'[s] = "locked"
          PROVE s # r /\ pc[s] = "locked" /\ job[s] # job[r]
      BY <3>1, <3>2
    <3> QED
      BY <3>1, <3>2
  <2>7. CASE Cleanup(r)
    BY <2>7 DEF Cleanup
  <2>8. CASE Crash(r)
    BY <2>8 DEF Crash
  <2> QED
    BY <1>3, <2>1, <2>2, <2>3, <2>4, <2>5, <2>6, <2>7, <2>8 DEF RelayStep, RelayWork
<1>4. CASE UNCHANGED vars
  BY <1>4 DEF vars
<1> QED
  BY <1>1, <1>2, <1>3, <1>4 DEF Next

\* publish_attempts never falls below the number of a claim.
LEMMA ClaimsStep == RelayInvariant /\ [Next]_vars => ClaimsCounted'
<1> SUFFICES ASSUME RelayInvariant, [Next]_vars PROVE ClaimsCounted'
  OBVIOUS
<1> USE DEF RelayInvariant, TypeOK, table, memory, Goto, ClaimsCounted, Working
<1>1. ASSUME NEW e \in Events, Record(e) \/ Clock(e) PROVE ClaimsCounted'
  BY <1>1 DEF Record, Clock, LeaseExpires, BackoffElapses
<1>2. ASSUME NEW r \in Relays, RelayStep(r) PROVE ClaimsCounted'
  <2>1. CASE Select(r)
    BY <2>1 DEF Select
  <2>2. CASE CommitClaim(r)
    <3>1. job[r] \in Events /\ claimNo[r] = attempts[job[r]] + 1
      BY <2>2 DEF CommitClaim, LocksHeld, JobsRecorded, Engaged
    <3>2. \A e \in Events : attempts[e] <= attempts'[e]
      BY <2>2, <3>1 DEF CommitClaim
    <3>3. ASSUME NEW s \in Relays, Working(s)' PROVE claimNo'[s] <= attempts'[job'[s]]
      <4>1. CASE s = r
        BY <2>2, <3>1, <4>1 DEF CommitClaim
      <4>2. CASE s # r
        <5>1. Working(s) /\ job'[s] = job[s] /\ claimNo'[s] = claimNo[s]
          BY <2>2, <3>3, <4>2 DEF CommitClaim
        <5>2. job[s] \in Events /\ claimNo[s] <= attempts[job[s]]
          BY <5>1 DEF JobsRecorded, Engaged
        <5>3. attempts[job[s]] <= attempts'[job[s]] /\ attempts'[job[s]] \in Nat
          BY <3>1, <3>2, <5>2, <2>2 DEF CommitClaim
        <5> QED
          BY <5>1, <5>2, <5>3
      <4> QED
        BY <4>1, <4>2
    <3> QED
      BY <3>3
  <2>3. CASE \/ FindNothing(r) \/ Wake(r) \/ Restart(r) \/ Cleanup(r) \/ Crash(r)
             \/ FinishLate(r) \/ FinishPublished(r) \/ FinishRetry(r)
    BY <2>3 DEF FindNothing, Wake, Restart, Cleanup, Crash, FinishLate, FinishPublished,
                FinishRetry
  <2>4. CASE PublishConfirmed(r) \/ PublishUnconfirmed(r) \/ PublishRefused(r)
    BY <2>4 DEF PublishConfirmed, PublishUnconfirmed, PublishRefused
  <2> QED
    BY <1>2, <2>1, <2>2, <2>3, <2>4 DEF RelayStep, RelayWork
<1>3. CASE UNCHANGED vars
  BY <1>3 DEF vars
<1> QED
  BY <1>1, <1>2, <1>3 DEF Next

\* A confirmed publish, and so a published row, has a copy in the broker.
LEMMA DeliveredStep ==
  RelayInvariant /\ [Next]_vars => ConfirmedDelivered' /\ PublishedWasDelivered'
<1> SUFFICES ASSUME RelayInvariant, [Next]_vars
             PROVE ConfirmedDelivered' /\ PublishedWasDelivered'
  OBVIOUS
<1> USE DEF RelayInvariant, TypeOK, table, memory, Goto, ConfirmedDelivered, PublishedWasDelivered
<1>1. ASSUME NEW e \in Events, Record(e) \/ Clock(e)
      PROVE ConfirmedDelivered' /\ PublishedWasDelivered'
  BY <1>1 DEF Record, Clock, LeaseExpires, BackoffElapses
<1>2. ASSUME NEW r \in Relays, RelayStep(r)
      PROVE ConfirmedDelivered' /\ PublishedWasDelivered'
  <2> USE DEF JobsRecorded, Engaged, Working
  <2>1. CASE Select(r)
    BY <2>1 DEF Select
  <2>2. CASE CommitClaim(r)
    BY <2>2 DEF CommitClaim
  <2>3. CASE \/ FindNothing(r) \/ Wake(r) \/ Restart(r) \/ Crash(r) \/ FinishLate(r)
             \/ PublishRefused(r)
    BY <2>3 DEF FindNothing, Wake, Restart, Crash, FinishLate, PublishRefused
  <2>4. CASE PublishConfirmed(r) \/ PublishUnconfirmed(r)
    <3>1. /\ job[r] \in Events
          /\ copies' = [copies EXCEPT ![job[r]] = copies[job[r]] + 1]
          /\ UNCHANGED <<status, job>>
          /\ \A s \in Relays \ {r} : pc'[s] = pc[s]
      BY <2>4 DEF PublishConfirmed, PublishUnconfirmed, Accept
    <3>2. \A e \in Events : copies[e] > 0 => copies'[e] > 0
      BY <3>1
    <3>3. copies'[job[r]] > 0
      BY <3>1
    <3> QED
      BY <3>1, <3>2, <3>3
  <2>5. CASE FinishPublished(r) \/ FinishRetry(r)
    BY <2>5 DEF FinishPublished, FinishRetry
  <2>6. CASE Cleanup(r)
    BY <2>6 DEF Cleanup
  <2> QED
    BY <1>2, <2>1, <2>2, <2>3, <2>4, <2>5, <2>6 DEF RelayStep, RelayWork
<1>3. CASE UNCHANGED vars
  BY <1>3 DEF vars
<1> QED
  BY <1>1, <1>2, <1>3 DEF Next

\* A claim stays in force: another claim takes a higher number, and a finish
\* needs the token of the claim.
LEMMA LatestStep == RelayInvariant /\ [Next]_vars => LatestClaimInForce'
<1> SUFFICES ASSUME RelayInvariant, [Next]_vars PROVE LatestClaimInForce'
  OBVIOUS
<1> USE DEF RelayInvariant, TypeOK, table, memory, Goto, LatestClaimInForce, Working,
            JobsRecorded, Engaged
<1>1. ASSUME NEW e \in Events, Record(e) PROVE LatestClaimInForce'
  BY <1>1 DEF Record
<1>2. ASSUME NEW e \in Events, Clock(e) PROVE LatestClaimInForce'
  BY <1>2 DEF Clock, LeaseExpires, BackoffElapses
<1>3. ASSUME NEW r \in Relays, RelayStep(r) PROVE LatestClaimInForce'
  <2>1. CASE Select(r)
    BY <2>1 DEF Select
  <2>2. CASE CommitClaim(r)
    <3>1. job[r] \in Events /\ claimNo[r] = attempts[job[r]] + 1
      BY <2>2 DEF CommitClaim, LocksHeld
    <3>2. ASSUME NEW s \in Relays, Working(s)', claimNo'[s] = attempts'[job'[s]]
          PROVE status'[job'[s]] = "processing" /\ leaseToken'[job'[s]] = token'[s]
      <4>1. CASE s = r
        BY <2>2, <3>1, <4>1 DEF CommitClaim
      <4>2. CASE s # r
        <5>1. /\ Working(s) /\ job[s] \in Events
              /\ job'[s] = job[s] /\ claimNo'[s] = claimNo[s] /\ token'[s] = token[s]
          BY <2>2, <3>2, <4>2 DEF CommitClaim
        <5>2. claimNo[s] <= attempts[job[s]]
          BY <5>1 DEF ClaimsCounted
        <5>3. job[s] # job[r]
          <6>1. attempts'[job[r]] = attempts[job[r]] + 1
            BY <2>2, <3>1 DEF CommitClaim
          <6>2. attempts[job[r]] \in Nat /\ claimNo[s] \in Nat
            BY <3>1
          <6> QED
            BY <3>2, <5>1, <5>2, <6>1, <6>2
        <5> QED
          BY <2>2, <3>1, <3>2, <5>1, <5>3 DEF CommitClaim
      <4> QED
        BY <4>1, <4>2
    <3> QED
      BY <3>2
  <2>3. CASE FindNothing(r) \/ Wake(r) \/ Restart(r) \/ Crash(r) \/ FinishLate(r)
    BY <2>3 DEF FindNothing, Wake, Restart, Crash, FinishLate
  <2>4. CASE PublishConfirmed(r) \/ PublishUnconfirmed(r) \/ PublishRefused(r)
    BY <2>4 DEF PublishConfirmed, PublishUnconfirmed, PublishRefused
  <2>5. CASE FinishPublished(r) \/ FinishRetry(r)
    <3>1. /\ job[r] \in Events /\ leaseToken[job[r]] = token[r] /\ token[r] # NoToken
          /\ ~Working(r)'
          /\ \A s \in Relays \ {r} : pc'[s] = pc[s]
          /\ \A e \in Events \ {job[r]} :
               status'[e] = status[e] /\ leaseToken'[e] = leaseToken[e]
          /\ UNCHANGED <<attempts, job, claimNo, token>>
      BY <2>5 DEF FinishPublished, FinishRetry, HoldsLease, ClearLease
    <3>2. ASSUME NEW s \in Relays, Working(s)', claimNo'[s] = attempts'[job'[s]]
          PROVE status'[job'[s]] = "processing" /\ leaseToken'[job'[s]] = token'[s]
      <4>1. s # r /\ Working(s) /\ job[s] \in Events /\ leaseToken[job[s]] = token[s]
        BY <3>1, <3>2
      <4>2. job[s] # job[r]
        BY <3>1, <4>1 DEF TokensFresh
      <4> QED
        BY <3>1, <3>2, <4>1, <4>2
    <3> QED
      BY <3>2
  <2>6. CASE Cleanup(r)
    BY <2>6 DEF Cleanup
  <2> QED
    BY <1>3, <2>1, <2>2, <2>3, <2>4, <2>5, <2>6 DEF RelayStep, RelayWork
<1>4. CASE UNCHANGED vars
  BY <1>4 DEF vars
<1> QED
  BY <1>1, <1>2, <1>3, <1>4 DEF Next

-----------------------------------------------------------------------------
(* The theorems.                                                           *)

\* The invariant that carries all the others holds in every behaviour.
THEOREM Invariance == SafeSpec => []RelayInvariant
<1>1. RelayInvariant /\ [Next]_vars => RelayInvariant'
  BY TypeStep, JobsStep, TokensStep, LocksStep, ClaimsStep, DeliveredStep, LatestStep
  DEF RelayInvariant
<1> QED
  BY InitInvariant, <1>1, PTL DEF SafeSpec

\* Variables keep their types, and the lease columns follow the status.
THEOREM TypeCorrect == SafeSpec => []TypeOK
BY Invariance, PTL DEF RelayInvariant

\* Nothing is marked published, or cleaned up, before the broker has it.
THEOREM PublishedAfterDelivery == SafeSpec => []PublishedWasDelivered
BY Invariance, PTL DEF RelayInvariant

\* An overtaken relay cannot touch the claim that overtook it.
THEOREM LatestClaimProtected == SafeSpec => []LatestClaimInForce
BY Invariance, PTL DEF RelayInvariant

\* A published row is never published again by a later claim.
THEOREM PublishedStays == SafeSpec => PublishedIsFinal
<1>1. RelayInvariant /\ [Next]_vars => [\A e \in Events : StaysPublished(e)]_vars
  <2> SUFFICES ASSUME RelayInvariant, [Next]_vars, NEW e \in Events PROVE StaysPublished(e)
    OBVIOUS
  <2> USE DEF RelayInvariant, TypeOK, table, StaysPublished
  <2>1. ASSUME NEW f \in Events, Record(f) \/ Clock(f) PROVE StaysPublished(e)
    BY <2>1 DEF Record, Clock, LeaseExpires, BackoffElapses
  <2>2. ASSUME NEW r \in Relays, RelayStep(r) PROVE StaysPublished(e)
    <3>1. CASE CommitClaim(r)
      BY <3>1 DEF CommitClaim, LocksHeld
    <3>2. CASE FinishPublished(r) \/ FinishRetry(r)
      BY <3>2 DEF FinishPublished, FinishRetry, HoldsLease
    <3>3. CASE Cleanup(r)
      BY <3>3 DEF Cleanup
    <3>4. CASE \/ Select(r) \/ FindNothing(r) \/ Wake(r) \/ Restart(r) \/ Crash(r)
               \/ PublishConfirmed(r) \/ PublishUnconfirmed(r) \/ PublishRefused(r)
               \/ FinishLate(r)
      BY <3>4 DEF Select, FindNothing, Wake, Restart, Crash, PublishConfirmed,
                  PublishUnconfirmed, PublishRefused, FinishLate
    <3> QED
      BY <2>2, <3>1, <3>2, <3>3, <3>4 DEF RelayStep, RelayWork
  <2>3. CASE UNCHANGED vars
    BY <2>3 DEF vars
  <2> QED
    BY <2>1, <2>2, <2>3 DEF Next
<1> QED
  BY Invariance, <1>1, PTL DEF SafeSpec, PublishedIsFinal

-----------------------------------------------------------------------------
(* Counting copies.                                                        *)

\* A set of relays can be counted.
LEMMA RelaySetFinite ==
  ASSUME NEW S \in SUBSET Relays
  PROVE  IsFiniteSet(S) /\ Cardinality(S) \in Nat
BY FS_Subset, FS_CardinalityType DEF RelayAssumption

\* A claim brings its own attempt, and a copy uses up its claim.
LEMMA CoverStep ==
  RelayInvariant /\ AttemptsCover /\ [Next]_vars => AttemptsCover'
<1> SUFFICES ASSUME RelayInvariant, AttemptsCover, [Next]_vars, NEW e \in Events
             PROVE  copies'[e] + Cardinality(Claimants(e)') <= attempts'[e]
  BY DEF AttemptsCover
<1> DEFINE Before == Claimants(e)
           After == Claimants(e)'
<1>1. Before \in SUBSET Relays /\ After \in SUBSET Relays
  BY DEF Claimants
<1>2. /\ IsFiniteSet(Before) /\ IsFiniteSet(After)
      /\ Cardinality(Before) \in Nat /\ Cardinality(After) \in Nat
  BY <1>1, RelaySetFinite
<1>3. copies[e] \in Nat /\ attempts[e] \in Nat /\ copies[e] + Cardinality(Before) <= attempts[e]
  BY DEF AttemptsCover, RelayInvariant, TypeOK
<1>4. ASSUME After \subseteq Before, copies'[e] = copies[e], attempts'[e] = attempts[e]
      PROVE  copies'[e] + Cardinality(After) <= attempts'[e]
  <2>1. Cardinality(After) <= Cardinality(Before)
    BY <1>2, <1>4, FS_Subset
  <2> HIDE DEF Before, After
  <2> QED
    BY <1>2, <1>3, <1>4, <2>1
<1> USE DEF RelayInvariant, TypeOK, Points, table, memory, Goto, Claimants
<1>5. ASSUME NEW f \in Events, Record(f) \/ Clock(f)
      PROVE  copies'[e] + Cardinality(After) <= attempts'[e]
  BY <1>4, <1>5 DEF Record, Clock, LeaseExpires, BackoffElapses
<1>6. ASSUME NEW r \in Relays, RelayStep(r)
      PROVE  copies'[e] + Cardinality(After) <= attempts'[e]
  <2>1. CASE CommitClaim(r) /\ job[r] = e
    <3>1. After = Before \cup {r} /\ r \notin Before /\ copies'[e] = copies[e]
      BY <2>1 DEF CommitClaim
    <3>2. attempts'[e] = attempts[e] + 1
      BY <2>1 DEF CommitClaim, LocksHeld
    <3>3. Cardinality(After) = Cardinality(Before) + 1
      BY <1>2, <3>1, FS_AddElement
    <3> HIDE DEF Before, After
    <3> QED
      BY <1>2, <1>3, <3>1, <3>2, <3>3
  <2>2. CASE CommitClaim(r) /\ job[r] # e
    <3>1. job[r] \in Events /\ attempts' = [attempts EXCEPT ![job[r]] = claimNo[r]]
      BY <2>2 DEF CommitClaim, JobsRecorded, Engaged
    <3>2. attempts'[e] = attempts[e]
      BY <2>2, <3>1
    <3> QED
      BY <1>4, <2>2, <3>2 DEF CommitClaim
  <2>3. CASE (PublishConfirmed(r) \/ PublishUnconfirmed(r)) /\ job[r] = e
    <3>1. After = Before \ {r} /\ r \in Before /\ attempts'[e] = attempts[e]
      BY <2>3 DEF PublishConfirmed, PublishUnconfirmed
    <3>2. copies'[e] = copies[e] + 1
      BY <2>3 DEF PublishConfirmed, PublishUnconfirmed, Accept
    <3>3. Cardinality(After) = Cardinality(Before) - 1
      BY <1>2, <3>1, FS_RemoveElement
    <3> HIDE DEF Before, After
    <3> QED
      BY <1>2, <1>3, <3>1, <3>2, <3>3
  <2>4. CASE (PublishConfirmed(r) \/ PublishUnconfirmed(r)) /\ job[r] # e
    <3>1. copies'[e] = copies[e]
      BY <2>4 DEF PublishConfirmed, PublishUnconfirmed, Accept
    <3> QED
      BY <1>4, <2>4, <3>1 DEF PublishConfirmed, PublishUnconfirmed
  <2>5. CASE Select(r)
    BY <1>4, <2>5 DEF Select
  <2>6. CASE FinishPublished(r) \/ FinishRetry(r) \/ FinishLate(r)
    BY <1>4, <2>6 DEF FinishPublished, FinishRetry, FinishLate
  <2>7. CASE \/ FindNothing(r) \/ Wake(r) \/ Restart(r) \/ Crash(r) \/ Cleanup(r)
             \/ PublishRefused(r)
    BY <1>4, <2>7 DEF FindNothing, Wake, Restart, Crash, Cleanup, PublishRefused
  <2> QED
    BY <1>6, <2>1, <2>2, <2>3, <2>4, <2>5, <2>6, <2>7 DEF RelayStep, RelayWork
<1>7. CASE UNCHANGED vars
  BY <1>4, <1>7 DEF vars
<1> QED
  BY <1>5, <1>6, <1>7 DEF Next

\* The broker never holds more copies of an event than the row counts attempts.
THEOREM CopiesBounded == SafeSpec => []CopiesWithinAttempts
<1>1. Init => AttemptsCover
  <2>1. Init => \A e \in Events : Claimants(e) = {}
    BY DEF Init, Claimants
  <2> QED
    BY <2>1, FS_EmptySet DEF Init, AttemptsCover
<1>2. RelayInvariant /\ AttemptsCover => CopiesWithinAttempts
  <2> SUFFICES ASSUME RelayInvariant, AttemptsCover, NEW e \in Events
               PROVE  copies[e] <= attempts[e]
    BY DEF CopiesWithinAttempts
  <2>1. copies[e] \in Nat /\ attempts[e] \in Nat
    BY DEF RelayInvariant, TypeOK
  <2>2. Cardinality(Claimants(e)) \in Nat
    BY RelaySetFinite DEF Claimants
  <2> QED
    BY <2>1, <2>2 DEF AttemptsCover
<1> QED
  BY Invariance, CoverStep, <1>1, <1>2, PTL DEF SafeSpec

-----------------------------------------------------------------------------
(* Implementing the at-least-once channel.                                 *)

\* Every behaviour of the relay is one of the channel: a business transaction
\* records, a publish delivers, and all the rest is invisible.
THEOREM ImplementsSafeChannel == SafeSpec => Channel!SafeSpec
<1> DEFINE Recorded == {e \in Events : status[e] # "absent"}
<1>1. Init => Channel!Init
  BY DEF Init, Channel!Init
<1>2. RelayInvariant /\ [Next]_vars => [Channel!Next]_Channel!channel
  <2> SUFFICES ASSUME RelayInvariant, [Next]_vars
               PROVE Channel!Next \/ UNCHANGED <<Recorded, copies>>
    BY DEF Channel!channel
  <2> USE DEF RelayInvariant, TypeOK, table
  <2>1. ASSUME NEW e \in Events, Record(e) PROVE Channel!Next
    <3>1. Channel!Record(e)
      BY <2>1 DEF Record, Channel!Record
    <3> QED
      BY <3>1 DEF Channel!Next
  <2>2. ASSUME NEW e \in Events, Clock(e) PROVE UNCHANGED <<Recorded, copies>>
    BY <2>2 DEF Clock, LeaseExpires, BackoffElapses
  <2>3. ASSUME NEW r \in Relays, RelayStep(r)
        PROVE Channel!Next \/ UNCHANGED <<Recorded, copies>>
    <3>1. CASE PublishConfirmed(r) \/ PublishUnconfirmed(r)
      <4>1. job[r] \in Events /\ status[job[r]] # "absent"
        BY <3>1 DEF PublishConfirmed, PublishUnconfirmed, JobsRecorded, Engaged, Working
      <4>2. Channel!Deliver(job[r])
        BY <3>1, <4>1 DEF PublishConfirmed, PublishUnconfirmed, Accept, Channel!Deliver
      <4> QED
        BY <4>1, <4>2 DEF Channel!Next
    <3>2. CASE CommitClaim(r)
      BY <3>2 DEF CommitClaim, LocksHeld
    <3>3. CASE FinishPublished(r) \/ FinishRetry(r)
      BY <3>3 DEF FinishPublished, FinishRetry, HoldsLease
    <3>4. CASE Cleanup(r)
      BY <3>4 DEF Cleanup
    <3>5. CASE \/ Select(r) \/ FindNothing(r) \/ Wake(r) \/ Restart(r) \/ Crash(r)
               \/ PublishRefused(r) \/ FinishLate(r)
      BY <3>5 DEF Select, FindNothing, Wake, Restart, Crash, PublishRefused, FinishLate
    <3> QED
      BY <2>3, <3>1, <3>2, <3>3, <3>4, <3>5 DEF RelayStep, RelayWork
  <2>4. CASE UNCHANGED vars
    BY <2>4 DEF vars
  <2> QED
    BY <2>1, <2>2, <2>3, <2>4 DEF Next
<1> QED
  BY Invariance, <1>1, <1>2, PTL DEF SafeSpec, Channel!SafeSpec
=============================================================================
