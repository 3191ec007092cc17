----------------------------- MODULE Migration -----------------------------
(***************************************************************************)
(* Server and worker processes that bring the schema up to date when they  *)
(* start: one transaction under an advisory lock runs every migration that *)
(* has no record.  Processes of two releases may start at the same time;   *)
(* the files of the older one are a part of those of the newer one.        *)
(***************************************************************************)
EXTENDS Integers, Sequences, SequencesExt, Faults

CONSTANTS
  Starters,            \* processes that start
  Listings             \* migration versions as fs.Glob lists them

ASSUME MigrationAssumption == "free" \notin Starters /\ \A l \in Listings : l \in Seq(Nat)

VARIABLES
  files,               \* [Starters -> the listing embedded in the program]
  lock,                \* holder of pg_advisory_xact_lock, or "free"
  executed,            \* committed: versions in the order their SQL ran
  starter              \* [Starters -> Run under way]

migrationVars == <<files, lock, executed, starter, faults>>

\* "ran" is what the open transaction has run.
Fresh == [at |-> "discover", todo |-> <<>>, ran |-> <<>>]
Ended == {"done", "failed"}

MigrationInit ==
  /\ files \in [Starters -> Listings]
  /\ lock = "free" /\ executed = <<>>
  /\ starter = [p \in Starters |-> Fresh]
  /\ FaultInit

Waiting(p, at) == starter[p].at = at
GoOn(p, at) == starter' = [starter EXCEPT ![p].at = at]

\* Mutated: the order of the names.
AsListed(l) == l
SortFiles(l) ==
  CHOOSE q \in SetToSeqs(ToSet(l)) : \A i, j \in DOMAIN q : i < j => q[i] < q[j]

\* Two files of one version are refused before anything is done.
Discover(p) ==
  /\ Waiting(p, "discover")
  /\ IF Cardinality(ToSet(files[p])) < Len(files[p])
     THEN GoOn(p, "failed")
     ELSE starter' = [starter EXCEPT ![p].at = "lock", ![p].todo = SortFiles(files[p])]
  /\ UNCHANGED <<files, lock, executed, faults>>

\* Mutated: nobody waits.
NoLock(p) == lock' = lock
AcquireLock(p) == lock = "free" /\ lock' = p

BeginMigrations(p) ==
  /\ Waiting(p, "lock") /\ AcquireLock(p)
  /\ GoOn(p, "apply")
  /\ UNCHANGED <<files, executed, faults>>

Release(p) == lock' = IF lock = p THEN "free" ELSE lock

\* Mutated: records are not looked up.
AlwaysPending(p, v) == TRUE
Pending(p, v) == v \notin ToSet(executed)

\* A migration recorded by somebody else since fails on the record's key.
Apply(p) ==
  /\ Waiting(p, "apply") /\ starter[p].todo # <<>>
  /\ LET v == Head(starter[p].todo)
     IN  starter' = [starter EXCEPT ![p].todo = Tail(@),
           ![p].ran = IF Pending(p, v) THEN Append(@, v) ELSE @]
  /\ UNCHANGED <<files, lock, executed, faults>>

\* Mutated: what has been run before a failure stays.
PartKept(p) == executed' = executed \o starter[p].ran
Rollback(p) == executed' = executed

Commit(p) ==
  /\ Waiting(p, "apply") /\ starter[p].todo = <<>>
  /\ Release(p)
  /\ IF ToSet(starter[p].ran) \cap ToSet(executed) = {}
     THEN executed' = executed \o starter[p].ran /\ GoOn(p, "done")
     ELSE Rollback(p) /\ GoOn(p, "failed")
  /\ UNCHANGED <<files, faults>>

\* A statement fails, or the process dies: the transaction is rolled back and
\* its lock released; the process is started again.
Interrupted(p) ==
  /\ starter[p].at \in {"lock", "apply"}
  /\ Fault("db") \/ Fault("crash")
  /\ Rollback(p) /\ Release(p)
  /\ starter' = [starter EXCEPT ![p] = Fresh]
  /\ UNCHANGED files

Run(p) == Discover(p) \/ BeginMigrations(p) \/ Apply(p) \/ Commit(p)

MigrationNext == \E p \in Starters : Run(p) \/ Interrupted(p)

\* A process that is not stopped goes on; the lock is granted in turn.
MigrationFairness == \A p \in Starters : SF_migrationVars(Run(p))

MigrationSpec == MigrationInit /\ [][MigrationNext]_migrationVars /\ MigrationFairness

-----------------------------------------------------------------------------
(* Properties.                                                             *)

\* Types; nobody runs a migration without the lock.
MigrationTypeOK ==
  /\ lock \in Starters \cup {"free"}
  /\ \A p \in Starters : starter[p].at \in {"discover", "lock", "apply"} \cup Ended
  /\ \A p \in Starters : Waiting(p, "apply") => lock = p

\* The schema moves from one complete release to another: after every commit
\* the migrations that ran are those of the releases that have started.
WholeReleases ==
  ToSet(executed) = UNION {ToSet(files[p]) : p \in {q \in Starters : Waiting(q, "done")}}

\* The migrations of one release run in ascending order, whatever the order of
\* their names and however many processes start with it.
Ascending ==
  (\A p, q \in Starters : files[p] = files[q]) =>
    \A i, j \in DOMAIN executed : i < j => executed[i] < executed[j]

\* Starting together hurts nobody: a start fails only on its own files, and
\* every start ends.
StartsSucceed ==
  \A p \in Starters :
    <>(starter[p].at = IF Cardinality(ToSet(files[p])) < Len(files[p]) THEN "failed" ELSE "done")

\* The schema is at a release at any time, reached in the order of versions.
MigrationInvariant == MigrationTypeOK /\ WholeReleases /\ Ascending
=============================================================================
