------------------------------- MODULE Faults -------------------------------
(***************************************************************************)
(* The failures the environment may inject, as a budget: FaultKinds says   *)
(* which kinds a model allows and MaxFaults how many in a behaviour.       *)
(*   "db"       a query fails with a transient error                       *)
(*   "io"       object storage, a parser service or a model fails          *)
(*   "publish"  PublishRetry reports an error                              *)
(*   "channel"  the consumer channel closes under a running handler        *)
(*   "crash"    a process dies, or is shut down                            *)
(*   "conn"     PostgreSQL drops the connection that carries the lock      *)
(***************************************************************************)
EXTENDS Naturals

CONSTANTS FaultKinds, MaxFaults

AllFaultKinds == {"db", "io", "publish", "channel", "crash", "conn"}

ASSUME FaultAssumption ==
  /\ FaultKinds \subseteq AllFaultKinds
  /\ MaxFaults \in Nat

VARIABLE faults

FaultInit == faults = 0

Fault(kind) ==
  /\ kind \in FaultKinds
  /\ faults < MaxFaults
  /\ faults' = faults + 1

NoFault == UNCHANGED faults
=============================================================================
