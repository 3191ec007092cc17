---------------------------- MODULE AtLeastOnce ----------------------------
(***************************************************************************)
(* What the transactional outbox promises to the rest of AskBase: an event *)
(* recorded in the same transaction as the business row reaches the broker *)
(* at least once, possibly several times, and never out of thin air.       *)
(* OutboxRelay implements it; TaskQueue is built on it.                    *)
(***************************************************************************)
EXTENDS Naturals

CONSTANT Events        \* outbox events that may ever be recorded

VARIABLES
  recorded,            \* events whose transaction has committed
  copies               \* copies[e]: messages the broker has accepted for e

channel == <<recorded, copies>>

Init ==
  /\ recorded = {}
  /\ copies = [e \in Events |-> 0]

\* The business transaction commits together with its event.
Record(e) ==
  /\ e \in Events \ recorded
  /\ recorded' = recorded \cup {e}
  /\ UNCHANGED copies

\* The broker accepts one more copy of a recorded event.
Deliver(e) ==
  /\ e \in recorded
  /\ copies' = [copies EXCEPT ![e] = @ + 1]
  /\ UNCHANGED recorded

Next == \E e \in Events : Record(e) \/ Deliver(e)

FirstDelivery(e) == copies[e] = 0 /\ Deliver(e)

Fairness == \A e \in Events : WF_channel(FirstDelivery(e))

SafeSpec == Init /\ [][Next]_channel
Spec == SafeSpec /\ Fairness
=============================================================================
