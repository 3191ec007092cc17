----------------------------- MODULE ParseTask -----------------------------
(***************************************************************************)
(* The vocabulary every part of the ingestion pipeline shares: parse       *)
(* versions and the message that carries one attempt at one version.       *)
(***************************************************************************)
EXTENDS Naturals

CONSTANTS
  MaxVersion,          \* bound on parse_version
  MaxDeliveries        \* queue.maxDeliveries, defaulted to 5 when not positive

ASSUME TaskAssumption ==
  /\ MaxVersion \in Nat \ {0}
  /\ MaxDeliveries \in Nat \ {0}

Versions == 1..MaxVersion

\* model.DocumentParseEvent: parse version and business attempt.
Message == [ver : Versions, att : 1..MaxDeliveries]

\* createParseOutbox sets attempt 1.
FirstMessage(v) == [ver |-> v, att |-> 1]

\* The retry of a message, with the penalty of one attempt.
NextAttempt(m) == [m EXCEPT !.att = @ + 1]

\* Consumer.process: an error that costs an attempt ends the task.
Exhausted(m) == m.att >= MaxDeliveries
=============================================================================
