------------------------------- MODULE MCChat -------------------------------
(***************************************************************************)
(* Turns of one chat session, for TLC.  Two turns at the same time are     *)
(* explored with clients that stay, no faults and no deletion; what those  *)
(* do is explored with one turn at a time.                                 *)
(***************************************************************************)
EXTENDS ChatTurn

Together == \A t \in Turns : handler'[t] # "idle"
Quiet ==
  /\ faults' = 0 /\ deletion' = "none"
  /\ \A t \in Turns : client'[t] /\ sent'[t] <= 1

MCNext == Next /\ (Together /\ Cardinality(Turns) > 1 => Quiet)
MCSpec == Init /\ [][MCNext]_vars /\ Fairness
=============================================================================
