----------------------------- MODULE MCServices -----------------------------
(***************************************************************************)
(* The requests of the web process that work on accounts and on a user's   *)
(* catalog, for TLC.  The two have no state in common here, so a behaviour *)
(* is about one of them; requests are interchangeable.                     *)
(***************************************************************************)
EXTENDS Accounts, Catalog, TLC

VARIABLE part

accountState == <<service, visit, visits, spent, crossed>>
catalogState == <<data, request, begun, raced>>
allVars == <<part, accountState, catalogState, faults>>

MCInit ==
  /\ part \in {"accounts", "catalog"}
  /\ AccountsInit /\ Init
  /\ part = "catalog" => ~prod /\ ~turnstile

MCNext ==
  \/ part = "accounts" /\ AccountsNext /\ UNCHANGED <<part, catalogState>>
  \/ part = "catalog" /\ Next /\ UNCHANGED <<part, accountState>>

MCSpec == MCInit /\ [][MCNext]_allVars

Symmetry == Permutations(Slots)
=============================================================================
