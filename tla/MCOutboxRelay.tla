--------------------------- MODULE MCOutboxRelay ---------------------------
(***************************************************************************)
(* An instance of OutboxRelay for TLC: two relays and two events.          *)
(***************************************************************************)
EXTENDS OutboxRelay

CONSTANTS r1, r2        \* the relays
=============================================================================
