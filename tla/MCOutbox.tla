------------------------------ MODULE MCOutbox ------------------------------
(***************************************************************************)
(* Instances of Outbox for TLC; the bounds of each run are in its cfg.     *)
(***************************************************************************)
EXTENDS Outbox

CONSTANTS d1, d2
=============================================================================
