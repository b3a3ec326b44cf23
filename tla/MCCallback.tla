----------------------------- MODULE MCCallback -----------------------------
(***************************************************************************)
(* Instances of Callback for TLC; bodies at and around the limit.          *)
(***************************************************************************)
EXTENDS Callback
=============================================================================
