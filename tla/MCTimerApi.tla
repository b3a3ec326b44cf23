----------------------------- MODULE MCTimerApi -----------------------------
(***************************************************************************)
(* Instances of TimerApi for TLC.                                          *)
(***************************************************************************)
EXTENDS TimerApi, TLC

CONSTANTS t1, t2, c1, c2

AnyOrder == Permutations({t1, t2}) \cup Permutations({c1, c2})
=============================================================================
