---------------------------- MODULE MCScheduler -----------------------------
(***************************************************************************)
(* Instances of Scheduler for TLC: timer t fires at every multiple of t,   *)
(* so timer 1 fires every unit of time and timer 2 every other.            *)
(***************************************************************************)
EXTENDS Scheduler, TLC

CONSTANTS c1, c2, s1, s2

Periodic(t, x) == (x \div t + 1) * t

AnyRequest == [policy : Policies \cup {""}, max_catch_up : {0, 1}]

\* One slot of a timer at a time, and the others wait.
CatchUpSlowly == {[policy |-> "CATCH_UP", max_catch_up |-> 1]}

Replicas == Permutations(Schedulers) \cup Permutations(Clients)
=============================================================================
