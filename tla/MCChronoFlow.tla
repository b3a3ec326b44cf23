---------------------------- MODULE MCChronoFlow ----------------------------
(***************************************************************************)
(* Instances of ChronoFlow for TLC; the bounds of each run are in its cfg. *)
(***************************************************************************)
EXTENDS ChronoFlow

CONSTANTS e1, h1, h2, m1

\* Everything goes wrong and the reconciler helps; or nobody helps, with clocks
\* that agree and a Stream that keeps its messages.
AidedAndUnaided ==
    {[recovery |-> TRUE,  skew |-> TRUE,  trims |-> TRUE],
     [recovery |-> FALSE, skew |-> FALSE, trims |-> FALSE]}
=============================================================================
