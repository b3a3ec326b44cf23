------------------------------ MODULE MCWorker ------------------------------
(***************************************************************************)
(* Instances of Worker for TLC.  Time is counted in units of the lease TTL *)
(* or less; the bounds of each run are in its cfg.                         *)
(***************************************************************************)
EXTENDS Worker, TLC

CONSTANTS w1, w2, h1, h2, t1, t2, t3

\* Two goroutines of one pool, which write the same lease_owner; and two pools
\* of one goroutine each.
OwnersTogether == h1 :> w1 @@ h2 :> w1
OwnersApart    == h1 :> w1 @@ h2 :> w2

DueAtOne == [e \in Executions |-> 1]

\* Tokens can change places, and so can goroutines of one pool.
TokenSymmetry == Permutations(RunTokens)
PoolSymmetry  == {t @@ h : t \in TokenSymmetry, h \in Permutations(Handlers)}
=============================================================================
