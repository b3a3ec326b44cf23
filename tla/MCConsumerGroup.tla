-------------------------- MODULE MCConsumerGroup ---------------------------
(***************************************************************************)
(* Instances of ConsumerGroup for TLC; the bounds are in the cfgs.         *)
(***************************************************************************)
EXTENDS ConsumerGroup, TLC

CONSTANTS w1, w2, h1, h2

OneHandler == h1 :> w1
OneWorker  == h1 :> w1 @@ h2 :> w1
=============================================================================
