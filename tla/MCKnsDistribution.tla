------------------------- MODULE MCKnsDistribution -------------------------
(* KnsDistribution for TLC.  With statements of one wallet a chunk is the  *)
(* smallest the job can be split into, as 1000 is for a longer list.       *)
EXTENDS KnsDistribution, TLC

MCSymmetry == Permutations(Wallet) \union Permutations(Replica)
=============================================================================
