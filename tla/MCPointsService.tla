-------------------------- MODULE MCPointsService --------------------------
(* Three swaps for TLC: one of $1.99, and two of $7, over the daily cap,    *)
(* one of which failed on chain.                                            *)
EXTENDS PointsService, TLC

CONSTANTS small, large, failed

MCCents == [s \in Signature |-> IF s = small THEN 199 ELSE 700]
Requests == Permutations(Call)
=============================================================================
