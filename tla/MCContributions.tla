-------------------------- MODULE MCContributions --------------------------
(* Contributions for TLC: one category, two links, awards of which two     *)
(* exceed the weekly cap and one the range, swaps that make the share cap  *)
(* bite.                                                                   *)
EXTENDS Contributions, TLC

MCLimits == [g \in {"video"} |-> 1]
Requests == Permutations(Call)
=============================================================================
