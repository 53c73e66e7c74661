--------------------------- MODULE MCStakeVaults ---------------------------
(* StakeVaults for TLC: two wallets with a few indivisible token units, a  *)
(* day of one second, and clock readings at, before and after lock ends.   *)
EXTENDS StakeVaults, TLC

MCPeriodDays == {-7, 7}
MCTimes == {0, 30, 89, 90, 365}
MCInitialKns == [w \in Wallet |-> 4]
MCSymmetry == Permutations(Wallet)
=============================================================================
