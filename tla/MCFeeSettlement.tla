-------------------------- MODULE MCFeeSettlement --------------------------
(* Shares of the README's default split, a split that rounds on every      *)
(* total, and one that does not add up; bumps as the runtime finds them.   *)
EXTENDS FeeSettlement

CONSTANTS owner, squad, wallet, usd

Shares(c, r, p, s) == [t \in WalletType |-> <<c, r, p, s>>[t + 1]]
MCAllocations == {Shares(2500, 2500, 2500, 2500), Shares(3333, 3333, 3333, 1),
                  Shares(2500, 2500, 2500, 2501)}
MCBump == [m \in Mint |-> 255]
MCTotals == 0 .. 7
=============================================================================
