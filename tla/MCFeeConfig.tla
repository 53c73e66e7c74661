---------------------------- MODULE MCFeeConfig ----------------------------
(* FeeConfig for TLC: two ways to move portions that only fail together,   *)
(* two base fees, a wallet, and a tier whose discount is changed.          *)
EXTENDS FeeConfig, TLC

CONSTANTS r1, r2

Portions(c, k, r, s) ==
    [charityPortion |-> c, kindswapPortion |-> k, rebatePortion |-> r, stakingPortion |-> s]

MCConfig == Portions(5, 10, 3, 2) @@ [baseFeeBps |-> 10, wallets |-> 1]
MCTier == [t \in Tier |-> [discountPercent |-> 20 * (t - 1), isActive |-> 1,
                           effectiveFeeBps |-> 10 * (100 - 20 * (t - 1))]]
MCDefault == Portions(5, 10, 3, 2) @@ [baseFeeBps |-> 10, wallets |-> 0]
MCDefaultTiers == [t \in Tier |-> [discountPercent |-> 10 * t, isActive |-> 1,
                                   effectiveFeeBps |-> 10 * (100 - 10 * t)]]

MCConfigChanges == {[charityPortion |-> 10, kindswapPortion |-> 5],
                    [kindswapPortion |-> 9, stakingPortion |-> 3],
                    [baseFeeBps |-> 20], [wallets |-> 2]}
MCReads == {<<r1, "fee_configuration">>, <<r2, "fee_tiers">>}
MCTierChanges == {[discountPercent |-> 10]}
=============================================================================
