--------------------------- MODULE MCRewardEpochs ---------------------------
(* RewardEpochs for TLC: two wallets; a root that shares the reward out    *)
(* exactly, one that promises more than the reward and holds two leaves    *)
(* for one wallet; leaves below the minimum claim and of another epoch.    *)
EXTENDS RewardEpochs

CONSTANTS w1, w2

L(e, w, a) == compute_leaf(e, w, a)

ExactRoot == {L(1, w1, 2), L(1, w2, 2), L(2, w1, 3)}
OverRoot  == {L(1, w1, 2), L(1, w1, 3), L(1, w2, 2), L(2, w2, 1)}
MCRoots == {ExactRoot, OverRoot}

MCPeriodDays == {-7, 7, 30}
MCTimes == {0, 6, 7, 14}
MCInitialUsdc == [w \in Wallet |-> 4]
=============================================================================
