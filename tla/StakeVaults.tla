---------------------------- MODULE StakeVaults ----------------------------
(***************************************************************************)
(* The staking side of the KNS staking program: one time-locked stake per  *)
(* wallet, held in a vault of its own, and the running total of weighted   *)
(* stake that the off-chain reward engine divides by.                      *)
(***************************************************************************)
EXTENDS StakingConfig, Functions, FiniteSets

CONSTANTS
    MIN_STAKE,
    Amounts,       \* token amounts tried with stake and direct transfers
    InitialKns     \* KNS in the wallets' token accounts at the start

ASSUME StakeAssumption ==
    /\ IsFiniteSet(Wallet)
    /\ MIN_STAKE \in Nat \ {0}
    /\ Amounts \subseteq Nat
    /\ InitialKns \in [Wallet -> Nat]

VARIABLES
    user_stake,    \* the UserStake PDA of each wallet; NoStake when closed
    stake_vault,   \* balance of each wallet's stake_vault token account
    kns            \* balance of each wallet's own KNS token account

stakeOnlyVars == <<user_stake, stake_vault, kns>>
stakeVars == <<now, config, user_stake, stake_vault, kns>>

-----------------------------------------------------------------------------
LockTier == {"M1", "M3", "M6", "M12"}

LockDays == [M1 |-> 30, M3 |-> 90, M6 |-> 180, M12 |-> 365]

lock_seconds(lock) == LockDays[lock] * SECONDS_PER_DAY

lock_multiplier_bps ==
    [M1 |-> 10000, M3 |-> 15000, M6 |-> 20000, M12 |-> 30000]

weighted_amount(amount, multiplier_bps) == (amount * multiplier_bps) \div 10000

UserStake == [active : BOOLEAN, amount : Nat, lock : LockTier,
              start_ts : Nat, lock_end_ts : Nat, weighted_amount : Nat]

NoStake == [active |-> FALSE, amount |-> 0, lock |-> "M1",
            start_ts |-> 0, lock_end_ts |-> 0, weighted_amount |-> 0]

StakeInit ==
    /\ ConfigInit
    /\ user_stake = [w \in Wallet |-> NoStake]
    /\ stake_vault = [w \in Wallet |-> 0]
    /\ kns = InitialKns

(* The UserStake and the vault are created (init_if_needed) or reused, the *)
(* total is raised and the tokens are moved in one transaction.            *)
Stake(owner, amount, lock) ==
    LET weight == weighted_amount(amount, lock_multiplier_bps[lock])
    IN  /\ config.initialized
        /\ amount >= MIN_STAKE
        /\ ~config.paused_deposits
        /\ ~user_stake[owner].active
        /\ now + lock_seconds(lock) <= MAX_I64
        /\ kns[owner] >= amount
        /\ user_stake' = [user_stake EXCEPT ![owner] =
                            [active |-> TRUE, amount |-> amount, lock |-> lock,
                             start_ts |-> now,
                             lock_end_ts |-> now + lock_seconds(lock),
                             weighted_amount |-> weight]]
        /\ config' = [config EXCEPT !.total_weighted_stake = @ + weight]
        /\ kns' = [kns EXCEPT ![owner] = @ - amount]
        /\ stake_vault' = [stake_vault EXCEPT ![owner] = @ + amount]
        /\ UNCHANGED now

(* Mutant: the lock is not waited for.                                     *)
UnstakeReadyEarly(owner) ==
    LET s == user_stake[owner]
    IN  /\ config.initialized /\ s.active
        /\ s.weighted_amount <= config.total_weighted_stake
        /\ stake_vault[owner] = s.amount

(* What unstake requires, the token program's part included: the transfer  *)
(* out needs the balance, and close_account refuses a non-empty account.   *)
(* No pause flag is consulted.                                             *)
UnstakeReady(owner) ==
    LET s == user_stake[owner]
    IN  /\ config.initialized
        /\ s.active
        /\ now >= s.lock_end_ts
        /\ s.weighted_amount <= config.total_weighted_stake
        /\ stake_vault[owner] >= s.amount
        /\ stake_vault[owner] - s.amount = 0

(* Mutant: the UserStake account is not closed.                            *)
UnstakeKeepsAccount(owner) ==
    LET s == user_stake[owner]
    IN  /\ UnstakeReady(owner)
        /\ config' = [config EXCEPT !.total_weighted_stake
                                      = @ - s.weighted_amount]
        /\ kns' = [kns EXCEPT ![owner] = @ + s.amount]
        /\ stake_vault' = [stake_vault EXCEPT ![owner] = @ - s.amount]
        /\ UNCHANGED <<now, user_stake>>

(* Mutant: the owner is paid the weighted amount.                          *)
UnstakePaysWeight(owner) ==
    LET s == user_stake[owner]
    IN  /\ UnstakeReady(owner)
        /\ config' = [config EXCEPT !.total_weighted_stake
                                      = @ - s.weighted_amount]
        /\ kns' = [kns EXCEPT ![owner] = @ + s.weighted_amount]
        /\ stake_vault' = [stake_vault EXCEPT ![owner] = @ - s.amount]
        /\ user_stake' = [user_stake EXCEPT ![owner] = NoStake]
        /\ UNCHANGED now

Unstake(owner) ==
    LET s == user_stake[owner]
    IN  /\ UnstakeReady(owner)
        /\ config' = [config EXCEPT !.total_weighted_stake
                                      = @ - s.weighted_amount]
        /\ kns' = [kns EXCEPT ![owner] = @ + s.amount]
        /\ stake_vault' = [stake_vault EXCEPT ![owner] = @ - s.amount]
        /\ user_stake' = [user_stake EXCEPT ![owner] = NoStake]
        /\ UNCHANGED now

(* A plain token-program transfer into a stake vault, which no instruction *)
(* of the program sees.  The vault exists only while the stake does.       *)
TransferToStakeVault(from, owner, amount) ==
    /\ user_stake[owner].active
    /\ kns[from] >= amount
    /\ kns' = [kns EXCEPT ![from] = @ - amount]
    /\ stake_vault' = [stake_vault EXCEPT ![owner] = @ + amount]
    /\ UNCHANGED <<now, config, user_stake>>

StakeOps ==
    \/ \E w \in Wallet, a \in Amounts, l \in LockTier : Stake(w, a, l)
    \/ \E w \in Wallet : Unstake(w)
    \/ \E f, w \in Wallet, a \in Amounts : TransferToStakeVault(f, w, a)

StakeNext == StakeOps \/ (ConfigNext /\ UNCHANGED stakeOnlyVars)

StakeSpec == StakeInit /\ [][StakeNext]_stakeVars

-----------------------------------------------------------------------------
(* Every account holds what its Rust type allows.                          *)
StakeTypeOK ==
    /\ ConfigTypeOK
    /\ user_stake \in [Wallet -> UserStake]
    /\ stake_vault \in [Wallet -> Nat]
    /\ kns \in [Wallet -> Nat]

Weight == [w \in Wallet |-> user_stake[w].weighted_amount]

(* The running total in Config (lib.rs:82, :144) is exactly the sum of the *)
(* weights of the live stakes, after any history of stakes, unstakes,      *)
(* restakes and admin changes: the reward engine divides by it.            *)
WeightedTotalExact ==
    config.total_weighted_stake = SumFunctionOnSet(Weight, Wallet)

(* A vault always covers the stake it was opened for, and a wallet without *)
(* a stake has nothing left in its (closed) vault.                         *)
StakeBacked ==
    \A w \in Wallet :
        /\ stake_vault[w] >= user_stake[w].amount
        /\ ~user_stake[w].active => /\ user_stake[w] = NoStake
                                    /\ stake_vault[w] = 0

(* Staking moves KNS between accounts and neither mints nor loses any.     *)
KnsConserved ==
    SumFunctionOnSet(kns, Wallet) + SumFunctionOnSet(stake_vault, Wallet)
      = SumFunctionOnSet(InitialKns, Wallet)

(* A stake whose lock has expired can be withdrawn whatever the admin did  *)
(* in the meantime (pauses included): no checked subtraction and no token  *)
(* transfer stands in the way.  The only obstacle is a surplus somebody    *)
(* transferred into the vault, which makes close_account fail.             *)
ExpiredStakeWithdrawable ==
    \A w \in Wallet :
        /\ user_stake[w].active
        /\ now >= user_stake[w].start_ts + lock_seconds(user_stake[w].lock)
        /\ stake_vault[w] = user_stake[w].amount
        => UnstakeReady(w)

(* A stake ends only after the whole lock period of its tier, counted from *)
(* its own start, and then pays its whole amount back to its owner; while  *)
(* it lives its terms do not change.                                       *)
StakeHonoured(w) ==
    LET s == user_stake[w]
    IN  s.active =>
          \/ user_stake'[w] = s
          \/ /\ ~user_stake'[w].active
             /\ now >= s.start_ts + lock_seconds(s.lock)
             /\ kns'[w] = kns[w] + s.amount

LockHonoured == [][\A w \in Wallet : StakeHonoured(w)]_stakeVars
=============================================================================
