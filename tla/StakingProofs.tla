--------------------------- MODULE StakingProofs ---------------------------
(***************************************************************************)
(* The safety of the staking program for every set of wallets and epochs,  *)
(* every amount, lock period and root, and every clock: first what its two *)
(* halves share, then the stakes, then the rewards.                        *)
(***************************************************************************)
EXTENDS StakeVaults, RewardEpochs, SumTheorems

(* The administrative instructions keep the configuration well formed, and *)
(* the program stays initialized.                                          *)
LEMMA ConfigTypeStep ==
  ASSUME ConfigTypeOK, ConfigNext
  PROVE  ConfigTypeOK' /\ (config.initialized => config'.initialized)
<1> USE ConfigAssumption DEF ConfigTypeOK, Config
<1>1. CASE \E w, t \in Wallet : Initialize(w, t)
  BY <1>1 DEF Initialize
<1>2. CASE \E w \in Wallet, d, c \in BOOLEAN : SetPause(w, d, c)
  BY <1>2 DEF SetPause
<1>3. CASE \E w, n \in Wallet : TransferAdmin(w, n)
  BY <1>3 DEF TransferAdmin
<1>4. CASE \E w \in Wallet, days \in PeriodDays :
             UpdateDistributionPeriod(w, days)
  <2>1. PICK w \in Wallet, days \in PeriodDays :
               UpdateDistributionPeriod(w, days)
    BY <1>4
  <2>2. days \in Nat /\ SECONDS_PER_DAY \in Nat
    BY <2>1 DEF UpdateDistributionPeriod
  <2>3. days * SECONDS_PER_DAY \in Nat
    BY <2>2
  <2>4. QED
    BY <2>1, <2>3 DEF UpdateDistributionPeriod
<1>5. CASE Tick
  BY <1>5 DEF Tick
<1>6. QED
  BY <1>1, <1>2, <1>3, <1>4, <1>5 DEF ConfigNext

-----------------------------------------------------------------------------
(* Stakes. *)
(* What the properties need to be inductive: a live stake belongs to an    *)
(* initialized program and its lock_end_ts is the end of its tier's lock.  *)
StakeTerms ==
    \A w \in Wallet :
        user_stake[w].active =>
            /\ config.initialized
            /\ user_stake[w].lock_end_ts
                 = user_stake[w].start_ts + lock_seconds(user_stake[w].lock)

StakeInv ==
    /\ StakeTypeOK
    /\ StakeTerms
    /\ StakeBacked
    /\ WeightedTotalExact
    /\ KnsConserved

-----------------------------------------------------------------------------
(* The lock period of a tier is a natural number of seconds.               *)
LEMMA LockSecondsType ==
  ASSUME NEW l \in LockTier PROVE lock_seconds(l) \in Nat
<1>1. SECONDS_PER_DAY \in Nat
  BY ConfigAssumption
<1>2. LockDays[l] \in {30, 90, 180, 365}
  BY DEF LockTier, LockDays
<1>3. QED
  BY <1>1, <1>2 DEF lock_seconds

(* The weight of an amount is a natural number.                            *)
LEMMA WeightType ==
  ASSUME NEW amount \in Nat, NEW l \in LockTier
  PROVE  weighted_amount(amount, lock_multiplier_bps[l]) \in Nat
<1>1. lock_multiplier_bps[l] \in {10000, 15000, 20000, 30000}
  BY DEF LockTier, lock_multiplier_bps
<1>2. QED
  BY <1>1 DEF weighted_amount

(* NoStake is a well-formed account.                                       *)
LEMMA NoStakeType == NoStake \in UserStake
  BY DEF NoStake, UserStake, LockTier

-----------------------------------------------------------------------------
(* The invariant holds of the first state.                                 *)
LEMMA StakeInitInv == StakeInit => StakeInv
<1> SUFFICES ASSUME StakeInit PROVE StakeInv
  OBVIOUS
<1> USE StakeAssumption, ConfigAssumption DEF ConfigInit, StakeInit
<1>1. StakeTypeOK
  BY NoStakeType DEF StakeTypeOK, ConfigTypeOK, Config
<1>2. StakeTerms /\ StakeBacked
  BY DEF StakeTerms, StakeBacked, NoStake
<1>3. WeightedTotalExact
  <2>1. \A w \in Wallet : Weight[w] = 0
    BY DEF Weight, NoStake
  <2>2. config.total_weighted_stake = 0
    OBVIOUS
  <2>3. QED
    BY <2>1, <2>2, SumZero DEF WeightedTotalExact
<1>4. KnsConserved
  <2>1. SumFunctionOnSet(stake_vault, Wallet) = 0
    BY SumZero
  <2>2. SumFunctionOnSet(InitialKns, Wallet) \in Nat
    BY SumNat
  <2>3. QED
    BY <2>1, <2>2 DEF KnsConserved
<1>5. QED
  BY <1>1, <1>2, <1>3, <1>4 DEF StakeInv

(* Raising one wallet's weight and the total together, or lowering both,   *)
(* keeps the total exact.                                                  *)
LEMMA TotalFollowsWeight ==
  ASSUME StakeTypeOK, StakeTypeOK', WeightedTotalExact, NEW owner \in Wallet,
         \A w \in Wallet : w = owner \/ user_stake'[w] = user_stake[w],
         config'.total_weighted_stake
           = config.total_weighted_stake
             + (user_stake'[owner].weighted_amount
                - user_stake[owner].weighted_amount)
  PROVE  WeightedTotalExact'
<1>1. \A w \in Wallet : Weight[w] \in Int
  BY DEF Weight, StakeTypeOK, UserStake
<1>2. Weight'[owner] \in Int
  BY DEF Weight, StakeTypeOK, UserStake
<1>3. \A w \in Wallet : w = owner \/ Weight'[w] = Weight[w]
  BY DEF Weight
<1>4. IsFiniteSet(Wallet)
  BY StakeAssumption
<1>5. SumFunctionOnSet(Weight', Wallet)
        = SumFunctionOnSet(Weight, Wallet) + (Weight'[owner] - Weight[owner])
  BY <1>1, <1>2, <1>3, <1>4, SumUpdate
<1>6. QED
  BY <1>5 DEF WeightedTotalExact, Weight

(* Moving an amount from one wallet's account into one vault, or back,     *)
(* keeps the sum over all accounts and vaults.                             *)
LEMMA KnsMoves ==
  ASSUME StakeTypeOK, StakeTypeOK', KnsConserved,
         NEW from \in Wallet, NEW owner \in Wallet, NEW d \in Int,
         kns'[from] = kns[from] - d,
         stake_vault'[owner] = stake_vault[owner] + d,
         \A w \in Wallet : w = from \/ kns'[w] = kns[w],
         \A w \in Wallet : w = owner \/ stake_vault'[w] = stake_vault[w]
  PROVE  KnsConserved'
<1>1. IsFiniteSet(Wallet)
  BY StakeAssumption
<1>2. (\A w \in Wallet : kns[w] \in Int) /\ kns'[from] \in Int
  BY DEF StakeTypeOK
<1>3. (\A w \in Wallet : stake_vault[w] \in Int) /\ stake_vault'[owner] \in Int
  BY DEF StakeTypeOK
<1>4. SumFunctionOnSet(kns', Wallet)
        = SumFunctionOnSet(kns, Wallet) + (kns'[from] - kns[from])
  BY <1>1, <1>2, SumUpdate
<1>5. SumFunctionOnSet(stake_vault', Wallet)
        = SumFunctionOnSet(stake_vault, Wallet)
          + (stake_vault'[owner] - stake_vault[owner])
  BY <1>1, <1>3, SumUpdate
<1>6. /\ SumFunctionOnSet(kns, Wallet) \in Int
      /\ SumFunctionOnSet(stake_vault, Wallet) \in Int
  BY <1>1, <1>2, <1>3, SumType
<1>7. QED
  BY <1>2, <1>3, <1>4, <1>5, <1>6 DEF KnsConserved

-----------------------------------------------------------------------------
(* stake keeps the invariant.                                              *)
LEMMA StakeStep ==
  ASSUME StakeInv, NEW owner \in Wallet, NEW amount \in Amounts,
         NEW lock \in LockTier, Stake(owner, amount, lock)
  PROVE  StakeInv'
<1> DEFINE weight == weighted_amount(amount, lock_multiplier_bps[lock])
           record == [active |-> TRUE, amount |-> amount, lock |-> lock,
                      start_ts |-> now,
                      lock_end_ts |-> now + lock_seconds(lock),
                      weighted_amount |-> weight]
<1>1. amount \in Nat /\ weight \in Nat /\ lock_seconds(lock) \in Nat
  BY StakeAssumption, WeightType, LockSecondsType
<1>2. record \in UserStake
  BY <1>1 DEF StakeInv, StakeTypeOK, ConfigTypeOK, UserStake
<1> HIDE DEF weight
<1>3. /\ user_stake' = [user_stake EXCEPT ![owner] = record]
      /\ config' = [config EXCEPT !.total_weighted_stake = @ + weight]
      /\ kns' = [kns EXCEPT ![owner] = @ - amount]
      /\ stake_vault' = [stake_vault EXCEPT ![owner] = @ + amount]
      /\ kns[owner] >= amount
      /\ ~user_stake[owner].active /\ config.initialized
      /\ now' = now
  BY DEF Stake, weight
<1> HIDE DEF record
<1>4. StakeTypeOK'
  BY <1>1, <1>2, <1>3 DEF StakeInv, StakeTypeOK, ConfigTypeOK, Config
<1>5. StakeTerms' /\ StakeBacked'
  <2>1. /\ record.active /\ record.amount = amount /\ record.start_ts = now
        /\ record.lock = lock
        /\ record.lock_end_ts = now + lock_seconds(lock)
    BY DEF record
  <2>2. user_stake[owner] = NoStake /\ stake_vault[owner] = 0
    BY <1>3 DEF StakeInv, StakeBacked
  <2>3. QED
    BY <1>1, <1>3, <2>1, <2>2
    DEF StakeInv, StakeTypeOK, ConfigTypeOK, Config, StakeTerms, StakeBacked
<1>6. WeightedTotalExact'
  <2>1. record.weighted_amount = weight
    BY DEF record
  <2>2. user_stake[owner].weighted_amount = 0
    BY <1>3 DEF StakeInv, StakeBacked, NoStake
  <2>3. config'.total_weighted_stake = config.total_weighted_stake + (weight - 0)
    BY <1>1, <1>3 DEF StakeInv, StakeTypeOK, ConfigTypeOK, Config
  <2>4. user_stake'[owner] = record
    BY <1>3 DEF StakeInv, StakeTypeOK
  <2>5. \A w \in Wallet : w = owner \/ user_stake'[w] = user_stake[w]
    BY <1>3 DEF StakeInv, StakeTypeOK
  <2>6. QED
    BY <1>4, <2>1, <2>2, <2>3, <2>4, <2>5, TotalFollowsWeight DEF StakeInv
<1>7. KnsConserved'
  <2>1. /\ kns'[owner] = kns[owner] - amount
        /\ stake_vault'[owner] = stake_vault[owner] + amount
        /\ \A w \in Wallet : w = owner \/ kns'[w] = kns[w]
        /\ \A w \in Wallet : w = owner \/ stake_vault'[w] = stake_vault[w]
    BY <1>3 DEF StakeInv, StakeTypeOK
  <2>2. amount \in Int
    BY <1>1
  <2>3. QED
    BY <1>4, <2>1, <2>2, KnsMoves DEF StakeInv
<1>8. QED
  BY <1>4, <1>5, <1>6, <1>7 DEF StakeInv

(* unstake keeps the invariant.                                            *)
LEMMA UnstakeStep ==
  ASSUME StakeInv, NEW owner \in Wallet, Unstake(owner)
  PROVE  StakeInv'
<1> DEFINE amount == user_stake[owner].amount
           weight == user_stake[owner].weighted_amount
<1>1. amount \in Nat /\ weight \in Nat
  BY DEF StakeInv, StakeTypeOK, UserStake
<1>2. /\ user_stake' = [user_stake EXCEPT ![owner] = NoStake]
      /\ config' = [config EXCEPT !.total_weighted_stake = @ - weight]
      /\ kns' = [kns EXCEPT ![owner] = @ + amount]
      /\ stake_vault' = [stake_vault EXCEPT ![owner] = @ - amount]
      /\ stake_vault[owner] >= amount /\ stake_vault[owner] - amount = 0
      /\ weight <= config.total_weighted_stake
      /\ now' = now
  BY DEF Unstake, UnstakeReady
<1> HIDE DEF amount, weight
<1>3. StakeTypeOK'
  BY <1>1, <1>2, NoStakeType
  DEF StakeInv, StakeTypeOK, ConfigTypeOK, Config
<1>4. StakeTerms' /\ StakeBacked'
  <2>1. ~NoStake.active /\ NoStake.amount = 0
    BY DEF NoStake
  <2>2. QED
    BY <1>1, <1>2, <2>1
    DEF StakeInv, StakeTypeOK, ConfigTypeOK, Config, StakeTerms, StakeBacked
<1>5. WeightedTotalExact'
  <2>1. NoStake.weighted_amount = 0
    BY DEF NoStake
  <2>2. config'.total_weighted_stake = config.total_weighted_stake + (0 - weight)
    BY <1>1, <1>2 DEF StakeInv, StakeTypeOK, ConfigTypeOK, Config
  <2>3. user_stake'[owner] = NoStake
    BY <1>2 DEF StakeInv, StakeTypeOK
  <2>4. \A w \in Wallet : w = owner \/ user_stake'[w] = user_stake[w]
    BY <1>2 DEF StakeInv, StakeTypeOK
  <2>5. QED
    BY <1>3, <2>1, <2>2, <2>3, <2>4, TotalFollowsWeight DEF StakeInv, weight
<1>6. KnsConserved'
  <2>1. /\ kns'[owner] = kns[owner] - (-amount)
        /\ stake_vault'[owner] = stake_vault[owner] + (-amount)
        /\ \A w \in Wallet : w = owner \/ kns'[w] = kns[w]
        /\ \A w \in Wallet : w = owner \/ stake_vault'[w] = stake_vault[w]
    BY <1>1, <1>2 DEF StakeInv, StakeTypeOK
  <2>2. -amount \in Int
    BY <1>1
  <2>3. QED
    BY <1>3, <2>1, <2>2, KnsMoves DEF StakeInv
<1>7. QED
  BY <1>3, <1>4, <1>5, <1>6 DEF StakeInv

(* A direct transfer into a vault keeps the invariant.                     *)
LEMMA StakeTransferStep ==
  ASSUME StakeInv, NEW from \in Wallet, NEW owner \in Wallet,
         NEW amount \in Amounts, TransferToStakeVault(from, owner, amount)
  PROVE  StakeInv'
<1>1. amount \in Nat
  BY StakeAssumption
<1>2. /\ user_stake[owner].active
      /\ kns[from] >= amount
      /\ kns' = [kns EXCEPT ![from] = @ - amount]
      /\ stake_vault' = [stake_vault EXCEPT ![owner] = @ + amount]
      /\ now' = now /\ config' = config /\ user_stake' = user_stake
  BY DEF TransferToStakeVault
<1>3. StakeTypeOK'
  BY <1>1, <1>2 DEF StakeInv, StakeTypeOK, ConfigTypeOK
<1>4. StakeTerms'
  BY <1>2 DEF StakeInv, StakeTerms
<1>5. StakeBacked'
  BY <1>1, <1>2 DEF StakeInv, StakeBacked, StakeTypeOK, UserStake
<1>6. WeightedTotalExact'
  BY <1>2 DEF StakeInv, WeightedTotalExact, Weight
<1>7. KnsConserved'
  <2>1. /\ kns'[from] = kns[from] - amount
        /\ stake_vault'[owner] = stake_vault[owner] + amount
        /\ \A w \in Wallet : w = from \/ kns'[w] = kns[w]
        /\ \A w \in Wallet : w = owner \/ stake_vault'[w] = stake_vault[w]
    BY <1>2 DEF StakeInv, StakeTypeOK
  <2>2. amount \in Int
    BY <1>1
  <2>3. QED
    BY <1>3, <2>1, <2>2, KnsMoves DEF StakeInv
<1>8. QED
  BY <1>3, <1>4, <1>5, <1>6, <1>7 DEF StakeInv

(* The administrative instructions and the clock keep the invariant:       *)
(* initialize resets the total, but only when no stake can exist yet.      *)
LEMMA ConfigStep ==
  ASSUME StakeInv, ConfigNext, UNCHANGED stakeOnlyVars
  PROVE  StakeInv'
<1> USE DEF stakeOnlyVars
<1>1. StakeTypeOK'
  BY ConfigTypeStep DEF StakeInv, StakeTypeOK
<1>2. config.initialized => config'.initialized
  BY DEF StakeInv, StakeTypeOK, ConfigTypeOK, Config, ConfigNext, Initialize,
         SetPause, TransferAdmin, UpdateDistributionPeriod, Tick
<1>3. StakeTerms' /\ StakeBacked' /\ KnsConserved'
  BY <1>2 DEF StakeInv, StakeTerms, StakeBacked, KnsConserved
<1>4. WeightedTotalExact'
  <2>1. Weight' = Weight
    BY DEF Weight
  <2>2. CASE \E w, t \in Wallet : Initialize(w, t)
    <3>1. ~config.initialized /\ config'.total_weighted_stake = 0
      BY <2>2 DEF Initialize
    <3>2. \A w \in Wallet : Weight[w] = 0
      BY <3>1 DEF StakeInv, StakeTerms, StakeBacked, Weight, NoStake
    <3>3. QED
      BY <2>1, <3>1, <3>2, SumZero, StakeAssumption DEF WeightedTotalExact
  <2>3. CASE ~ \E w, t \in Wallet : Initialize(w, t)
    <3>1. config'.total_weighted_stake = config.total_weighted_stake
      BY <2>3 DEF StakeInv, StakeTypeOK, ConfigTypeOK, Config, ConfigNext,
                  SetPause, TransferAdmin, UpdateDistributionPeriod, Tick
    <3>2. QED
      BY <2>1, <3>1 DEF StakeInv, WeightedTotalExact
  <2>4. QED
    BY <2>2, <2>3
<1>5. QED
  BY <1>1, <1>3, <1>4 DEF StakeInv

(* Every step keeps the invariant.                                         *)
LEMMA StakeNextInv == StakeInv /\ [StakeNext]_stakeVars => StakeInv'
<1> SUFFICES ASSUME StakeInv, [StakeNext]_stakeVars PROVE StakeInv'
  OBVIOUS
<1>1. CASE \E w \in Wallet, a \in Amounts, l \in LockTier : Stake(w, a, l)
  BY <1>1, StakeStep
<1>2. CASE \E w \in Wallet : Unstake(w)
  BY <1>2, UnstakeStep
<1>3. CASE \E f, w \in Wallet, a \in Amounts : TransferToStakeVault(f, w, a)
  BY <1>3, StakeTransferStep
<1>4. CASE ConfigNext /\ UNCHANGED stakeOnlyVars
  BY <1>4, ConfigStep
<1>5. CASE UNCHANGED stakeVars
  BY <1>5 DEF stakeVars, StakeInv, StakeTypeOK, ConfigTypeOK, StakeTerms,
              StakeBacked, WeightedTotalExact, Weight, KnsConserved
<1>6. QED
  BY <1>1, <1>2, <1>3, <1>4, <1>5 DEF StakeNext, StakeOps

(* The invariant holds in every reachable state.                           *)
THEOREM StakeInvariant == StakeSpec => []StakeInv
  BY StakeInitInv, StakeNextInv, PTL DEF StakeSpec

-----------------------------------------------------------------------------
(* Every account keeps the type the program gives it (lib.rs:469-514).     *)
THEOREM StakeTypes == StakeSpec => []StakeTypeOK
<1>1. StakeInv => StakeTypeOK
  BY DEF StakeInv
<1>2. QED
  BY <1>1, StakeInvariant, PTL

(* The running total of Config is the sum of the live weights (lib.rs:82,  *)
(* :144), for any number of wallets and any history.                       *)
THEOREM TotalExact == StakeSpec => []WeightedTotalExact
<1>1. StakeInv => WeightedTotalExact
  BY DEF StakeInv
<1>2. QED
  BY <1>1, StakeInvariant, PTL

(* Every vault covers its stake, and a closed one is empty.                *)
THEOREM VaultsBackStakes == StakeSpec => []StakeBacked
<1>1. StakeInv => StakeBacked
  BY DEF StakeInv
<1>2. QED
  BY <1>1, StakeInvariant, PTL

(* No KNS is minted or lost by stake, unstake or direct transfers.         *)
THEOREM KnsNeverLost == StakeSpec => []KnsConserved
<1>1. StakeInv => KnsConserved
  BY DEF StakeInv
<1>2. QED
  BY <1>1, StakeInvariant, PTL

(* An expired stake can be withdrawn, whatever the admin did, unless       *)
(* someone put a surplus into its vault: in particular the checked_sub of  *)
(* lib.rs:144 can never fail.                                              *)
THEOREM ExpiredWithdrawable == StakeSpec => []ExpiredStakeWithdrawable
<1>1. ASSUME StakeInv PROVE ExpiredStakeWithdrawable
  <2> SUFFICES ASSUME NEW w \in Wallet, user_stake[w].active,
                      now >= user_stake[w].start_ts
                               + lock_seconds(user_stake[w].lock),
                      stake_vault[w] = user_stake[w].amount
               PROVE  UnstakeReady(w)
    BY DEF ExpiredStakeWithdrawable
  <2>1. config.initialized /\ now >= user_stake[w].lock_end_ts
    BY <1>1 DEF StakeInv, StakeTerms
  <2>2. user_stake[w].weighted_amount <= config.total_weighted_stake
    <3>1. \A v \in Wallet : Weight[v] \in Nat
      BY <1>1 DEF StakeInv, StakeTypeOK, UserStake, Weight
    <3>2. Weight[w] <= SumFunctionOnSet(Weight, Wallet)
      BY <3>1, SumNat, StakeAssumption
    <3>3. QED
      BY <1>1, <3>2 DEF StakeInv, WeightedTotalExact, Weight
  <2>3. user_stake[w].amount \in Nat
    BY <1>1 DEF StakeInv, StakeTypeOK, UserStake
  <2>4. QED
    BY <2>1, <2>2, <2>3 DEF UnstakeReady
<1>2. QED
  BY <1>1, StakeInvariant, PTL

(* A stake is held on unchanged terms until its owner withdraws all of it, *)
(* which happens only after the whole lock period of its tier.             *)
THEOREM LocksHonoured == StakeSpec => LockHonoured
<1>1. ASSUME StakeInv, StakeNext, NEW w \in Wallet PROVE StakeHonoured(w)
  <2> SUFFICES ASSUME user_stake[w].active,
                      user_stake'[w] # user_stake[w]
               PROVE  /\ ~user_stake'[w].active
                      /\ now >= user_stake[w].start_ts
                                  + lock_seconds(user_stake[w].lock)
                      /\ kns'[w] = kns[w] + user_stake[w].amount
    BY DEF StakeHonoured
  <2>1. ASSUME NEW v \in Wallet, NEW a \in Amounts, NEW l \in LockTier,
               Stake(v, a, l)
        PROVE  FALSE
    BY <1>1, <2>1 DEF Stake, StakeInv, StakeTypeOK
  <2>2. PICK v \in Wallet : Unstake(v)
    BY <1>1, <2>1 DEF StakeNext, StakeOps, TransferToStakeVault, stakeOnlyVars
  <2>3. v = w
    BY <1>1, <2>2 DEF Unstake, StakeInv, StakeTypeOK
  <2>4. now >= user_stake[w].lock_end_ts
    BY <2>2, <2>3 DEF Unstake, UnstakeReady
  <2>5. user_stake'[w] = NoStake /\ kns'[w] = kns[w] + user_stake[w].amount
    BY <1>1, <2>2, <2>3 DEF Unstake, StakeInv, StakeTypeOK
  <2>6. QED
    BY <1>1, <2>4, <2>5 DEF StakeInv, StakeTerms, NoStake
<1>2. ASSUME StakeInv, [StakeNext]_stakeVars
      PROVE  [\A w \in Wallet : StakeHonoured(w)]_stakeVars
  BY <1>1, <1>2
<1>3. QED
  BY <1>2, StakeInvariant, PTL DEF StakeSpec, LockHonoured

-----------------------------------------------------------------------------
(* Reward epochs. *)
(* What the properties need to be inductive: an epoch exists only in an    *)
(* initialized program and was announced with a positive reward.           *)
EpochAnnounced ==
    \A e \in EpochId :
        epoch[e] # NoEpoch => config.initialized /\ epoch[e].total_rewards > 0

EpochInv ==
    /\ EpochTypeOK
    /\ EpochAnnounced
    /\ EpochSolvent
    /\ ClaimsCommitted
    /\ UsdcConserved

-----------------------------------------------------------------------------
(* An announced epoch has a type, and NoEpoch is not the record of one.    *)
LEMMA EpochRecord ==
  ASSUME EpochTypeOK, NEW e \in EpochId, epoch[e].status # "None"
  PROVE  epoch[e] \in Epoch /\ epoch[e] # NoEpoch
  BY DEF EpochTypeOK, NoEpoch

(* A record other than NoEpoch is never in the status "None".              *)
LEMMA StatusOfNoEpoch ==
  ASSUME EpochTypeOK, NEW e \in EpochId
  PROVE  (epoch[e] = NoEpoch) <=> (epoch[e].status = "None")
  BY DEF EpochTypeOK, NoEpoch, Epoch, EpochStatus

(* A change of one wallet's balance changes the sum by as much.            *)
LEMMA UsdcChange ==
  ASSUME EpochTypeOK, EpochTypeOK', NEW w \in Wallet,
         \A v \in Wallet : v = w \/ usdc'[v] = usdc[v]
  PROVE  /\ SumFunctionOnSet(usdc, Wallet) \in Int
         /\ SumFunctionOnSet(usdc', Wallet)
              = SumFunctionOnSet(usdc, Wallet) + (usdc'[w] - usdc[w])
<1>1. (\A v \in Wallet : usdc[v] \in Int) /\ usdc'[w] \in Int
  BY DEF EpochTypeOK
<1>2. IsFiniteSet(Wallet)
  BY EpochAssumption
<1>3. SumFunctionOnSet(usdc, Wallet) \in Int
  BY <1>1, <1>2, SumType
<1>4. SumFunctionOnSet(usdc', Wallet)
        = SumFunctionOnSet(usdc, Wallet) + (usdc'[w] - usdc[w])
  BY <1>1, <1>2, SumUpdate
<1>5. QED
  BY <1>3, <1>4

(* A change of one vault's balance changes the sum by as much.             *)
LEMMA VaultChange ==
  ASSUME EpochTypeOK, EpochTypeOK', NEW e \in EpochId,
         \A i \in EpochId : i = e \/ epoch_vault'[i] = epoch_vault[i]
  PROVE  /\ SumFunctionOnSet(epoch_vault, EpochId) \in Int
         /\ SumFunctionOnSet(epoch_vault', EpochId)
              = SumFunctionOnSet(epoch_vault, EpochId)
                + (epoch_vault'[e] - epoch_vault[e])
<1>1. (\A i \in EpochId : epoch_vault[i] \in Int) /\ epoch_vault'[e] \in Int
  BY DEF EpochTypeOK
<1>2. IsFiniteSet(EpochId)
  BY EpochAssumption
<1>3. QED
  BY <1>1, <1>2, SumUpdate, SumType

(* Moving d from one wallet into one vault, or back, keeps the sum.        *)
LEMMA UsdcMoves ==
  ASSUME EpochTypeOK, EpochTypeOK', UsdcConserved,
         NEW from \in Wallet, NEW e \in EpochId, NEW d \in Int,
         usdc'[from] = usdc[from] - d,
         epoch_vault'[e] = epoch_vault[e] + d,
         \A w \in Wallet : w = from \/ usdc'[w] = usdc[w],
         \A i \in EpochId : i = e \/ epoch_vault'[i] = epoch_vault[i]
  PROVE  UsdcConserved'
<1>1. usdc[from] \in Int /\ epoch_vault[e] \in Int
  BY DEF EpochTypeOK
<1>2. QED
  BY <1>1, UsdcChange, VaultChange DEF UsdcConserved

(* What has been claimed of an epoch is a natural number.                  *)
LEMMA ClaimedType ==
  ASSUME EpochTypeOK, NEW e \in EpochId PROVE Claimed(e) \in Nat
<1>1. \A w \in Wallet : claim_record[e][w] \in Nat
  BY DEF EpochTypeOK
<1>2. QED
  BY <1>1, SumNat, EpochAssumption DEF Claimed

-----------------------------------------------------------------------------
(* The invariant holds of the first state.                                 *)
LEMMA EpochInitInv == EpochInit => EpochInv
<1> SUFFICES ASSUME EpochInit PROVE EpochInv
  OBVIOUS
<1> USE EpochAssumption DEF ConfigInit, EpochInit
<1>1. EpochTypeOK
  BY DEF EpochTypeOK, ConfigTypeOK, Config
<1>2. EpochAnnounced /\ EpochSolvent /\ ClaimsCommitted
  BY DEF EpochAnnounced, EpochSolvent, ClaimsCommitted, NoEpoch
<1>3. UsdcConserved
  <2>1. SumFunctionOnSet(epoch_vault, EpochId) = 0
    BY SumZero
  <2>2. SumFunctionOnSet(InitialUsdc, Wallet) \in Nat
    BY SumNat
  <2>3. QED
    BY <2>1, <2>2 DEF UsdcConserved
<1>4. QED
  BY <1>1, <1>2, <1>3 DEF EpochInv

(* initialize_epoch keeps the invariant.                                   *)
LEMMA InitializeEpochStep ==
  ASSUME EpochInv, NEW signer \in Wallet, NEW e \in EpochId,
         NEW root \in Roots, NEW mint \in Mint, NEW total \in TotalRewards,
         NEW snapshot \in Times,
         InitializeEpoch(signer, e, root, mint, total, snapshot)
  PROVE  EpochInv'
<1> DEFINE deadline == now + config.distribution_period
           record == [status |-> "Pending", merkle_root |-> root,
                      vault_mint |-> mint, total_rewards |-> total,
                      funded_amount |-> 0, snapshot_ts |-> snapshot,
                      claim_deadline |-> deadline]
<1>1. /\ epoch[e] = NoEpoch /\ total > 0 /\ config.initialized
      /\ epoch' = [epoch EXCEPT ![e] = record]
      /\ now' = now /\ config' = config /\ epoch_vault' = epoch_vault
      /\ claim_record' = claim_record /\ usdc' = usdc
  BY DEF InitializeEpoch, InitializeEpochReady, RequireAdmin, configVars
<1>2. deadline \in Nat
  BY DEF EpochInv, EpochTypeOK, ConfigTypeOK, Config
<1>3. record \in Epoch
  BY <1>2, EpochAssumption, ConfigAssumption DEF Epoch, EpochStatus
<1>4. record.status = "Pending" /\ record.total_rewards = total
  OBVIOUS
<1> HIDE DEF record, deadline
<1>5. epoch[e].status = "None"
  BY <1>1 DEF NoEpoch
<1>6. EpochTypeOK'
  BY <1>1, <1>3 DEF EpochInv, EpochTypeOK, ConfigTypeOK
<1>7. EpochAnnounced'
  BY <1>1, <1>4 DEF EpochInv, EpochTypeOK, EpochAnnounced
<1>8. EpochSolvent'
  BY <1>1, <1>4, <1>5 DEF EpochInv, EpochTypeOK, EpochSolvent, Claimed
<1>9. ClaimsCommitted'
  BY <1>1, <1>5 DEF EpochInv, EpochTypeOK, EpochSolvent, ClaimsCommitted
<1>10. UsdcConserved'
  BY <1>1 DEF EpochInv, UsdcConserved
<1>11. QED
  BY <1>6, <1>7, <1>8, <1>9, <1>10 DEF EpochInv

(* fund_epoch keeps the invariant.                                         *)
LEMMA FundEpochStep ==
  ASSUME EpochInv, NEW signer \in Wallet, NEW e \in EpochId,
         NEW amount \in TotalRewards, FundEpoch(signer, e, amount)
  PROVE  EpochInv'
<1>1. /\ epoch[e].status = "Pending" /\ amount = epoch[e].total_rewards
      /\ epoch[e].vault_mint = USDC /\ usdc[signer] >= amount
      /\ usdc' = [usdc EXCEPT ![signer] = @ - amount]
      /\ epoch_vault' = [epoch_vault EXCEPT ![e] = @ + amount]
      /\ epoch' = [epoch EXCEPT ![e].funded_amount = amount,
                                ![e].status = "Active"]
      /\ now' = now /\ config' = config /\ claim_record' = claim_record
  BY DEF FundEpoch, FundReady, configVars
<1>2. epoch[e] \in Epoch /\ epoch[e] # NoEpoch /\ amount \in Nat
  BY <1>1, EpochRecord, EpochAssumption DEF EpochInv
<1>3. /\ epoch'[e] \in Epoch
      /\ epoch'[e].status = "Active"
      /\ epoch'[e].vault_mint = USDC
      /\ epoch'[e].total_rewards = epoch[e].total_rewards
      /\ epoch'[e].merkle_root = epoch[e].merkle_root
      /\ epoch' \in [EpochId -> Epoch \cup {NoEpoch}]
      /\ \A i \in EpochId : i = e \/ epoch'[i] = epoch[i]
  BY <1>1, <1>2 DEF EpochInv, EpochTypeOK, Epoch, EpochStatus
<1>4. EpochTypeOK'
  BY <1>1, <1>2, <1>3 DEF EpochInv, EpochTypeOK, ConfigTypeOK
<1>5. EpochAnnounced'
  BY <1>1, <1>2, <1>3 DEF EpochInv, EpochAnnounced
<1>6. EpochSolvent'
  <2>1. Claimed(e) \in Nat /\ epoch_vault[e] \in Nat
    BY ClaimedType DEF EpochInv, EpochTypeOK
  <2>2. epoch_vault'[e] + Claimed(e) >= epoch[e].total_rewards
    BY <1>1, <1>2, <2>1 DEF EpochInv, EpochTypeOK
  <2>3. \A i \in EpochId : i = e \/ epoch_vault'[i] = epoch_vault[i]
    BY <1>1 DEF EpochInv, EpochTypeOK
  <2>4. \A i \in EpochId : Claimed(i)' = Claimed(i)
    BY <1>1 DEF Claimed
  <2>5. QED
    BY <1>1, <1>3, <2>2, <2>3, <2>4 DEF EpochInv, EpochSolvent
<1>7. ClaimsCommitted'
  BY <1>1, <1>3 DEF EpochInv, ClaimsCommitted
<1>8. UsdcConserved'
  <2>1. /\ usdc'[signer] = usdc[signer] - amount
        /\ epoch_vault'[e] = epoch_vault[e] + amount
        /\ \A w \in Wallet : w = signer \/ usdc'[w] = usdc[w]
        /\ \A i \in EpochId : i = e \/ epoch_vault'[i] = epoch_vault[i]
    BY <1>1 DEF EpochInv, EpochTypeOK
  <2>2. amount \in Int
    BY <1>2
  <2>3. QED
    BY <1>4, <2>1, <2>2, UsdcMoves DEF EpochInv
<1>9. QED
  BY <1>4, <1>5, <1>6, <1>7, <1>8 DEF EpochInv

(* close_epoch keeps the invariant.                                        *)
LEMMA CloseEpochStep ==
  ASSUME EpochInv, NEW signer \in Wallet, NEW e \in EpochId,
         CloseEpoch(signer, e)
  PROVE  EpochInv'
<1> DEFINE treasury == config.treasury
<1>1. /\ epoch[e].status = "Active"
      /\ usdc' = [usdc EXCEPT ![treasury] = @ + epoch_vault[e]]
      /\ epoch_vault' = [epoch_vault EXCEPT ![e] = 0]
      /\ epoch' = [epoch EXCEPT ![e].status = "Closed"]
      /\ now' = now /\ config' = config /\ claim_record' = claim_record
  BY DEF CloseEpoch, CloseReady, configVars
<1>2. treasury \in Wallet /\ epoch_vault[e] \in Nat
  BY DEF EpochInv, EpochTypeOK, ConfigTypeOK, Config
<1> HIDE DEF treasury
<1>3. epoch[e] \in Epoch /\ epoch[e] # NoEpoch
  BY <1>1, EpochRecord DEF EpochInv
<1>4. /\ epoch'[e] \in Epoch
      /\ epoch'[e].status = "Closed"
      /\ epoch'[e].total_rewards = epoch[e].total_rewards
      /\ epoch'[e].merkle_root = epoch[e].merkle_root
      /\ epoch' \in [EpochId -> Epoch \cup {NoEpoch}]
      /\ \A i \in EpochId : i = e \/ epoch'[i] = epoch[i]
  BY <1>1, <1>3 DEF EpochInv, EpochTypeOK, Epoch, EpochStatus
<1>5. EpochTypeOK'
  BY <1>1, <1>2, <1>4 DEF EpochInv, EpochTypeOK, ConfigTypeOK
<1>6. EpochAnnounced'
  BY <1>1, <1>3, <1>4 DEF EpochInv, EpochAnnounced
<1>7. EpochSolvent'
  BY <1>1, <1>4 DEF EpochInv, EpochTypeOK, EpochSolvent, Claimed
<1>8. ClaimsCommitted'
  BY <1>1, <1>4 DEF EpochInv, ClaimsCommitted
<1>9. UsdcConserved'
  <2>1. /\ usdc'[treasury] = usdc[treasury] - (-epoch_vault[e])
        /\ epoch_vault'[e] = epoch_vault[e] + (-epoch_vault[e])
        /\ \A w \in Wallet : w = treasury \/ usdc'[w] = usdc[w]
        /\ \A i \in EpochId : i = e \/ epoch_vault'[i] = epoch_vault[i]
    BY <1>1, <1>2 DEF EpochInv, EpochTypeOK
  <2>2. -epoch_vault[e] \in Int
    BY <1>2
  <2>3. QED
    BY <1>2, <1>5, <2>1, <2>2, UsdcMoves DEF EpochInv
<1>10. QED
  BY <1>5, <1>6, <1>7, <1>8, <1>9 DEF EpochInv

(* claim keeps the invariant.                                              *)
LEMMA ClaimStep ==
  ASSUME EpochInv, NEW owner \in Wallet, NEW e \in EpochId,
         NEW amount \in ClaimAmounts, Claim(owner, e, amount)
  PROVE  EpochInv'
<1>1. /\ epoch[e].status = "Active"
      /\ amount >= USDC_MIN_CLAIM
      /\ [epoch_id |-> e, claimer |-> owner, amount |-> amount]
            \in epoch[e].merkle_root
      /\ claim_record[e][owner] = 0
      /\ epoch_vault[e] >= amount
      /\ claim_record' = [claim_record EXCEPT ![e][owner] = amount]
      /\ epoch_vault' = [epoch_vault EXCEPT ![e] = @ - amount]
      /\ usdc' = [usdc EXCEPT ![owner] = @ + amount]
      /\ now' = now /\ config' = config /\ epoch' = epoch
  BY DEF Claim, ClaimReady, verify_merkle_proof, compute_leaf, configVars
<1>2. amount \in Nat
  BY EpochAssumption
<1>3. EpochTypeOK'
  BY <1>1, <1>2 DEF EpochInv, EpochTypeOK, ConfigTypeOK
<1>4. EpochAnnounced'
  BY <1>1 DEF EpochInv, EpochAnnounced
<1>5. /\ claim_record'[e][owner] = amount
      /\ \A w \in Wallet : w = owner \/ claim_record'[e][w] = claim_record[e][w]
      /\ \A i \in EpochId : i = e \/ claim_record'[i] = claim_record[i]
  BY <1>1 DEF EpochInv, EpochTypeOK
<1>6. EpochSolvent'
  <2>1. Claimed(e)' = Claimed(e) + (amount - 0)
    <3>1. /\ \A w \in Wallet : claim_record[e][w] \in Int
          /\ claim_record'[e][owner] \in Int
      BY <1>2, <1>5 DEF EpochInv, EpochTypeOK
    <3>2. SumFunctionOnSet(claim_record'[e], Wallet)
            = SumFunctionOnSet(claim_record[e], Wallet)
              + (claim_record'[e][owner] - claim_record[e][owner])
      <4>1. IsFiniteSet(Wallet)
        BY EpochAssumption
      <4>2. QED
        BY <1>5, <3>1, <4>1, SumUpdate
    <3>3. QED
      BY <1>1, <1>5, <3>2 DEF Claimed
  <2>2. Claimed(e) \in Nat /\ epoch_vault[e] \in Nat
    BY ClaimedType DEF EpochInv, EpochTypeOK
  <2>3. epoch_vault'[e] + Claimed(e)' = epoch_vault[e] + Claimed(e)
    BY <1>1, <1>2, <2>1, <2>2 DEF EpochInv, EpochTypeOK
  <2>4. \A i \in EpochId : i = e \/ /\ epoch_vault'[i] = epoch_vault[i]
                                    /\ Claimed(i)' = Claimed(i)
    BY <1>1, <1>5 DEF EpochInv, EpochTypeOK, Claimed
  <2>5. QED
    BY <1>1, <1>5, <2>3, <2>4 DEF EpochInv, EpochSolvent
<1>7. ClaimsCommitted'
  BY <1>1, <1>5 DEF EpochInv, ClaimsCommitted
<1>8. UsdcConserved'
  <2>1. /\ usdc'[owner] = usdc[owner] - (-amount)
        /\ epoch_vault'[e] = epoch_vault[e] + (-amount)
        /\ \A w \in Wallet : w = owner \/ usdc'[w] = usdc[w]
        /\ \A i \in EpochId : i = e \/ epoch_vault'[i] = epoch_vault[i]
    BY <1>1, <1>2 DEF EpochInv, EpochTypeOK
  <2>2. -amount \in Int
    BY <1>2
  <2>3. QED
    BY <1>3, <2>1, <2>2, UsdcMoves DEF EpochInv
<1>9. QED
  BY <1>3, <1>4, <1>6, <1>7, <1>8 DEF EpochInv

(* A direct transfer into a vault keeps the invariant.                     *)
LEMMA EpochTransferStep ==
  ASSUME EpochInv, NEW from \in Wallet, NEW e \in EpochId,
         NEW amount \in Deposits, TransferToEpochVault(from, e, amount)
  PROVE  EpochInv'
<1>1. /\ usdc[from] >= amount
      /\ usdc' = [usdc EXCEPT ![from] = @ - amount]
      /\ epoch_vault' = [epoch_vault EXCEPT ![e] = @ + amount]
      /\ now' = now /\ config' = config /\ epoch' = epoch
      /\ claim_record' = claim_record
  BY DEF TransferToEpochVault, configVars
<1>2. amount \in Nat
  BY EpochAssumption
<1>3. EpochTypeOK'
  BY <1>1, <1>2 DEF EpochInv, EpochTypeOK, ConfigTypeOK
<1>4. EpochAnnounced' /\ ClaimsCommitted'
  BY <1>1 DEF EpochInv, EpochAnnounced, ClaimsCommitted
<1>5. EpochSolvent'
  <2>1. \A i \in EpochId : Claimed(i)' = Claimed(i) /\ Claimed(i) \in Nat
    BY <1>1, ClaimedType DEF EpochInv, Claimed
  <2>2. \A i \in EpochId : /\ epoch_vault'[i] \in Nat /\ epoch_vault[i] \in Nat
                           /\ epoch_vault'[i] >= epoch_vault[i]
    BY <1>1, <1>2 DEF EpochInv, EpochTypeOK
  <2>3. \A i \in EpochId :
           epoch[i].status = "Active" => epoch[i].total_rewards \in Nat
    BY EpochRecord DEF EpochInv, Epoch
  <2>4. QED
    BY <1>1, <2>1, <2>2, <2>3 DEF EpochInv, EpochSolvent
<1>6. UsdcConserved'
  <2>1. /\ usdc'[from] = usdc[from] - amount
        /\ epoch_vault'[e] = epoch_vault[e] + amount
        /\ \A w \in Wallet : w = from \/ usdc'[w] = usdc[w]
        /\ \A i \in EpochId : i = e \/ epoch_vault'[i] = epoch_vault[i]
    BY <1>1 DEF EpochInv, EpochTypeOK
  <2>2. amount \in Int
    BY <1>2
  <2>3. QED
    BY <1>3, <2>1, <2>2, UsdcMoves DEF EpochInv
<1>7. QED
  BY <1>3, <1>4, <1>5, <1>6 DEF EpochInv

(* Every step keeps the invariant.                                         *)
LEMMA EpochNextInv == EpochInv /\ [EpochNext]_epochVars => EpochInv'
<1> SUFFICES ASSUME EpochInv, [EpochNext]_epochVars PROVE EpochInv'
  OBVIOUS
<1>1. CASE \E w \in Wallet, e \in EpochId, r \in Roots, m \in Mint,
             t \in TotalRewards, s \in Times :
                 InitializeEpoch(w, e, r, m, t, s)
  BY <1>1, InitializeEpochStep
<1>2. CASE \E w \in Wallet, e \in EpochId, a \in TotalRewards :
             FundEpoch(w, e, a)
  BY <1>2, FundEpochStep
<1>3. CASE \E w \in Wallet, e \in EpochId : CloseEpoch(w, e)
  BY <1>3, CloseEpochStep
<1>4. CASE \E w \in Wallet, e \in EpochId, a \in ClaimAmounts : Claim(w, e, a)
  BY <1>4, ClaimStep
<1>5. CASE \E w \in Wallet, e \in EpochId, a \in Deposits :
             TransferToEpochVault(w, e, a)
  BY <1>5, EpochTransferStep
<1>6. CASE ConfigNext /\ UNCHANGED epochOnlyVars
  BY <1>6, ConfigTypeStep
  DEF epochOnlyVars, EpochInv, EpochTypeOK, EpochAnnounced, EpochSolvent,
      Claimed, ClaimsCommitted, UsdcConserved
<1>7. CASE UNCHANGED epochVars
  BY <1>7 DEF epochVars, EpochInv, EpochTypeOK, ConfigTypeOK, EpochAnnounced,
              EpochSolvent, Claimed, ClaimsCommitted, UsdcConserved
<1>8. QED
  BY <1>1, <1>2, <1>3, <1>4, <1>5, <1>6, <1>7 DEF EpochNext, EpochOps

(* The invariant holds in every reachable state.                           *)
THEOREM EpochInvariant == EpochSpec => []EpochInv
  BY EpochInitInv, EpochNextInv, PTL DEF EpochSpec

-----------------------------------------------------------------------------
(* Every account keeps the type the program gives it (lib.rs:469-514).     *)
THEOREM EpochTypes == EpochSpec => []EpochTypeOK
<1>1. EpochInv => EpochTypeOK
  BY DEF EpochInv
<1>2. QED
  BY <1>1, EpochInvariant, PTL

(* No USDC is minted or lost by fund, claim, close or direct transfers.    *)
THEOREM UsdcNeverLost == EpochSpec => []UsdcConserved
<1>1. EpochInv => UsdcConserved
  BY DEF EpochInv
<1>2. QED
  BY <1>1, EpochInvariant, PTL

(* An active epoch's vault and the claims made so far account for the      *)
(* whole announced reward.                                                 *)
THEOREM ActiveEpochsSolvent == EpochSpec => []EpochSolvent
<1>1. EpochInv => EpochSolvent
  BY DEF EpochInv
<1>2. QED
  BY <1>1, EpochInvariant, PTL

(* Whatever has been claimed was committed to for that wallet and epoch.   *)
THEOREM OnlyLeavesClaimed == EpochSpec => []ClaimsCommitted
<1>1. EpochInv => ClaimsCommitted
  BY DEF EpochInv
<1>2. QED
  BY <1>1, EpochInvariant, PTL

(* Every claim made of an epoch whose root is within its budget is covered *)
(* by the wallet's share, so what is left covers all who have not claimed. *)
LEMMA ShareLeft ==
  ASSUME EpochInv, NEW e \in EpochId, epoch[e].status = "Active",
         NEW share \in [Wallet -> Nat],
         SumFunctionOnSet(share, Wallet) <= epoch[e].total_rewards,
         \A leaf \in epoch[e].merkle_root :
             leaf.epoch_id = e => leaf.amount <= share[leaf.claimer],
         NEW w \in Wallet, claim_record[e][w] = 0
  PROVE  share[w] <= epoch_vault[e]
<1> DEFINE rec == claim_record[e]
           withW == [rec EXCEPT ![w] = share[w]]
<1>1. rec \in [Wallet -> Nat] /\ epoch_vault[e] \in Nat
  BY DEF EpochInv, EpochTypeOK
<1>2. \A v \in Wallet : rec[v] <= share[v]
  <2> TAKE v \in Wallet
  <2>1. CASE rec[v] = 0
    BY <2>1
  <2>2. CASE rec[v] # 0
    <3> DEFINE leaf == [epoch_id |-> e, claimer |-> v, amount |-> rec[v]]
    <3>1. leaf \in epoch[e].merkle_root
      BY <2>2 DEF EpochInv, ClaimsCommitted
    <3>2. QED
      BY <3>1
  <2>3. QED
    BY <2>1, <2>2
<1>3. rec[w] = 0
  OBVIOUS
<1>4. epoch_vault[e] + Claimed(e) >= epoch[e].total_rewards
  BY DEF EpochInv, EpochSolvent
<1>5. Claimed(e) = SumFunctionOnSet(rec, Wallet)
  BY DEF Claimed
<1> HIDE DEF rec
<1>6. withW[w] = share[w] /\ withW \in [Wallet -> Nat]
  BY <1>1
<1>7. \A v \in Wallet : v = w \/ withW[v] = rec[v]
  BY <1>1
<1>8. \A v \in Wallet :
         withW[v] \in Int /\ share[v] \in Int /\ withW[v] <= share[v]
  <2> HIDE DEF withW
  <2> TAKE v \in Wallet
  <2>1. CASE v = w
    BY <1>6, <2>1
  <2>2. CASE v # w
    BY <1>2, <1>6, <1>7, <2>2
  <2>3. QED
    BY <2>1, <2>2
<1> HIDE DEF withW
<1>9. IsFiniteSet(Wallet)
  BY EpochAssumption
<1>10. \A v \in Wallet : rec[v] \in Int
  BY <1>1
<1>11. withW[w] \in Int
  BY <1>8
<1>12. SumFunctionOnSet(withW, Wallet)
         = SumFunctionOnSet(rec, Wallet) + (withW[w] - rec[w])
  BY <1>7, <1>9, <1>10, <1>11, SumUpdate
<1>13. SumFunctionOnSet(withW, Wallet) <= SumFunctionOnSet(share, Wallet)
  BY <1>8, <1>9, SumMonotone
<1>14. /\ SumFunctionOnSet(rec, Wallet) \in Int
       /\ SumFunctionOnSet(withW, Wallet) \in Int
  BY <1>8, <1>9, <1>10, SumType
<1>15. SumFunctionOnSet(share, Wallet) \in Int
  BY <1>8, <1>9, SumType
<1>16. epoch[e].total_rewards \in Int
  BY EpochRecord DEF EpochInv, Epoch
<1>17. QED
  BY <1>1, <1>3, <1>4, <1>5, <1>6, <1>12, <1>13, <1>14, <1>15, <1>16

(* With a root within its budget no claimer ever starves: each unclaimed   *)
(* leaf of at least the minimum can be claimed, in whatever order the      *)
(* claims come, until the deadline.                                        *)
THEOREM LeavesClaimable == EpochSpec => []EveryLeafClaimable
<1>1. ASSUME EpochInv PROVE EveryLeafClaimable
  <2> SUFFICES ASSUME NEW e \in EpochId, epoch[e].status = "Active",
                      now < epoch[e].claim_deadline, ~config.paused_claims,
                      WithinBudget(e),
                      NEW leaf \in epoch[e].merkle_root, leaf.epoch_id = e,
                      leaf.amount >= USDC_MIN_CLAIM,
                      claim_record[e][leaf.claimer] = 0
               PROVE  ClaimReady(leaf.claimer, e, leaf.amount)
    BY DEF EveryLeafClaimable
  <2>1. epoch[e] \in Epoch /\ epoch[e] # NoEpoch
    BY <1>1, EpochRecord DEF EpochInv
  <2>2. leaf \in Leaf
    BY <2>1, EpochAssumption DEF Epoch
  <2>3. config.initialized
    BY <1>1, <2>1 DEF EpochInv, EpochAnnounced
  <2>4. PICK share \in [Wallet -> 0 .. epoch[e].total_rewards] :
           /\ SumFunctionOnSet(share, Wallet) <= epoch[e].total_rewards
           /\ \A l \in epoch[e].merkle_root :
                 l.epoch_id = e => l.amount <= share[l.claimer]
    BY DEF WithinBudget
  <2>5. leaf.claimer \in Wallet /\ leaf.amount \in Nat
    BY <2>2 DEF Leaf
  <2>6. share \in [Wallet -> Nat] /\ epoch_vault[e] \in Nat
    BY <1>1, <2>1, <2>4 DEF Epoch, EpochInv, EpochTypeOK
  <2>7. share[leaf.claimer] <= epoch_vault[e]
    BY <1>1, <2>4, <2>5, <2>6, ShareLeft
  <2>8. epoch_vault[e] >= leaf.amount
    BY <2>4, <2>5, <2>6, <2>7
  <2>9. compute_leaf(e, leaf.claimer, leaf.amount) = leaf
    BY <2>2 DEF Leaf, compute_leaf
  <2>10. QED
    BY <2>3, <2>8, <2>9 DEF ClaimReady, verify_merkle_proof
<1>2. QED
  BY <1>1, EpochInvariant, PTL

-----------------------------------------------------------------------------
(* What each instruction does to the epochs, the vaults and the records;   *)
(* the action properties and the refinement need no more.                  *)
LEMMA EpochSteps ==
  ASSUME EpochInv, EpochNext
  PROVE  \/ UNCHANGED epochOnlyVars
         \/ \E e \in EpochId, rec \in Epoch :
               /\ epoch[e] = NoEpoch /\ rec.status = "Pending"
               /\ epoch' = [epoch EXCEPT ![e] = rec]
               /\ UNCHANGED <<epoch_vault, claim_record>>
         \/ \E e \in EpochId, w \in Wallet : FundEpoch(w, e, epoch[e].total_rewards)
         \/ \E e \in EpochId, w \in Wallet : CloseEpoch(w, e)
         \/ \E e \in EpochId, w \in Wallet, a \in ClaimAmounts : Claim(w, e, a)
         \/ \E e \in EpochId, w \in Wallet, a \in Deposits :
               TransferToEpochVault(w, e, a)
<1>1. CASE \E w \in Wallet, e \in EpochId, r \in Roots, m \in Mint,
             t \in TotalRewards, s \in Times :
                 InitializeEpoch(w, e, r, m, t, s)
  <2>1. PICK w \in Wallet, e \in EpochId, r \in Roots, m \in Mint,
             t \in TotalRewards, s \in Times :
                 InitializeEpoch(w, e, r, m, t, s)
    BY <1>1
  <2> DEFINE rec == [status |-> "Pending", merkle_root |-> r, vault_mint |-> m,
                     total_rewards |-> t, funded_amount |-> 0,
                     snapshot_ts |-> s,
                     claim_deadline |-> now + config.distribution_period]
  <2>2. now + config.distribution_period \in Nat
    BY DEF EpochInv, EpochTypeOK, ConfigTypeOK, Config
  <2>3. rec \in Epoch
    BY <2>2, EpochAssumption, ConfigAssumption DEF Epoch, EpochStatus
  <2>4. /\ epoch[e] = NoEpoch /\ rec.status = "Pending"
        /\ epoch' = [epoch EXCEPT ![e] = rec]
        /\ UNCHANGED <<epoch_vault, claim_record>>
    BY <2>1 DEF InitializeEpoch, InitializeEpochReady
  <2> HIDE DEF rec
  <2>5. QED
    BY <2>3, <2>4
<1>2. CASE \E w \in Wallet, e \in EpochId, a \in TotalRewards :
             FundEpoch(w, e, a)
  <2>1. PICK w \in Wallet, e \in EpochId, a \in TotalRewards :
             FundEpoch(w, e, a)
    BY <1>2
  <2>2. a = epoch[e].total_rewards
    BY <2>1 DEF FundEpoch, FundReady
  <2>3. QED
    BY <2>1, <2>2
<1>3. QED
  BY <1>1, <1>2 DEF EpochNext, EpochOps

(* Epochs keep their terms and records are never rewritten, so a new       *)
(* distribution period affects future epochs only (lib.rs:437).            *)
THEOREM TermsNeverChange == EpochSpec => TermsFrozen
<1>1. ASSUME EpochInv, EpochNext, NEW e \in EpochId PROVE EpochKept(e)
  <2> USE DEF EpochKept, Terms
  <2> USE <1>1
  <2>1. CASE UNCHANGED epochOnlyVars
    BY <2>1 DEF epochOnlyVars
  <2>2. ASSUME NEW i \in EpochId, NEW rec \in Epoch, epoch[i] = NoEpoch,
               epoch' = [epoch EXCEPT ![i] = rec],
               UNCHANGED <<epoch_vault, claim_record>>
        PROVE  EpochKept(e)
    BY <2>2 DEF EpochInv, EpochTypeOK
  <2>3. ASSUME NEW i \in EpochId, NEW w \in Wallet,
               FundEpoch(w, i, epoch[i].total_rewards)
        PROVE  EpochKept(e)
    <3>1. epoch[i] \in Epoch
      BY <2>3, EpochRecord DEF EpochInv, FundEpoch, FundReady
    <3>2. QED
      BY <2>3, <3>1 DEF FundEpoch, FundReady, EpochInv, EpochTypeOK, Epoch
  <2>4. ASSUME NEW i \in EpochId, NEW w \in Wallet, CloseEpoch(w, i)
        PROVE  EpochKept(e)
    <3>1. epoch[i] \in Epoch
      BY <2>4, EpochRecord DEF EpochInv, CloseEpoch, CloseReady
    <3>2. QED
      BY <2>4, <3>1 DEF CloseEpoch, CloseReady, EpochInv, EpochTypeOK, Epoch
  <2>5. ASSUME NEW i \in EpochId, NEW w \in Wallet, NEW a \in ClaimAmounts,
               Claim(w, i, a)
        PROVE  EpochKept(e)
    BY <2>5 DEF Claim, ClaimReady, EpochInv, EpochTypeOK
  <2>6. ASSUME NEW i \in EpochId, NEW w \in Wallet, NEW a \in Deposits,
               TransferToEpochVault(w, i, a)
        PROVE  EpochKept(e)
    BY <2>6 DEF TransferToEpochVault
  <2> HIDE DEF EpochKept, Terms
  <2>7. QED
    BY <2>1, <2>2, <2>3, <2>4, <2>5, <2>6, EpochSteps
<1>2. ASSUME EpochInv, [EpochNext]_epochVars
      PROVE  [\A e \in EpochId : EpochKept(e)]_epochVars
  BY <1>1, <1>2
<1>3. QED
  BY <1>2, EpochInvariant, PTL DEF EpochSpec, TermsFrozen

(* USDC leaves a vault only to a first-time claimer before the deadline,   *)
(* for the recorded amount, or all of it to the treasury afterwards.       *)
THEOREM OutflowOnlyAsPromised == EpochSpec => OutflowAccounted
<1> DEFINE Fine(e) == epoch_vault'[e] < epoch_vault[e] =>
                         PaidToClaimer(e) \/ SweptToTreasury(e)
<1>1. ASSUME EpochInv, EpochNext, NEW e \in EpochId PROVE Fine(e)
  <2> USE <1>1
  <2>1. epoch_vault \in [EpochId -> Nat] /\ epoch_vault[e] \in Nat
    BY DEF EpochInv, EpochTypeOK
  <2>2. CASE UNCHANGED epoch_vault
    BY <2>1, <2>2
  <2>3. ASSUME NEW i \in EpochId, NEW w \in Wallet,
               FundEpoch(w, i, epoch[i].total_rewards)
        PROVE  Fine(e)
    <3>1. epoch[i] \in Epoch
      BY <2>3, EpochRecord DEF EpochInv, FundEpoch, FundReady
    <3>2. epoch[i].total_rewards \in Nat
      BY <3>1 DEF Epoch
    <3>3. QED
      BY <2>1, <2>3, <3>2 DEF FundEpoch
  <2>4. ASSUME NEW i \in EpochId, NEW w \in Wallet, CloseEpoch(w, i)
        PROVE  Fine(e)
    <3>1. config.treasury \in Wallet /\ epoch \in [EpochId -> Epoch \cup {NoEpoch}]
          /\ usdc \in [Wallet -> Nat]
      BY DEF EpochInv, EpochTypeOK, ConfigTypeOK, Config
    <3>2. CASE i # e
      BY <2>1, <2>4, <3>2 DEF CloseEpoch
    <3>3. CASE i = e
      <4>1. /\ now >= epoch[e].claim_deadline
            /\ epoch_vault'[e] = 0
            /\ usdc'[config.treasury] = usdc[config.treasury] + epoch_vault[e]
        BY <2>1, <2>4, <3>1, <3>3 DEF CloseEpoch, CloseReady
      <4>2. epoch'[e].status = "Closed"
        BY <2>4, <3>1, <3>3, EpochRecord
        DEF CloseEpoch, CloseReady, EpochInv, Epoch
      <4>3. QED
        BY <4>1, <4>2 DEF SweptToTreasury
    <3>4. QED
      BY <3>2, <3>3
  <2>5. ASSUME NEW i \in EpochId, NEW w \in Wallet, NEW a \in ClaimAmounts,
               Claim(w, i, a)
        PROVE  Fine(e)
    <3>1. CASE i # e
      BY <2>1, <2>5, <3>1 DEF Claim
    <3>2. CASE i = e
      <4>1. a \in Nat
        BY EpochAssumption
      <4>2. PaidToClaimer(e)
        BY <2>1, <2>5, <3>2, <4>1
        DEF Claim, ClaimReady, PaidToClaimer, EpochInv, EpochTypeOK
      <4>3. QED
        BY <4>2
    <3>3. QED
      BY <3>1, <3>2
  <2>6. ASSUME NEW i \in EpochId, NEW w \in Wallet, NEW a \in Deposits,
               TransferToEpochVault(w, i, a)
        PROVE  Fine(e)
    <3>1. a \in Nat
      BY EpochAssumption
    <3>2. QED
      BY <2>1, <2>6, <3>1 DEF TransferToEpochVault
  <2>7. QED
    BY <2>2, <2>3, <2>4, <2>5, <2>6, EpochSteps DEF epochOnlyVars
<1>2. ASSUME EpochInv, [EpochNext]_epochVars
      PROVE  [\A e \in EpochId : Fine(e)]_epochVars
  BY <1>1, <1>2
<1>3. QED
  BY <1>2, EpochInvariant, PTL DEF EpochSpec, OutflowAccounted

-----------------------------------------------------------------------------
(* The rewards side implements the abstract pots, one per epoch.           *)
THEOREM EpochsImplementPots == EpochSpec => ImplementsPots
<1>1. EpochInit => Pots!PotInit
  BY DEF EpochInit, Pots!PotInit, NoEpoch
<1>2. ASSUME EpochInv, EpochNext PROVE Pots!PotNext \/ UNCHANGED Pots!potVars
  <2> USE <1>2
  <2>1. epoch_vault \in [EpochId -> Nat]
    BY DEF EpochInv, EpochTypeOK
  <2>2. CASE UNCHANGED epochOnlyVars
    BY <2>2 DEF epochOnlyVars, Pots!potVars
  <2>3. ASSUME NEW e \in EpochId, NEW rec \in Epoch, epoch[e] = NoEpoch,
               rec.status = "Pending", epoch' = [epoch EXCEPT ![e] = rec],
               UNCHANGED <<epoch_vault, claim_record>>
        PROVE  Pots!Announce(e)
    <3>1. epoch[e].status = "None"
      BY <2>3 DEF NoEpoch
    <3>2. epoch'[e].status = "Pending"
      BY <2>3 DEF EpochInv, EpochTypeOK
    <3>3. \A i \in EpochId : i = e \/ epoch'[i].status = epoch[i].status
      BY <2>3 DEF EpochInv, EpochTypeOK
    <3>4. Pots!MovePhase(e, "None", "Pending")
      BY <3>1, <3>2, <3>3 DEF Pots!MovePhase
    <3>5. QED
      BY <2>3, <3>4 DEF Pots!Announce
  <2>4. ASSUME NEW e \in EpochId, NEW w \in Wallet,
               FundEpoch(w, e, epoch[e].total_rewards)
        PROVE  Pots!Open(e, epoch_vault'[e] - epoch_vault[e])
    <3>1. epoch[e] \in Epoch /\ epoch[e] # NoEpoch
      BY <2>4, EpochRecord DEF EpochInv, FundEpoch, FundReady
    <3>2. epoch[e].total_rewards \in Nat /\ epoch[e].total_rewards > 0
      BY <3>1 DEF Epoch, EpochInv, EpochAnnounced
    <3>3. epoch_vault'[e] = epoch_vault[e] + epoch[e].total_rewards
      BY <2>1, <2>4 DEF FundEpoch
    <3>4. epoch_vault'[e] - epoch_vault[e] = epoch[e].total_rewards
      BY <2>1, <3>2, <3>3
    <3>5. Pots!MovePhase(e, "Pending", "Active")
      BY <2>4, <3>1 DEF Pots!MovePhase, FundEpoch, FundReady, EpochInv, EpochTypeOK, Epoch
    <3>6. QED
      BY <2>1, <2>4, <3>2, <3>4, <3>5 DEF Pots!Open, FundEpoch
  <2>5. ASSUME NEW e \in EpochId, NEW w \in Wallet, CloseEpoch(w, e)
        PROVE  Pots!Finish(e)
    <3>1. epoch[e] \in Epoch
      BY <2>5, EpochRecord DEF EpochInv, CloseEpoch, CloseReady
    <3>2. Pots!MovePhase(e, "Active", "Closed")
      BY <2>5, <3>1 DEF Pots!MovePhase, CloseEpoch, CloseReady, EpochInv, EpochTypeOK, Epoch
    <3>3. QED
      BY <2>5, <3>2 DEF Pots!Finish, CloseEpoch
  <2>6. ASSUME NEW e \in EpochId, NEW w \in Wallet, NEW a \in ClaimAmounts,
               Claim(w, e, a)
        PROVE  Pots!Pay(e, w, epoch_vault[e] - epoch_vault'[e])
    <3>1. a \in Nat /\ a > 0
      BY <2>6, EpochAssumption DEF Claim, ClaimReady
    <3>2. epoch_vault[e] - epoch_vault'[e] = a
      BY <2>1, <2>6, <3>1 DEF Claim
    <3>3. QED
      BY <2>1, <2>6, <3>1, <3>2 DEF Pots!Pay, Claim, ClaimReady
  <2>7. ASSUME NEW e \in EpochId, NEW w \in Wallet, NEW a \in Deposits,
               TransferToEpochVault(w, e, a)
        PROVE  Pots!Gift(e, epoch_vault'[e] - epoch_vault[e])
    <3>1. a \in Nat
      BY EpochAssumption
    <3>2. epoch_vault'[e] - epoch_vault[e] = a
      BY <2>1, <2>7, <3>1 DEF TransferToEpochVault
    <3>3. epoch[e].status # "None"
      BY <2>7, StatusOfNoEpoch DEF TransferToEpochVault, EpochInv
    <3>4. /\ epoch_vault' = [epoch_vault EXCEPT ![e] = @ + a]
          /\ UNCHANGED <<epoch, claim_record>>
      BY <2>7 DEF TransferToEpochVault
    <3>5. /\ [i \in EpochId |-> epoch[i].status][e] # "None"
          /\ UNCHANGED <<[i \in EpochId |-> epoch[i].status], claim_record>>
      BY <3>3, <3>4
    <3>6. Pots!Gift(e, a)
      BY <3>1, <3>4, <3>5 DEF Pots!Gift
    <3>7. QED
      BY <3>2, <3>6
  <2>8. QED
    BY <2>2, <2>3, <2>4, <2>5, <2>6, <2>7, EpochSteps DEF Pots!PotNext
<1>3. UNCHANGED epochVars => UNCHANGED Pots!potVars
  BY DEF epochVars, Pots!potVars
<1>4. EpochInv /\ [EpochNext]_epochVars => [Pots!PotNext]_(Pots!potVars)
  BY <1>2, <1>3
<1>5. QED
  BY <1>1, <1>4, EpochInvariant, PTL DEF EpochSpec, ImplementsPots, Pots!PotSpec
=============================================================================
