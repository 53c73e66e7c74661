------------------------------ MODULE FeeProofs ------------------------------
(* The two places that hold fees and how they are split: the settlement     *)
(* program, for all keys, mints, amounts and allocations, and the           *)
(* configuration of the backend, for any replicas, requests, tiers and      *)
(* changes.                                                                 *)
EXTENDS FeeSettlement, FeeConfig, SumTheorems, SequenceTheorems, TLAPS

-----------------------------------------------------------------------------
(* FeeSettlement.  The arithmetic of the split is proved once, for numbers; *)
(* the invariant says what every instruction leaves of the allocations, the *)
(* bumps and the balances.                                                  *)
(* Division by 10000, rounded down. *)
LEMMA DivBps ==
    ASSUME NEW p \in Nat
    PROVE  /\ p \div 10000 \in Nat
           /\ 10000 * (p \div 10000) <= p
           /\ p < 10000 * (p \div 10000) + 10000
OBVIOUS

LEMMA Distributes ==
    ASSUME NEW n \in Nat, NEW a \in Nat, NEW b \in Nat, NEW c \in Nat, NEW d \in Nat,
           a + b + c + d = 10000
    PROVE  n * a + n * b + n * c + n * d = n * 10000
<1>1. n * a + n * b + n * c + n * d = n * (a + b + c + d)
  OBVIOUS
<1> QED
  BY <1>1

(* Four allocations that make 100% divide every total: the first three     *)
(* shares leave at least the fourth's own.                                 *)
LEMMA Split ==
    ASSUME NEW total \in Nat, NEW bps \in [WalletType -> Nat], total_bps(bps) = 10000
    PROVE  LET share == split_usdc(total, bps) IN
           /\ share \in [WalletType -> Nat]
           /\ share[0] + share[1] + share[2] + share[3] = total
           /\ \A t \in WalletType : share[t] >= bps_of(total, bps[t])
<1> DEFINE a == bps_of(total, bps[0])
           b == bps_of(total, bps[1])
           c == bps_of(total, bps[2])
           d == bps_of(total, bps[3])
           share == split_usdc(total, bps)
<1>1. /\ 0 \in WalletType /\ 1 \in WalletType /\ 2 \in WalletType /\ 3 \in WalletType
      /\ \A t \in WalletType : t \in {0, 1, 2, 3}
      /\ \A t \in WalletType : bps[t] \in Nat
  BY DEF WalletType
<1>2. /\ a \in Nat /\ b \in Nat /\ c \in Nat /\ d \in Nat
      /\ 10000 * a <= total * bps[0] /\ 10000 * b <= total * bps[1]
      /\ 10000 * c <= total * bps[2] /\ 10000 * d <= total * bps[3]
  <2>1. ASSUME NEW t \in WalletType
        PROVE  bps_of(total, bps[t]) \in Nat /\ 10000 * bps_of(total, bps[t]) <= total * bps[t]
    <3> DEFINE p == total * bps[t]
    <3>1. p \in Nat
      BY <1>1
    <3>2. bps_of(total, bps[t]) = p \div 10000
      BY DEF bps_of
    <3> HIDE DEF p
    <3>3. p \div 10000 \in Nat /\ 10000 * (p \div 10000) <= p
      BY <3>1, DivBps
    <3> QED
      BY <3>2, <3>3 DEF p
  <2> QED
    BY <1>1, <2>1
<1>3. /\ total * bps[0] \in Nat /\ total * bps[1] \in Nat
      /\ total * bps[2] \in Nat /\ total * bps[3] \in Nat
  BY <1>1
<1>4. total * bps[0] + total * bps[1] + total * bps[2] + total * bps[3] = total * 10000
  BY <1>1, Distributes DEF total_bps
<1>5. /\ share[0] = a /\ share[1] = b /\ share[2] = c
      /\ share[3] = total - a - b - c
      /\ share = [t \in WalletType |-> IF t < 3 THEN bps_of(total, bps[t]) ELSE total - a - b - c]
  BY <1>1 DEF split_usdc
<1> HIDE DEF a, b, c, d, share
<1>6. a + b + c + d <= total
  BY <1>2, <1>3, <1>4
<1>7. total - a - b - c \in Nat /\ total - a - b - c >= d
  BY <1>2, <1>6
<1>8. share[0] + share[1] + share[2] + share[3] = total
  BY <1>2, <1>5, <1>7
<1>9. \A t \in WalletType : share[t] \in Nat /\ share[t] >= bps_of(total, bps[t])
  <2>1. share[0] \in Nat /\ share[0] >= bps_of(total, bps[0])
    BY <1>2, <1>5 DEF a
  <2>2. share[1] \in Nat /\ share[1] >= bps_of(total, bps[1])
    BY <1>2, <1>5 DEF b
  <2>3. share[2] \in Nat /\ share[2] >= bps_of(total, bps[2])
    BY <1>2, <1>5 DEF c
  <2>4. share[3] \in Nat /\ share[3] >= bps_of(total, bps[3])
    BY <1>2, <1>5, <1>7 DEF d
  <2> QED
    BY <1>1, <2>1, <2>2, <2>3, <2>4
<1>10. share \in [WalletType -> Nat]
  BY <1>5, <1>9
<1> QED
  BY <1>8, <1>9, <1>10 DEF share

(* The fee on an amount is an amount. *)
LEMMA CalculateFee ==
    ASSUME NEW n \in Nat
    PROVE  calculate_fee(n, FEE_BPS) \in Nat
<1> DEFINE p == n * FEE_BPS
<1>1. p \in Nat
  BY DEF FEE_BPS
<1>2. calculate_fee(n, FEE_BPS) = p \div 10000
  BY DEF calculate_fee
<1> HIDE DEF p
<1> QED
  BY <1>1, <1>2, DivBps

-----------------------------------------------------------------------------
(* The inductive invariant: the allocations make 100%, and no instruction  *)
(* stores a bump.                                                          *)
AllocationsWhole == config.initialized => total_bps(config.bps) = 10000
NoBumpStored == \A m \in Mint : vault[m].bump = 0
FeeInv == FeeTypeOK /\ AccumulatedBacked /\ AllocationsWhole /\ NoBumpStored

(* What a call of an administrator leaves. *)
LEMMA AdminKeeps ==
    ASSUME FeeInv, Admin, config' \in Config,
           config'.initialized => total_bps(config'.bps) = 10000
    PROVE  FeeInv' /\ ata' = ata /\ usdc' = usdc /\ paid' = paid
<1>1. FeeTypeOK'
  BY DEF FeeInv, FeeTypeOK, Admin, vaults
<1>2. AccumulatedBacked'
  BY DEF FeeInv, AccumulatedBacked, Admin, vaults
<1>3. AllocationsWhole'
  BY DEF AllocationsWhole
<1>4. NoBumpStored'
  BY DEF FeeInv, NoBumpStored, Admin, vaults
<1> QED
  BY <1>1, <1>2, <1>3, <1>4 DEF FeeInv, Admin, vaults

LEMMA FeeInitInv == FeeInit => FeeInv
<1> SUFFICES ASSUME FeeInit PROVE FeeInv
  OBVIOUS
<1> USE FeeAssumption
<1>1. FeeTypeOK
  <2>1. config \in Config
    BY DEF FeeInit, Config, WalletType
  <2>2. vault \in [Mint -> FeeVault]
    BY DEF FeeInit, FeeVault
  <2> QED
    BY <2>1, <2>2 DEF FeeInit, FeeTypeOK, Answer
<1>2. AccumulatedBacked /\ AllocationsWhole /\ NoBumpStored
  BY DEF FeeInit, AccumulatedBacked, AllocationsWhole, NoBumpStored
<1> QED
  BY <1>1, <1>2 DEF FeeInv

LEMMA InitializeKeeps ==
    ASSUME FeeInv, NEW owner \in Key, NEW multisig \in Key,
           NEW wallet \in [WalletType -> Address], NEW bps \in Allocations,
           NEW interval \in Intervals, NEW threshold \in Thresholds,
           initialize_config(owner, multisig, wallet, bps, interval, threshold)
    PROVE  FeeInv' /\ ata' = ata /\ usdc' = usdc /\ paid' = paid
<1>1. config' \in Config
  BY FeeAssumption DEF initialize_config, Config
<1>2. total_bps(config'.bps) = 10000
  BY DEF initialize_config
<1>3. Admin
  BY DEF initialize_config, Admin
<1> QED
  BY <1>1, <1>2, <1>3, AdminKeeps

(* The fee moves from the payer to the vault, in the balances and in what  *)
(* the vault says.                                                         *)
LEMMA CollectKeeps ==
    ASSUME FeeInv, NEW m \in Mint, NEW amount \in SwapAmounts, collect_fee(m, amount)
    PROVE  FeeInv' /\ ata'[m] >= ata[m] /\ (\A n \in Mint \ {m} : ata'[n] = ata[n])
           /\ usdc' = usdc /\ paid' = paid
<1> DEFINE fee == calculate_fee(amount, FEE_BPS)
<1>1. fee \in Nat
  BY FeeAssumption, CalculateFee
<1>2. /\ holder[m] >= fee
      /\ holder' = [holder EXCEPT ![m] = @ - fee]
      /\ ata' = [ata EXCEPT ![m] = @ + fee]
      /\ vault' = [vault EXCEPT ![m].accumulated = @ + fee]
      /\ UNCHANGED <<now, config, usdc, paid, answer>>
  BY DEF collect_fee
<1> HIDE DEF fee
<1>3. FeeTypeOK
  BY DEF FeeInv
<1>4. /\ ata'[m] = ata[m] + fee /\ \A n \in Mint \ {m} : ata'[n] = ata[n]
      /\ vault'[m].accumulated = vault[m].accumulated + fee
      /\ vault'[m].bump = vault[m].bump
      /\ \A n \in Mint \ {m} : vault'[n] = vault[n]
      /\ ata[m] \in Nat /\ vault[m].accumulated \in Nat
  BY <1>2, <1>3 DEF FeeTypeOK, FeeVault
<1>5. FeeTypeOK'
  <2>1. ata' \in [Mint -> Nat] /\ holder' \in [Mint -> Nat]
    BY <1>1, <1>2, <1>3 DEF FeeTypeOK
  <2>2. vault' \in [Mint -> FeeVault]
    BY <1>1, <1>2, <1>3 DEF FeeTypeOK, FeeVault
  <2> QED
    BY <1>2, <1>3, <2>1, <2>2 DEF FeeTypeOK
<1>6. AccumulatedBacked'
  <2> SUFFICES ASSUME NEW n \in Mint PROVE vault'[n].accumulated <= ata'[n]
    BY DEF AccumulatedBacked
  <2>1. vault[n].accumulated <= ata[n]
    BY DEF FeeInv, AccumulatedBacked
  <2>2. CASE n = m
    BY <1>1, <1>4, <2>1, <2>2
  <2>3. CASE n # m
    BY <1>4, <2>1, <2>3
  <2> QED
    BY <2>2, <2>3
<1>7. AllocationsWhole'
  BY <1>2 DEF FeeInv, AllocationsWhole
<1>8. NoBumpStored'
  BY <1>4 DEF FeeInv, NoBumpStored
<1>9. ata'[m] >= ata[m]
  BY <1>1, <1>4
<1> QED
  BY <1>2, <1>4, <1>5, <1>6, <1>7, <1>8, <1>9 DEF FeeInv

(* Nothing was converted, so a settlement is refused. *)
LEMMA SettleKeeps ==
    ASSUME FeeInv, NEW min \in {0, 1}, settle(min)
    PROVE  FeeInv' /\ ata' = ata /\ usdc' = usdc /\ paid' = paid
<1>1. Refusal(min) \in Answer /\ Refusal(min) # "none"
  <2>1. converted < min \/ converted = 0
    BY DEF converted
  <2> QED
    BY <2>1, Zenon DEF Refusal, Answer
<1>2. /\ config' = config /\ usdc' = usdc /\ paid' = paid
      /\ answer' \in Answer
      /\ UNCHANGED <<now, vaults>>
  BY <1>1 DEF settle
<1>3. FeeTypeOK'
  BY <1>2 DEF FeeInv, FeeTypeOK, vaults
<1>4. AccumulatedBacked' /\ AllocationsWhole' /\ NoBumpStored'
  BY <1>2 DEF FeeInv, AccumulatedBacked, AllocationsWhole, NoBumpStored, vaults
<1> QED
  BY <1>2, <1>3, <1>4 DEF FeeInv, vaults

(* An administrator's call that answers: with no bump stored the vault's   *)
(* address is never derived, so the withdrawal fails.                      *)
LEMMA EmergencyKeeps ==
    ASSUME FeeInv, NEW signer \in Key, NEW m \in Mint, NEW amount \in 1 .. Supply,
           emergency_withdraw(signer, m, amount)
    PROVE  FeeInv' /\ ata' = ata /\ usdc' = usdc /\ paid' = paid
<1>1. vault[m].bump # Bump[m]
  <2>1. vault[m].bump = 0
    BY DEF FeeInv, NoBumpStored
  <2>2. Bump[m] \in 1 .. 255
    BY FeeAssumption
  <2> QED
    BY <2>1, <2>2
<1>2. /\ answer' = "ConstraintSeeds" /\ ata' = ata /\ vault' = vault
      /\ UNCHANGED <<now, config, holder, usdc, paid>>
  BY <1>1 DEF emergency_withdraw
<1>3. FeeTypeOK'
  BY <1>2 DEF FeeInv, FeeTypeOK, Answer
<1>4. AccumulatedBacked' /\ AllocationsWhole' /\ NoBumpStored'
  BY <1>2 DEF FeeInv, AccumulatedBacked, AllocationsWhole, NoBumpStored
<1> QED
  BY <1>2, <1>3, <1>4 DEF FeeInv

LEMMA DonateKeeps ==
    ASSUME FeeInv, NEW m \in Mint, Donate(m)
    PROVE  FeeInv' /\ (\A n \in Mint : ata'[n] >= ata[n]) /\ usdc' = usdc /\ paid' = paid
<1>1. FeeTypeOK
  BY DEF FeeInv
<1>2. /\ \A n \in Mint : ata[n] \in Nat /\ ata'[n] \in Nat /\ ata'[n] >= ata[n]
      /\ ata' \in [Mint -> Nat] /\ holder' \in [Mint -> Nat]
      /\ UNCHANGED <<now, config, vault, usdc, paid, answer>>
  BY <1>1 DEF FeeTypeOK, Donate
<1>3. FeeTypeOK'
  BY <1>1, <1>2 DEF FeeTypeOK
<1>4. AccumulatedBacked'
  <2> SUFFICES ASSUME NEW n \in Mint PROVE vault'[n].accumulated <= ata'[n]
    BY DEF AccumulatedBacked
  <2>1. vault[n].accumulated <= ata[n] /\ vault[n].accumulated \in Nat
    BY <1>1 DEF FeeInv, AccumulatedBacked, FeeTypeOK, FeeVault
  <2> QED
    BY <1>2, <2>1
<1>5. AllocationsWhole' /\ NoBumpStored'
  BY <1>2 DEF FeeInv, AllocationsWhole, NoBumpStored
<1> QED
  BY <1>2, <1>3, <1>4, <1>5 DEF FeeInv

(* Every step keeps the invariant and takes nothing out.                   *)
NothingLeaves == (\A m \in Mint : ata'[m] >= ata[m]) /\ usdc' >= usdc /\ paid' = paid

LEMMA AdminCalls ==
    ASSUME FeeInv, NEW signer \in Key,
           \/ \E threshold \in Thresholds : update_threshold(signer, threshold)
           \/ \E given \in SUBSET WalletType, a \in Address : update_wallets(signer, given, a)
           \/ \E bps \in Allocations : update_allocations(signer, bps)
           \/ \E interval \in Intervals : update_settlement_interval(signer, interval)
           \/ \E paused \in BOOLEAN : set_paused(signer, paused)
           \/ \E t \in 0 .. 4, locked \in BOOLEAN : set_wallet_lock(signer, t, locked)
           \/ \E new_owner \in Key : rotate_admin(signer, new_owner)
    PROVE  FeeInv' /\ ata' = ata /\ usdc' = usdc /\ paid' = paid
<1> USE FeeAssumption
<1>1. config \in Config /\ (config.initialized => total_bps(config.bps) = 10000)
  BY DEF FeeInv, FeeTypeOK, AllocationsWhole
<1>2. CASE \E threshold \in Thresholds : update_threshold(signer, threshold)
  <2>1. Admin /\ config' \in Config /\ config'.bps = config.bps
    BY <1>1, <1>2 DEF update_threshold, Config
  <2>2. config'.initialized = config.initialized
    BY <1>1, <1>2 DEF update_threshold, Config
  <2> QED
    BY <1>1, <2>1, <2>2, AdminKeeps
<1>3. CASE \E given \in SUBSET WalletType, a \in Address : update_wallets(signer, given, a)
  <2> PICK given \in SUBSET WalletType, a \in Address : update_wallets(signer, given, a)
    BY <1>3
  <2> DEFINE w == [t \in WalletType |-> IF t \in given THEN a ELSE config.wallet[t]]
  <2>1. w \in [WalletType -> Address]
    BY <1>1 DEF Config
  <2>2. Admin /\ config' = [config EXCEPT !.wallet = w]
    BY DEF update_wallets
  <2> HIDE DEF w
  <2>3. config' \in Config /\ config'.bps = config.bps
        /\ config'.initialized = config.initialized
    BY <1>1, <2>1, <2>2 DEF Config
  <2> QED
    BY <1>1, <2>2, <2>3, AdminKeeps
<1>4. CASE \E bps \in Allocations : update_allocations(signer, bps)
  <2>1. Admin /\ config' \in Config /\ total_bps(config'.bps) = 10000
    BY <1>1, <1>4 DEF update_allocations, Config
  <2> QED
    BY <2>1, AdminKeeps
<1>5. CASE \E interval \in Intervals : update_settlement_interval(signer, interval)
  <2>1. Admin /\ config' \in Config /\ config'.bps = config.bps
    BY <1>1, <1>5 DEF update_settlement_interval, Config
  <2>2. config'.initialized = config.initialized
    BY <1>1, <1>5 DEF update_settlement_interval, Config
  <2> QED
    BY <1>1, <2>1, <2>2, AdminKeeps
<1>6. CASE \E paused \in BOOLEAN : set_paused(signer, paused)
  <2>1. Admin /\ config' \in Config /\ config'.bps = config.bps
    BY <1>1, <1>6 DEF set_paused, Config
  <2>2. config'.initialized = config.initialized
    BY <1>1, <1>6 DEF set_paused, Config
  <2> QED
    BY <1>1, <2>1, <2>2, AdminKeeps
<1>7. CASE \E t \in 0 .. 4, locked \in BOOLEAN : set_wallet_lock(signer, t, locked)
  <2> PICK t \in 0 .. 4, locked \in BOOLEAN : set_wallet_lock(signer, t, locked)
    BY <1>7
  <2> DEFINE l == [config.locked EXCEPT ![t] = locked]
  <2>1. l \in [WalletType -> BOOLEAN]
    <3>1. config.locked \in [WalletType -> BOOLEAN]
      BY <1>1 DEF Config
    <3> QED
      BY <3>1
  <2>2. Admin /\ config' = [config EXCEPT !.locked = l]
    BY DEF set_wallet_lock
  <2> HIDE DEF l
  <2>3. config' \in Config /\ config'.bps = config.bps
        /\ config'.initialized = config.initialized
    BY <1>1, <2>1, <2>2 DEF Config
  <2> QED
    BY <1>1, <2>2, <2>3, AdminKeeps
<1>8. CASE \E new_owner \in Key : rotate_admin(signer, new_owner)
  <2>1. Admin /\ config' \in Config /\ config'.bps = config.bps
    BY <1>1, <1>8 DEF rotate_admin, Config
  <2>2. config'.initialized = config.initialized
    <3> PICK new_owner \in Key : config' = [config EXCEPT !.authority = new_owner]
      BY <1>8 DEF rotate_admin
    <3> QED
      BY <1>1 DEF Config
  <2> QED
    BY <1>1, <2>1, <2>2, AdminKeeps
<1> QED
  BY <1>2, <1>3, <1>4, <1>5, <1>6, <1>7, <1>8

LEMMA FeeStep ==
    ASSUME FeeInv, FeeNext
    PROVE  FeeInv' /\ NothingLeaves
<1>1. /\ \A m \in Mint : ata[m] \in Nat
      /\ usdc \in Nat
  BY DEF FeeInv, FeeTypeOK
<1>2. ASSUME FeeInv', ata' = ata, usdc' = usdc, paid' = paid
      PROVE  FeeInv' /\ NothingLeaves
  BY <1>1, <1>2 DEF NothingLeaves
<1>3. CASE \E owner, multisig \in Key, wallet \in [WalletType -> Address],
              bps \in Allocations, interval \in Intervals, threshold \in Thresholds :
              initialize_config(owner, multisig, wallet, bps, interval, threshold)
  BY <1>2, <1>3, InitializeKeeps
<1>4. CASE \E m \in Mint, amount \in SwapAmounts : collect_fee(m, amount)
  <2> PICK m \in Mint, amount \in SwapAmounts : collect_fee(m, amount)
    BY <1>4
  <2>1. /\ FeeInv' /\ ata'[m] >= ata[m] /\ \A n \in Mint \ {m} : ata'[n] = ata[n]
        /\ usdc' = usdc /\ paid' = paid
    BY CollectKeeps
  <2>2. \A n \in Mint : ata'[n] >= ata[n]
    BY <1>1, <2>1
  <2> QED
    BY <1>1, <2>1, <2>2 DEF NothingLeaves
<1>5. CASE \E min \in {0, 1} : settle(min)
  BY <1>2, <1>5, SettleKeeps
<1>6. CASE \E signer \in Key :
              \/ \E threshold \in Thresholds : update_threshold(signer, threshold)
              \/ \E given \in SUBSET WalletType, a \in Address :
                    update_wallets(signer, given, a)
              \/ \E bps \in Allocations : update_allocations(signer, bps)
              \/ \E interval \in Intervals : update_settlement_interval(signer, interval)
              \/ \E paused \in BOOLEAN : set_paused(signer, paused)
              \/ \E t \in 0 .. 4, locked \in BOOLEAN : set_wallet_lock(signer, t, locked)
              \/ \E new_owner \in Key : rotate_admin(signer, new_owner)
  BY <1>2, <1>6, AdminCalls
<1>7. CASE \E signer \in Key, m \in Mint : \E amount \in 1 .. Supply :
              emergency_withdraw(signer, m, amount)
  BY <1>2, <1>7, EmergencyKeeps
<1>8. CASE \E m \in Mint : Donate(m)
  BY <1>1, <1>8, DonateKeeps DEF NothingLeaves
<1>9. CASE FundUsdcVault
  <2>1. FeeTypeOK' /\ AccumulatedBacked' /\ AllocationsWhole' /\ NoBumpStored'
    BY <1>9 DEF FundUsdcVault, vaults, FeeInv, FeeTypeOK, AccumulatedBacked,
                AllocationsWhole, NoBumpStored
  <2>2. NothingLeaves
    BY <1>1, <1>9 DEF FundUsdcVault, vaults, NothingLeaves
  <2> QED
    BY <2>1, <2>2 DEF FeeInv
<1>10. CASE Tick
  <2>1. now' \in Nat /\ UNCHANGED <<config, vaults, usdc, paid, answer>>
    BY <1>10, FeeAssumption DEF Tick
  <2>2. FeeTypeOK' /\ AccumulatedBacked' /\ AllocationsWhole' /\ NoBumpStored'
    BY <2>1 DEF vaults, FeeInv, FeeTypeOK, AccumulatedBacked, AllocationsWhole, NoBumpStored
  <2>3. NothingLeaves
    BY <1>1, <2>1 DEF vaults, NothingLeaves
  <2> QED
    BY <2>2, <2>3 DEF FeeInv
<1> QED
  BY <1>3, <1>4, <1>5, <1>6, <1>7, <1>8, <1>9, <1>10 DEF FeeNext

(* With allocations that make 100% every total is given out exactly. *)
LEMMA InvSplits == ASSUME FeeInv PROVE SplitIsExact
<1> SUFFICES ASSUME config.initialized, NEW total \in Totals
             PROVE  LET share == split_usdc(total, config.bps) IN
                    /\ share[0] + share[1] + share[2] + share[3] = total
                    /\ \A t \in WalletType : share[t] >= bps_of(total, config.bps[t])
  BY DEF SplitIsExact
<1> DEFINE bps == config.bps
<1>1. total \in Nat /\ bps \in [WalletType -> Nat] /\ total_bps(bps) = 10000
  BY FeeAssumption DEF FeeInv, FeeTypeOK, Config, AllocationsWhole
<1> HIDE DEF bps
<1>2. LET share == split_usdc(total, bps) IN
      /\ share[0] + share[1] + share[2] + share[3] = total
      /\ \A t \in WalletType : share[t] >= bps_of(total, bps[t])
  BY <1>1, Split
<1> QED
  BY <1>2 DEF bps

-----------------------------------------------------------------------------
LEMMA FeeInvariant == FeeSpec => []FeeInv
<1>1. FeeInv /\ [FeeNext]_feeVars => FeeInv'
  <2> SUFFICES ASSUME FeeInv, UNCHANGED feeVars PROVE FeeInv'
    BY FeeStep
  <2>1. FeeTypeOK' /\ AccumulatedBacked' /\ AllocationsWhole' /\ NoBumpStored'
    BY DEF feeVars, vaults, FeeInv, FeeTypeOK, AccumulatedBacked, AllocationsWhole, NoBumpStored
  <2> QED
    BY <2>1 DEF FeeInv
<1> QED
  BY <1>1, FeeInitInv, PTL DEF FeeSpec

(* Every value stays in its range: in particular nobody pays a fee he does *)
(* not have (collect_fee.rs).                                              *)
THEOREM FeeTypes == FeeSpec => []FeeTypeOK
<1>1. FeeInv => FeeTypeOK
  BY DEF FeeInv
<1> QED
  BY <1>1, FeeInvariant, PTL

(* What a vault says it accumulated is in its token account. *)
THEOREM FeeBacked == FeeSpec => []AccumulatedBacked
<1>1. FeeInv => AccumulatedBacked
  BY DEF FeeInv
<1> QED
  BY <1>1, FeeInvariant, PTL

(* Whatever the administrators have set, a total is divided to the last    *)
(* unit and nobody gets less than the allocation (split_usdc).             *)
THEOREM FeeSplit == FeeSpec => []SplitIsExact
<1>1. FeeInv => SplitIsExact
  BY InvSplits
<1> QED
  BY <1>1, FeeInvariant, PTL

(* No sequence of calls moves a collected fee on: a settlement converts    *)
(* nothing and an emergency withdrawal derives a wrong address.            *)
THEOREM FeesStay == FeeSpec => FeesNeverLeave
<1>1. FeeInv /\ [FeeNext]_feeVars => [NothingLeaves]_feeVars
  BY FeeStep
<1> QED
  BY <1>1, FeeInvariant, PTL DEF FeeSpec, FeesNeverLeave, NothingLeaves

-----------------------------------------------------------------------------
(* FeeConfig: the portions make 100% in the table and in every cache.       *)
AllWhole(S) == \A v \in S : Total(v) = WHOLE

(* What a fetched configuration holds until it is stored. *)
GotWhole(q) == q.step = "store" /\ q.key = "fee_configuration" => AllWhole(q.got)

Fields == {"step", "rest", "replica", "key", "got", "todo", "base", "entity", "changed"}

RequestOK(q) ==
    /\ Fields \subseteq DOMAIN q
    /\ q.rest \in {"new", "over"}
    /\ GotWhole(q)

ConfigInv ==
    /\ DOMAIN rows = Id /\ DOMAIN cache = Replica /\ DOMAIN request = Call
    /\ \A r \in Replica : DOMAIN cache[r] = CacheKey
    /\ \A c \in Call : RequestOK(request[c])
    /\ PortionsWhole

LEMMA IdleOK == \A s : s # "store" => RequestOK(IdleCall(s))
BY DEF IdleCall, RequestOK, GotWhole, Fields

LEMMA ConfigInitInv == ConfigInit => ConfigInv
<1> SUFFICES ASSUME ConfigInit PROVE ConfigInv
  OBVIOUS
<1>1. \A c \in Call : RequestOK(request[c])
  BY IdleOK DEF ConfigInit
<1>2. rows[ConfigId] = InitialConfig /\ DOMAIN rows = Id
  BY DEF ConfigInit, Id
<1>3. PortionsWhole
  BY <1>2, ConfigAssumption DEF PortionsWhole, ConfigInit, CacheKey
<1> QED BY <1>1, <1>2, <1>3 DEF ConfigInv, ConfigInit

(* A request that does not come to store anything. *)
LEMMA OtherRequest ==
    ASSUME ConfigInv, NEW c \in Call, NEW q, request' = [request EXCEPT ![c] = q], RequestOK(q),
           UNCHANGED <<rows, cache>>
    PROVE  ConfigInv'
<1>1. DOMAIN request' = Call /\ \A b \in Call : RequestOK(request'[b])
  BY DEF ConfigInv
<1> QED BY <1>1 DEF ConfigInv, PortionsWhole

LEMMA StepMoves ==
    ASSUME ConfigInv, NEW c \in Call, NEW s, s # "store", GoOn(c, s), UNCHANGED <<rows, cache>>
    PROVE  ConfigInv'
<1> DEFINE q == [request[c] EXCEPT !.step = s]
<1>1. request' = [request EXCEPT ![c] = q]
  BY DEF GoOn
<1>2. RequestOK(q)
  BY DEF ConfigInv, RequestOK, GotWhole, Fields
<1> HIDE DEF q
<1> QED BY <1>1, <1>2, OtherRequest

LEMMA OverMoves ==
    ASSUME ConfigInv, NEW c \in Call, Over(c), UNCHANGED <<rows, cache>>
    PROVE  ConfigInv'
<1>1. RequestOK(IdleCall(request[c].rest))
  BY IdleOK DEF ConfigInv, RequestOK
<1> QED BY <1>1, OtherRequest DEF Over

LEMMA GetStep ==
    ASSUME ConfigInv, NEW c \in Call, Get(c)
    PROVE  ConfigInv'
<1>1. PICK r \in Replica, k \in CacheKey :
          request' = [request EXCEPT ![c].step = "fetch", ![c].replica = r, ![c].key = k]
  BY DEF Get
<1> DEFINE q == [request[c] EXCEPT !.step = "fetch", !.replica = r, !.key = k]
<1>2. RequestOK(q)
  BY DEF ConfigInv, RequestOK, GotWhole, Fields
<1>3. request' = [request EXCEPT ![c] = q] /\ UNCHANGED <<rows, cache>>
  BY <1>1 DEF Get
<1> HIDE DEF q
<1> QED BY <1>2, <1>3, OtherRequest

(* The stored configuration makes a whole, and so do the defaults. *)
LEMMA FetchStep ==
    ASSUME ConfigInv, NEW c \in Call, Fetch(c) \/ FetchFails(c)
    PROVE  ConfigInv'
<1>1. PICK v \in {Stored(request[c].key), Default(request[c].key)} : Answered(c, v)
  BY DEF Fetch, FetchFails
<1>2. request[c].key = "fee_configuration" => Total(v) = WHOLE
  <2>1. ASSUME request[c].key = "fee_configuration" PROVE v \in {rows[ConfigId], DefaultConfig}
    BY <2>1 DEF Stored, Default
  <2> QED BY <2>1, ConfigAssumption DEF ConfigInv, PortionsWhole
<1> DEFINE q == [request[c] EXCEPT !.step = "store", !.got = {v}]
<1>3. RequestOK(q)
  BY <1>2 DEF ConfigInv, RequestOK, GotWhole, AllWhole, Fields
<1>4. request' = [request EXCEPT ![c] = q] /\ UNCHANGED <<rows, cache>>
  BY <1>1 DEF Answered
<1> HIDE DEF q
<1> QED BY <1>3, <1>4, OtherRequest

(* A copy is replaced by a whole one, or dropped. *)
LEMMA CacheMoves ==
    ASSUME ConfigInv, NEW r, NEW k, NEW S, cache' = [cache EXCEPT ![r][k] = S],
           k = "fee_configuration" => AllWhole(S),
           rows' = rows, DOMAIN request' = Call, \A b \in Call : RequestOK(request'[b])
    PROVE  ConfigInv'
<1> DEFINE m == [cache[r] EXCEPT ![k] = S]
<1>1. cache' = [cache EXCEPT ![r] = m]
  OBVIOUS
<1>2. r \in Replica => /\ DOMAIN m = CacheKey
                       /\ \A v \in m["fee_configuration"] : Total(v) = WHOLE
  BY DEF ConfigInv, PortionsWhole, CacheKey, AllWhole
<1> HIDE DEF m
<1>3. DOMAIN cache' = Replica /\ \A t \in Replica : DOMAIN cache'[t] = CacheKey
  BY <1>1, <1>2 DEF ConfigInv
<1>4. \A t \in Replica : \A v \in cache'[t]["fee_configuration"] : Total(v) = WHOLE
  BY <1>1, <1>2 DEF ConfigInv, PortionsWhole
<1> QED BY <1>3, <1>4 DEF ConfigInv, PortionsWhole

LEMMA CacheDropped ==
    ASSUME ConfigInv, NEW r, NEW k, cache' = [cache EXCEPT ![r][k] = {}], rows' = rows,
           DOMAIN request' = Call, \A b \in Call : RequestOK(request'[b])
    PROVE  ConfigInv'
<1>1. k = "fee_configuration" => AllWhole({})
  BY DEF AllWhole
<1> QED BY <1>1, CacheMoves

LEMMA OverRequest ==
    ASSUME ConfigInv, NEW c \in Call, Over(c)
    PROVE  DOMAIN request' = Call /\ \A b \in Call : RequestOK(request'[b])
<1>1. RequestOK(IdleCall(request[c].rest))
  BY IdleOK DEF ConfigInv, RequestOK
<1> QED BY <1>1 DEF ConfigInv, Over

LEMMA StoreStep ==
    ASSUME ConfigInv, NEW c \in Call, Store(c)
    PROVE  ConfigInv'
<1>1. /\ cache' = [cache EXCEPT ![request[c].replica][request[c].key] = request[c].got]
      /\ request[c].step = "store" /\ Over(c) /\ rows' = rows
  BY DEF Store, Waits
<1>2. request[c].key = "fee_configuration" => AllWhole(request[c].got)
  BY <1>1 DEF ConfigInv, RequestOK, GotWhole, Fields
<1>3. DOMAIN request' = Call /\ \A b \in Call : RequestOK(request'[b])
  BY <1>1, OverRequest
<1> QED BY <1>1, <1>2, <1>3, CacheMoves

LEMMA ExpireStep ==
    ASSUME ConfigInv, NEW r \in Replica, NEW k \in CacheKey, Expire(r, k)
    PROVE  ConfigInv'
<1>1. cache' = [cache EXCEPT ![r][k] = {}] /\ UNCHANGED <<rows, request>>
  BY DEF Expire
<1>2. DOMAIN request' = Call /\ \A b \in Call : RequestOK(request'[b])
  BY <1>1 DEF ConfigInv
<1> QED BY <1>1, <1>2, CacheDropped

LEMMA ForgetStep ==
    ASSUME ConfigInv, NEW c \in Call, Forget(c)
    PROVE  ConfigInv'
<1>1. CASE Over(c)
  <2>1. PICK k \in CacheKey : cache' = [cache EXCEPT ![request[c].replica][k] = {}]
    BY DEF Forget, CacheKey
  <2>2. rows' = rows /\ DOMAIN request' = Call /\ \A b \in Call : RequestOK(request'[b])
    BY <1>1, OverRequest DEF Forget
  <2> QED BY <2>1, <2>2, CacheDropped
<1>2. CASE ~Over(c)
  <2>1. /\ cache' = [cache EXCEPT ![request[c].replica]["fee_configuration"] = {}]
        /\ GoOn(c, "forget tiers") /\ rows' = rows
    BY <1>2 DEF Forget
  <2> DEFINE q == [request[c] EXCEPT !.step = "forget tiers"]
  <2>2. RequestOK(q) /\ request' = [request EXCEPT ![c] = q]
    BY <2>1 DEF GoOn, ConfigInv, RequestOK, GotWhole, Fields
  <2> HIDE DEF q
  <2>3. DOMAIN request' = Call /\ \A b \in Call : RequestOK(request'[b])
    BY <2>2 DEF ConfigInv
  <2> QED BY <2>1, <2>3, CacheDropped
<1> QED BY <1>1, <1>2

LEMMA AsksMoves ==
    ASSUME ConfigInv, NEW c \in Call, NEW s, s # "store", NEW todo, Asks(c, s, todo),
           UNCHANGED <<rows, cache>>
    PROVE  ConfigInv'
<1>1. PICK r \in Replica :
          request' = [request EXCEPT ![c].step = s, ![c].rest = "over",
                                     ![c].replica = r, ![c].todo = todo]
  BY DEF Asks
<1> DEFINE q == [request[c] EXCEPT !.step = s, !.rest = "over", !.replica = r, !.todo = todo]
<1>2. RequestOK(q)
  BY DEF ConfigInv, RequestOK, GotWhole, Fields
<1>3. request' = [request EXCEPT ![c] = q]
  BY <1>1
<1> HIDE DEF q
<1> QED BY <1>2, <1>3, OtherRequest

LEMMA AdministratorStep ==
    ASSUME ConfigInv, NEW c \in Call,
           updateFeeConfiguration(c) \/ updateFeeTier(c) \/ deactivateOrActivateTier(c)
    PROVE  ConfigInv'
<1>1. UNCHANGED <<rows, cache>>
  BY DEF updateFeeConfiguration, updateFeeTier, deactivateOrActivateTier
<1>2. CASE updateFeeConfiguration(c)
  BY <1>1, <1>2, AsksMoves DEF updateFeeConfiguration
<1>3. CASE updateFeeTier(c)
  BY <1>1, <1>3, AsksMoves DEF updateFeeTier
<1>4. CASE deactivateOrActivateTier(c)
  BY <1>1, <1>4, AsksMoves DEF deactivateOrActivateTier
<1> QED BY <1>2, <1>3, <1>4

LEMMA ControlStep ==
    ASSUME ConfigInv, NEW c \in Call, Validate(c) \/ ReadTiers(c) \/ Throw(c)
    PROVE  ConfigInv'
<1>1. UNCHANGED <<rows, cache>>
  BY DEF Validate, ReadTiers, Throw
<1>2. Over(c) \/ GoOn(c, "find") \/ GoOn(c, "tiers")
  BY DEF Validate, ReadTiers, Throw
<1> QED BY <1>1, <1>2, OverMoves, StepMoves

(* The other steps that only change the request. *)
LEMMA PlanStep ==
    ASSUME ConfigInv, NEW c \in Call, Find(c) \/ Select(c) \/ Tiers(c) \/ ReadBase(c)
    PROVE  ConfigInv'
<1>1. UNCHANGED <<rows, cache>>
  BY DEF Find, Select, Tiers, ReadBase
<1>2. ASSUME NEW q, RequestOK(q), request' = [request EXCEPT ![c] = q] PROVE ConfigInv'
  BY <1>1, <1>2, OtherRequest
<1>3. CASE Find(c)
  <2> DEFINE task == Head(request[c].todo)
             q == [request[c] EXCEPT !.step = "select", !.entity = Merged(task.change, rows[task.id])]
  <2>1. RequestOK(q)
    <3> HIDE DEF task
    <3> QED BY DEF ConfigInv, RequestOK, GotWhole, Fields
  <2>2. request' = [request EXCEPT ![c] = q]
    BY <1>3 DEF Find
  <2> HIDE DEF q
  <2> QED BY <1>2, <2>1, <2>2
<1>4. CASE Select(c)
  <2> DEFINE row == rows[Head(request[c].todo).id]
             e == request[c].entity
             D == {f \in DOMAIN e : e[f] # row[f]}
             q == [request[c] EXCEPT !.step = "update", !.changed = D]
  <2>1. request' = [request EXCEPT ![c] = q]
    BY <1>4 DEF Select
  <2> HIDE DEF D
  <2>2. RequestOK(q)
    BY DEF ConfigInv, RequestOK, GotWhole, Fields
  <2> HIDE DEF q
  <2> QED BY <1>2, <2>1, <2>2
<1>5. CASE Tiers(c)
  <2> DEFINE todo == Recalculation(request[c].base)
             s == IF Active # {} THEN "find" ELSE IF request[c].syncs THEN "over" ELSE "forget config"
             q == [request[c] EXCEPT !.todo = todo, !.base = 0, !.step = s]
  <2>1. request' = [request EXCEPT ![c] = q]
    BY <1>5 DEF Tiers
  <2>2. s # "store"
    OBVIOUS
  <2> HIDE DEF todo, s
  <2>3. RequestOK(q)
    BY <2>2 DEF ConfigInv, RequestOK, GotWhole, Fields
  <2> HIDE DEF q
  <2> QED BY <1>2, <2>1, <2>3
<1>6. CASE ReadBase(c)
  <2> DEFINE b == rows[ConfigId].baseFeeBps
             q == [request[c] EXCEPT !.base = b]
  <2>1. request' = [request EXCEPT ![c] = q]
    BY <1>6 DEF ReadBase
  <2> HIDE DEF b
  <2>2. RequestOK(q)
    BY DEF ConfigInv, RequestOK, GotWhole, Fields
  <2> HIDE DEF q
  <2> QED BY <1>2, <2>1, <2>2
<1> QED BY <1>3, <1>4, <1>5, <1>6

(* The table's CHECK holds for what an UPDATE leaves. *)
LEMMA UpdateStep ==
    ASSUME ConfigInv, NEW c \in Call, Update(c)
    PROVE  ConfigInv'
<1> DEFINE q == request[c]
           task == Head(q.todo)
           row == Written(q, rows[task.id])
<1>1. cache' = cache
  BY DEF Update
<1>2. CASE Over(c) /\ rows' = rows
  BY <1>1, <1>2, OverMoves
<1>3. CASE ~(Over(c) /\ rows' = rows)
  <2>1. /\ Check(task.id, row) /\ rows' = [rows EXCEPT ![task.id] = row]
        /\ request' = [request EXCEPT ![c] = After(q)]
    BY <1>3 DEF Update
  <2>2. RequestOK(After(q))
    <3>1. Fields \subseteq DOMAIN q /\ q.rest \in {"new", "over"}
      BY DEF ConfigInv, RequestOK
    <3>2. After(q).step # "store"
      <4> HIDE DEF q
      <4> QED BY <3>1 DEF After, Fields
    <3>3. Fields \subseteq DOMAIN After(q) /\ After(q).rest = q.rest
      <4> HIDE DEF q
      <4> QED BY <3>1 DEF After, Fields
    <3> HIDE DEF q
    <3> QED BY <3>1, <3>2, <3>3 DEF RequestOK, GotWhole
  <2>3. DOMAIN rows' = Id /\ Total(rows'[ConfigId]) = WHOLE
    <3>1. ConfigId \in DOMAIN rows /\ DOMAIN rows = Id
      BY DEF ConfigInv, Id
    <3> HIDE DEF row, task
    <3> QED BY <2>1, <3>1 DEF Check, ConfigInv, PortionsWhole
  <2>4. DOMAIN request' = Call /\ \A b \in Call : RequestOK(request'[b])
    BY <2>1, <2>2 DEF ConfigInv
  <2> QED BY <1>1, <2>3, <2>4 DEF ConfigInv, PortionsWhole
<1> QED BY <1>2, <1>3

LEMMA RestartStep ==
    ASSUME ConfigInv, NEW c \in Call, Restart(c)
    PROVE  ConfigInv'
<1>1. PICK r \in Replica :
          /\ cache' = [cache EXCEPT ![r] = [k \in CacheKey |-> {}]]
          /\ request' = [b \in Call |->
                IF b = c THEN [IdleCall("sync") EXCEPT !.replica = r, !.syncs = TRUE]
                ELSE IF request[b].replica = r THEN IdleCall(request[b].rest)
                ELSE request[b]]
  BY DEF Restart
<1>2. rows' = rows
  BY DEF Restart
<1>3. RequestOK([IdleCall("sync") EXCEPT !.replica = r, !.syncs = TRUE])
  BY DEF IdleCall, RequestOK, GotWhole, Fields
<1>4. \A b \in Call : RequestOK(IdleCall(request[b].rest))
  BY IdleOK DEF ConfigInv, RequestOK
<1>5. DOMAIN request' = Call /\ \A b \in Call : RequestOK(request'[b])
  BY <1>1, <1>3, <1>4 DEF ConfigInv
<1>6. /\ DOMAIN cache' = Replica /\ \A t \in Replica : DOMAIN cache'[t] = CacheKey
      /\ \A t \in Replica : \A v \in cache'[t]["fee_configuration"] : Total(v) = WHOLE
  BY <1>1 DEF ConfigInv, PortionsWhole, CacheKey
<1> QED BY <1>2, <1>5, <1>6 DEF ConfigInv, PortionsWhole

LEMMA ConfigStep == ConfigInv /\ [ConfigNext]_configVars => ConfigInv'
<1>1. ASSUME ConfigInv, UNCHANGED configVars PROVE ConfigInv'
  BY <1>1 DEF configVars, ConfigInv, PortionsWhole
<1>2. ASSUME ConfigInv, NEW c \in Call, Go(c) PROVE ConfigInv'
  BY <1>2, FetchStep, StoreStep, ControlStep, PlanStep, UpdateStep, ForgetStep DEF Go
<1>3. ASSUME ConfigInv, NEW c \in Call,
             \/ Get(c) \/ updateFeeConfiguration(c) \/ updateFeeTier(c)
             \/ deactivateOrActivateTier(c) \/ Restart(c) \/ Throw(c)
      PROVE  ConfigInv'
  BY <1>3, GetStep, AdministratorStep, RestartStep, ControlStep
<1> QED BY <1>1, <1>2, <1>3, ExpireStep DEF ConfigNext

(* Whatever interleaving of administrators, readers and restarts there is, *)
(* the portions make 100% in the table, by its CHECK, and in every cache   *)
(* of a replica (config.service.ts, fee-configuration.entity.ts).          *)
THEOREM PortionsStayWhole == ConfigSpec => []PortionsWhole
<1>1. ConfigInv => PortionsWhole
  BY DEF ConfigInv
<1> QED BY <1>1, ConfigInitInv, ConfigStep, PTL DEF ConfigSpec

-----------------------------------------------------------------------------
(* FeeConfig: the tiers in their order, which a recalculation goes through. *)
LEMMA Largest ==
    ASSUME NEW S, IsFiniteSet(S), \A x \in S : x \in Nat, S # {}
    PROVE  \E m \in S : \A x \in S : x <= m
<1> DEFINE HasLargest(T) == \E m \in T : \A x \in T : x <= m
           F == {T \in SUBSET S : T # {} /\ ~HasLargest(T)}
<1>1. SUFFICES ASSUME F # {} PROVE FALSE
  <2>1. S \notin F => \E m \in S : \A x \in S : x <= m
    OBVIOUS
  <2> QED
    BY <2>1
<1>3. F \in SUBSET SUBSET S
  OBVIOUS
<1> HIDE DEF F
<1>4. PICK T \in F : \A U \in F : U \subseteq T => U = T
  BY <1>1, <1>3, MinimalSubset
<1>5. T \in SUBSET S /\ T # {} /\ ~HasLargest(T)
  BY DEF F
<1>6. PICK x \in T : TRUE
  BY <1>5
<1>7. T \ {x} # {}
  <2>1. x <= x
    BY <1>5
  <2> QED
    BY <1>5, <2>1
<1>8. HasLargest(T \ {x})
  <2>1. T \ {x} \notin F
    BY <1>4, <1>6
  <2> QED
    BY <1>5, <1>7, <2>1 DEF F
<1>9. PICK m \in T \ {x} : \A y \in T \ {x} : y <= m
  BY <1>8
<1>10. m \in Nat /\ x \in Nat /\ \A y \in T : y \in Nat
  BY <1>5
<1>11. CASE x <= m
  BY <1>5, <1>9, <1>11
<1>12. CASE m <= x
  <2>1. \A y \in T : y <= x
    BY <1>9, <1>10, <1>12
  <2> QED
    BY <1>5, <2>1
<1> QED
  BY <1>10, <1>11, <1>12

Ascending(s, S) ==
    /\ s \in [1 .. Cardinality(S) -> S]
    /\ \A i, j \in DOMAIN s : i < j => s[i] < s[j]

LEMMA InOrder ==
    ASSUME NEW S, IsFiniteSet(S), \A x \in S : x \in Nat
    PROVE  \E s : Ascending(s, S)
<1> DEFINE F == {T \in SUBSET S : ~\E s : Ascending(s, T)}
<1>1. SUFFICES ASSUME F # {} PROVE FALSE
  <2>1. S \notin F => \E s : Ascending(s, S)
    OBVIOUS
  <2> QED
    BY <2>1
<1>3. F \in SUBSET SUBSET S
  OBVIOUS
<1> HIDE DEF F
<1>4. PICK T \in F : \A U \in F : U \subseteq T => U = T
  BY <1>1, <1>3, MinimalSubset
<1>5. T \in SUBSET S /\ (~\E s : Ascending(s, T)) /\ IsFiniteSet(T)
  BY FS_Subset DEF F
<1>6. T # {}
  <2> SUFFICES ASSUME T = {} PROVE FALSE
    OBVIOUS
  <2> DEFINE none == [i \in 1 .. 0 |-> 0]
  <2>1. Cardinality(T) = 0
    BY FS_EmptySet
  <2>2. none \in [1 .. 0 -> T] /\ DOMAIN none = {}
    OBVIOUS
  <2>3. Ascending(none, T)
    BY <2>1, <2>2 DEF Ascending
  <2> QED
    BY <1>5, <2>3
<1>7. PICK m \in T : \A x \in T : x <= m
  <2>1. \A x \in T : x \in Nat
    BY <1>5
  <2> QED
    BY <1>5, <1>6, <2>1, Largest
<1> DEFINE U == T \ {m}
           n == Cardinality(U)
<1>8. IsFiniteSet(U) /\ n \in Nat /\ Cardinality(T) = n + 1
  <2>1. IsFiniteSet(U) /\ Cardinality(U) = Cardinality(T) - 1
    BY <1>5, FS_RemoveElement
  <2>2. Cardinality(U) \in Nat /\ Cardinality(T) \in Nat
    BY <1>5, <2>1, FS_CardinalityType
  <2> QED
    BY <2>1, <2>2
<1>9. PICK s : Ascending(s, U)
  <2>1. U \notin F
    BY <1>4
  <2>2. U \in SUBSET S
    BY <1>5
  <2> QED
    BY <2>1, <2>2 DEF F
<1> HIDE DEF n
<1>10. s \in [1 .. n -> U] /\ \A i, j \in 1 .. n : i < j => s[i] < s[j]
  BY <1>9 DEF Ascending, n
<1> DEFINE t == [i \in 1 .. n + 1 |-> IF i <= n THEN s[i] ELSE m]
<1>11. \A i \in 1 .. n + 1 : i \in 1 .. n \/ (i = n + 1 /\ ~(i <= n))
  BY <1>8
<1>12. \A i \in 1 .. n : t[i] = s[i] /\ t[i] \in U /\ i \in 1 .. n + 1
  BY <1>8, <1>10
<1>13. t[n + 1] = m
  BY <1>8
<1>14. DOMAIN t = 1 .. n + 1 /\ t \in [1 .. n + 1 -> T]
  BY <1>10, <1>11
<1> HIDE DEF t
<1>15. ASSUME NEW i \in 1 .. n + 1, NEW j \in 1 .. n + 1, i < j PROVE t[i] < t[j]
  <2>1. i \in 1 .. n
    BY <1>8, <1>15
  <2>2. CASE j \in 1 .. n
    BY <1>10, <1>12, <1>15, <2>1, <2>2
  <2>3. CASE j = n + 1
    <3>1. t[i] \in T /\ t[i] # m /\ t[i] <= m
      BY <1>7, <1>12, <2>1
    <3>2. t[i] \in Nat /\ m \in Nat
      BY <1>5, <3>1
    <3> QED
      BY <1>13, <2>3, <3>1, <3>2
  <2> QED
    BY <1>11, <2>2, <2>3
<1>16. Ascending(t, T)
  BY <1>8, <1>14, <1>15 DEF Ascending
<1> QED
  BY <1>5, <1>16

LEMMA TiersInOrder ==
    /\ IsFiniteSet(Active) /\ Cardinality(Active) \in Nat
    /\ Active # {} => Cardinality(Active) > 0
    /\ TierOrder(Active) \in [1 .. Cardinality(Active) -> Active]
<1>1. Active \in SUBSET (1 .. NumTiers) /\ \A t \in Active : t \in Nat
  BY ConfigAssumption DEF Active, Tier
<1>2. IsFiniteSet(1 .. NumTiers)
  BY ConfigAssumption, FS_Interval
<1>3. IsFiniteSet(Active)
  BY <1>1, <1>2, FS_Subset
<1>4. Cardinality(Active) \in Nat /\ (Active # {} => Cardinality(Active) # 0)
  BY <1>3, FS_CardinalityType, FS_EmptySet
<1>5. \E s : Ascending(s, Active)
  BY <1>1, <1>3, InOrder
<1>6. \E s \in [1 .. Cardinality(Active) -> Active] : \A i, j \in DOMAIN s : i < j => s[i] < s[j]
  BY <1>5 DEF Ascending
<1>7. TierOrder(Active) \in [1 .. Cardinality(Active) -> Active]
  BY <1>6 DEF TierOrder
<1> QED
  BY <1>3, <1>4, <1>7

-----------------------------------------------------------------------------
(* FeeConfig: what the rows, the plans and the caches may hold.             *)
RowOK(id, row) ==
    IF id = ConfigId THEN row \in ConfigRow
    ELSE row \in TierRow /\ row.discountPercent <= 100

ChangeOK(id, ch) ==
    IF id = ConfigId THEN IsChange(ch, ConfigColumn)
    ELSE /\ IsChange(ch, TierColumn)
         /\ "discountPercent" \in DOMAIN ch => ch.discountPercent <= 100

Change == UNION {[S -> Nat] : S \in SUBSET (ConfigColumn \union TierColumn)}
PlanTask == {t \in [id : Id, change : Change] : ChangeOK(t.id, t.change)}

(* A request has something to save while it saves, and its entity fits the *)
(* table of the task at hand.                                              *)
PlanOK(q) ==
    /\ q.step \in CallStep /\ q.base \in Nat /\ q.todo \in Seq(PlanTask)
    /\ q.step = "store" => \E v : q.got = {v}
    /\ q.step \in {"validate", "find", "select", "update"} => q.todo # <<>>
    /\ q.step \in {"select", "update"} => RowOK(Head(q.todo).id, q.entity)

AtMostOne(S) == S = {} \/ \E v : S = {v}

PlansInv ==
    /\ \A id \in Id : RowOK(id, rows[id])
    /\ \A r \in Replica, k \in CacheKey : AtMostOne(cache[r][k])
    /\ \A c \in Call : PlanOK(request[c])

LEMMA IdleHasNoPlan ==
    ASSUME NEW s \in CallStep, s \notin {"store", "validate", "find", "select", "update"}
    PROVE  PlanOK(IdleCall(s))
BY DEF IdleCall, PlanOK

LEMMA TaskFits ==
    ASSUME NEW id \in Id, NEW ch, ChangeOK(id, ch)
    PROVE  Task(id, ch) \in PlanTask /\ Task(id, ch).id = id /\ Task(id, ch).change = ch
<1>1. ch \in Change
  <2>1. DOMAIN ch \in SUBSET (ConfigColumn \union TierColumn) /\ ch \in [DOMAIN ch -> Nat]
    BY DEF ChangeOK, IsChange
  <2> QED
    BY <2>1 DEF Change
<1> QED
  BY <1>1 DEF PlanTask, Task

LEMMA OneTask ==
    ASSUME NEW t \in PlanTask
    PROVE  <<t>> \in Seq(PlanTask) /\ <<t>> # <<>>
OBVIOUS

LEMMA MergedFits ==
    ASSUME NEW id \in Id, NEW ch, ChangeOK(id, ch), NEW row, RowOK(id, row)
    PROVE  RowOK(id, Merged(ch, row))
<1>1. CASE id = ConfigId
  <2>1. row \in [ConfigColumn -> Nat] /\ \A f \in DOMAIN ch : ch[f] \in Nat
    BY <1>1 DEF RowOK, ChangeOK, IsChange, ConfigRow
  <2>2. Merged(ch, row) \in [ConfigColumn -> Nat]
    BY <2>1 DEF Merged
  <2> QED
    BY <1>1, <2>2 DEF RowOK, ConfigRow
<1>2. CASE id # ConfigId
  <2>1. /\ row \in [TierColumn -> Nat] /\ \A f \in DOMAIN ch : ch[f] \in Nat
        /\ row["discountPercent"] <= 100
        /\ "discountPercent" \in DOMAIN ch => ch["discountPercent"] <= 100
    BY <1>2 DEF RowOK, ChangeOK, IsChange, TierRow
  <2>2. Merged(ch, row) \in [TierColumn -> Nat]
    BY <2>1 DEF Merged
  <2>3. Merged(ch, row)["discountPercent"] <= 100
    BY <2>1 DEF Merged, TierColumn
  <2> QED
    BY <1>2, <2>2, <2>3 DEF RowOK, TierRow
<1> QED
  BY <1>1, <1>2

LEMMA WrittenFits ==
    ASSUME NEW id \in Id, NEW q, RowOK(id, q.entity), NEW row, RowOK(id, row)
    PROVE  RowOK(id, Written(q, row))
<1> DEFINE e == q.entity
           w == [f \in DOMAIN row |-> IF f \in q.changed THEN e[f] ELSE row[f]]
<1>1. CASE id = ConfigId
  <2>1. row \in [ConfigColumn -> Nat] /\ e \in [ConfigColumn -> Nat]
    BY <1>1 DEF RowOK, ConfigRow
  <2> HIDE DEF e
  <2>2. w \in [ConfigColumn -> Nat]
    BY <2>1
  <2> QED
    BY <1>1, <2>2 DEF RowOK, ConfigRow, Written, e
<1>2. CASE id # ConfigId
  <2>1. /\ row \in [TierColumn -> Nat] /\ e \in [TierColumn -> Nat]
        /\ row["discountPercent"] <= 100 /\ e["discountPercent"] <= 100
    BY <1>2 DEF RowOK, TierRow
  <2> HIDE DEF e
  <2>2. w \in [TierColumn -> Nat]
    BY <2>1
  <2>3. w["discountPercent"] <= 100
    BY <2>1 DEF TierColumn
  <2> QED
    BY <1>2, <2>2, <2>3 DEF RowOK, TierRow, Written, e
<1> QED
  BY <1>1, <1>2

(* A discount of at most 100% leaves a fee that is not negative.            *)
LEMMA FeeNotNegative ==
    ASSUME NEW base \in Nat, NEW percent \in Nat, percent <= 100
    PROVE  DiscountedFee(base, percent) \in Nat
<1>1. 100 - percent \in Nat
  OBVIOUS
<1>2. \A n \in Nat : base * n \in Nat
  OBVIOUS
<1> QED
  BY <1>1, <1>2 DEF DiscountedFee

LEMMA Planned ==
    ASSUME ConfigInv, PlansInv, NEW base \in Nat
    PROVE  /\ Recalculation(base) \in Seq(PlanTask)
           /\ Active # {} => Recalculation(base) # <<>>
<1> DEFINE n == Cardinality(Active)
           o == TierOrder(Active)
           Fee(t) == [effectiveFeeBps |-> DiscountedFee(base, rows[t].discountPercent)]
           plan == [i \in 1 .. n |-> Task(o[i], Fee(o[i]))]
<1>1. n \in Nat /\ o \in [1 .. n -> Active] /\ (Active # {} => n > 0)
  BY TiersInOrder
<1>2. ASSUME NEW i \in 1 .. n PROVE Task(o[i], Fee(o[i])) \in PlanTask
  <2> DEFINE t == o[i]
             fee == DiscountedFee(base, rows[t].discountPercent)
  <2>1. t \in Tier /\ t \in Id /\ t # ConfigId
    BY <1>1 DEF Active, Id, Tier, ConfigId
  <2> HIDE DEF t
  <2>2. rows[t]["discountPercent"] \in Nat /\ rows[t]["discountPercent"] <= 100
    BY <2>1 DEF PlansInv, RowOK, TierRow, TierColumn
  <2>3. fee \in Nat
    BY <2>2, FeeNotNegative
  <2> HIDE DEF fee
  <2>4. IsChange([effectiveFeeBps |-> fee], TierColumn)
    <3>1. DOMAIN [effectiveFeeBps |-> fee] = {"effectiveFeeBps"}
      OBVIOUS
    <3>2. [effectiveFeeBps |-> fee] = [f \in {"effectiveFeeBps"} |-> fee]
      BY <3>1
    <3>3. [f \in {"effectiveFeeBps"} |-> fee] \in [{"effectiveFeeBps"} -> Nat]
      BY <2>3
    <3> QED
      BY <3>1, <3>2, <3>3 DEF IsChange, TierColumn
  <2>5. "discountPercent" \notin DOMAIN [effectiveFeeBps |-> fee]
    OBVIOUS
  <2>6. ChangeOK(t, [effectiveFeeBps |-> fee])
    BY <2>1, <2>4, <2>5 DEF ChangeOK
  <2>7. Task(t, [effectiveFeeBps |-> fee]) \in PlanTask
    BY <2>1, <2>6, TaskFits
  <2> QED
    BY <2>7 DEF t, fee
<1>3. Recalculation(base) = plan
  BY DEF Recalculation
<1> HIDE DEF o, n
<1>4. plan \in [1 .. n -> PlanTask]
  BY <1>2
<1> HIDE DEF plan, Fee
<1>5. plan \in Seq(PlanTask) /\ Len(plan) = n
  BY <1>1, <1>4
<1> QED
  BY <1>1, <1>3, <1>5

LEMMA PlansInitInv == ConfigInit => PlansInv
<1> SUFFICES ASSUME ConfigInit PROVE PlansInv
  OBVIOUS
<1>1. \A c \in Call : PlanOK(request[c])
  <2>1. PlanOK(IdleCall("new"))
    BY IdleHasNoPlan DEF CallStep
  <2> QED
    BY <2>1 DEF ConfigInit
<1>2. ASSUME NEW id \in Id PROVE RowOK(id, rows[id])
  <2>1. CASE id = ConfigId
    BY <2>1, ConfigAssumption DEF ConfigInit, RowOK
  <2>2. CASE id # ConfigId
    <3>1. id \in Tier /\ rows[id] = InitialTier[id]
      BY <2>2 DEF ConfigInit, Id
    <3>2. InitialTier[id] \in TierRow /\ InitialTier[id].discountPercent \in 0 .. 100
      BY <3>1, ConfigAssumption
    <3> QED
      BY <2>2, <3>1, <3>2 DEF RowOK
  <2> QED
    BY <2>1, <2>2
<1>3. \A r \in Replica, k \in CacheKey : AtMostOne(cache[r][k])
  BY DEF ConfigInit, AtMostOne
<1> QED
  BY <1>1, <1>2, <1>3 DEF PlansInv

(* A step of one request that leaves the tables and the caches alone. *)
LEMMA PlanMoves ==
    ASSUME ConfigInv, PlansInv, NEW c \in Call, NEW q, PlanOK(q),
           request' = [request EXCEPT ![c] = q], UNCHANGED <<rows, cache>>
    PROVE  PlansInv'
<1>1. \A b \in Call : PlanOK(request'[b])
  BY DEF ConfigInv, PlansInv
<1>2. \A id \in Id : RowOK(id, rows'[id])
  BY DEF PlansInv
<1> QED
  BY <1>1, <1>2 DEF PlansInv

LEMMA IdlePlans ==
    ASSUME ConfigInv, NEW c \in Call
    PROVE  PlanOK(IdleCall(request[c].rest))
<1>1. request[c].rest \in {"new", "over"}
  BY DEF ConfigInv, RequestOK
<1> QED
  BY <1>1, IdleHasNoPlan DEF CallStep

LEMMA PlanEnds ==
    ASSUME ConfigInv, PlansInv, NEW c \in Call, Over(c), UNCHANGED <<rows, cache>>
    PROVE  PlansInv'
BY IdlePlans, PlanMoves DEF Over

LEMMA PlanGoesOn ==
    ASSUME ConfigInv, PlansInv, NEW c \in Call, NEW s \in CallStep, GoOn(c, s),
           s \in {"validate", "find"} => request[c].todo # <<>>,
           s \notin {"store", "select", "update"}, UNCHANGED <<rows, cache>>
    PROVE  PlansInv'
<1> DEFINE q == [request[c] EXCEPT !.step = s]
<1>1. request' = [request EXCEPT ![c] = q]
  BY DEF GoOn
<1>2. PlanOK(q)
  BY DEF ConfigInv, RequestOK, Fields, PlansInv, PlanOK
<1> HIDE DEF q
<1> QED
  BY <1>1, <1>2, PlanMoves

LEMMA GetPlans ==
    ASSUME ConfigInv, PlansInv, NEW c \in Call, Get(c)
    PROVE  PlansInv'
<1>1. PICK r \in Replica, k \in CacheKey :
          request' = [request EXCEPT ![c].step = "fetch", ![c].replica = r, ![c].key = k]
  BY DEF Get
<1> DEFINE q == [request[c] EXCEPT !.step = "fetch", !.replica = r, !.key = k]
<1>2. PlanOK(q)
  BY DEF ConfigInv, RequestOK, Fields, PlansInv, PlanOK, CallStep
<1>3. request' = [request EXCEPT ![c] = q] /\ UNCHANGED <<rows, cache>>
  BY <1>1 DEF Get
<1> HIDE DEF q
<1> QED
  BY <1>2, <1>3, PlanMoves

LEMMA FetchPlans ==
    ASSUME ConfigInv, PlansInv, NEW c \in Call, Fetch(c) \/ FetchFails(c)
    PROVE  PlansInv'
<1>1. PICK v : Answered(c, v)
  BY DEF Fetch, FetchFails
<1> DEFINE q == [request[c] EXCEPT !.step = "store", !.got = {v}]
<1>2. PlanOK(q)
  BY DEF ConfigInv, RequestOK, Fields, PlansInv, PlanOK, CallStep
<1>3. request' = [request EXCEPT ![c] = q] /\ UNCHANGED <<rows, cache>>
  BY <1>1 DEF Answered
<1> HIDE DEF q
<1> QED
  BY <1>2, <1>3, PlanMoves

(* A copy is replaced by a single other one, or dropped. *)
LEMMA CacheHoldsOne ==
    ASSUME ConfigInv, PlansInv, NEW r, NEW k, NEW S, AtMostOne(S),
           cache' = [cache EXCEPT ![r][k] = S], rows' = rows,
           \A b \in Call : PlanOK(request'[b])
    PROVE  PlansInv'
<1>1. \A t \in Replica, j \in CacheKey : AtMostOne(cache'[t][j])
  BY DEF ConfigInv, PlansInv
<1>2. \A id \in Id : RowOK(id, rows'[id])
  BY DEF PlansInv
<1> QED
  BY <1>1, <1>2 DEF PlansInv

LEMMA OthersKeepPlans ==
    ASSUME ConfigInv, PlansInv, NEW c \in Call, Over(c)
    PROVE  \A b \in Call : PlanOK(request'[b])
BY IdlePlans DEF ConfigInv, PlansInv, Over

LEMMA CachePlans ==
    ASSUME ConfigInv, PlansInv, NEW c \in Call, Store(c) \/ Forget(c)
    PROVE  PlansInv'
<1>1. AtMostOne({})
  BY DEF AtMostOne
<1>2. CASE Store(c)
  <2>1. /\ cache' = [cache EXCEPT ![request[c].replica][request[c].key] = request[c].got]
        /\ request[c].step = "store" /\ Over(c) /\ rows' = rows
    BY <1>2 DEF Store, Waits
  <2>2. AtMostOne(request[c].got)
    BY <2>1 DEF PlansInv, PlanOK, AtMostOne
  <2> QED
    BY <2>1, <2>2, OthersKeepPlans, CacheHoldsOne
<1>3. CASE Forget(c) /\ Over(c)
  <2>1. /\ \E k \in CacheKey : cache' = [cache EXCEPT ![request[c].replica][k] = {}]
        /\ rows' = rows
    BY <1>3 DEF Forget, CacheKey
  <2> QED
    BY <1>1, <1>3, <2>1, OthersKeepPlans, CacheHoldsOne
<1>4. CASE Forget(c) /\ ~Over(c)
  <2>1. /\ cache' = [cache EXCEPT ![request[c].replica]["fee_configuration"] = {}]
        /\ GoOn(c, "forget tiers") /\ rows' = rows
    BY <1>4 DEF Forget
  <2> DEFINE q == [request[c] EXCEPT !.step = "forget tiers"]
  <2>2. PlanOK(q) /\ request' = [request EXCEPT ![c] = q]
    BY <2>1 DEF GoOn, ConfigInv, RequestOK, Fields, PlansInv, PlanOK, CallStep
  <2> HIDE DEF q
  <2>3. \A b \in Call : PlanOK(request'[b])
    BY <2>2 DEF ConfigInv, PlansInv
  <2> QED
    BY <1>1, <2>1, <2>3, CacheHoldsOne
<1> QED
  BY <1>2, <1>3, <1>4

LEMMA ExpirePlans ==
    ASSUME ConfigInv, PlansInv, NEW r \in Replica, NEW k \in CacheKey, Expire(r, k)
    PROVE  PlansInv'
<1>1. cache' = [cache EXCEPT ![r][k] = {}] /\ UNCHANGED <<rows, request>> /\ AtMostOne({})
  BY DEF Expire, AtMostOne
<1>2. \A b \in Call : PlanOK(request'[b])
  BY <1>1 DEF PlansInv
<1> QED
  BY <1>1, <1>2, CacheHoldsOne

LEMMA AsksPlans ==
    ASSUME ConfigInv, PlansInv, NEW c \in Call, NEW s \in {"validate", "find"}, NEW todo,
           todo \in Seq(PlanTask) /\ todo # <<>>, Asks(c, s, todo), UNCHANGED <<rows, cache>>
    PROVE  PlansInv'
<1>1. PICK r \in Replica :
          request' = [request EXCEPT ![c].step = s, ![c].rest = "over",
                                     ![c].replica = r, ![c].todo = todo]
  BY DEF Asks
<1> DEFINE q == [request[c] EXCEPT !.step = s, !.rest = "over", !.replica = r, !.todo = todo]
<1>2. PlanOK(q)
  BY DEF ConfigInv, RequestOK, Fields, PlansInv, PlanOK, CallStep
<1>3. request' = [request EXCEPT ![c] = q]
  BY <1>1
<1> HIDE DEF q
<1> QED
  BY <1>2, <1>3, PlanMoves

LEMMA AdministratorPlans ==
    ASSUME ConfigInv, PlansInv, NEW c \in Call,
           updateFeeConfiguration(c) \/ updateFeeTier(c) \/ deactivateOrActivateTier(c)
    PROVE  PlansInv'
<1>1. UNCHANGED <<rows, cache>>
  BY DEF updateFeeConfiguration, updateFeeTier, deactivateOrActivateTier
<1>2. CASE updateFeeConfiguration(c)
  <2>1. PICK ch \in ConfigChanges : Asks(c, "validate", <<Task(ConfigId, ch)>>)
    BY <1>2 DEF updateFeeConfiguration
  <2>2. ChangeOK(ConfigId, ch) /\ ConfigId \in Id
    BY ConfigAssumption DEF ChangeOK, Id
  <2>3. Task(ConfigId, ch) \in PlanTask
    BY <2>2, TaskFits
  <2>4. <<Task(ConfigId, ch)>> \in Seq(PlanTask) /\ <<Task(ConfigId, ch)>> # <<>>
    BY <2>3, OneTask
  <2> QED
    BY <1>1, <2>1, <2>4, AsksPlans
<1>3. CASE updateFeeTier(c)
  <2>1. PICK t \in Tier, ch \in TierChanges : Asks(c, "find", <<Task(t, ch)>>)
    BY <1>3 DEF updateFeeTier
  <2>2. ChangeOK(t, ch) /\ t \in Id
    BY ConfigAssumption DEF ChangeOK, Id, Tier, ConfigId
  <2>3. Task(t, ch) \in PlanTask
    BY <2>2, TaskFits
  <2>4. <<Task(t, ch)>> \in Seq(PlanTask) /\ <<Task(t, ch)>> # <<>>
    BY <2>3, OneTask
  <2> QED
    BY <1>1, <2>1, <2>4, AsksPlans
<1>4. CASE deactivateOrActivateTier(c)
  <2>1. PICK t \in Tier, a \in {0, 1} :
            Asks(c, "find", <<Task(t, [isActive |-> a]), Task(t, Nothing)>>)
    BY <1>4 DEF deactivateOrActivateTier
  <2>2. t \in Id /\ t # ConfigId
    BY ConfigAssumption DEF Id, Tier, ConfigId
  <2>3. ChangeOK(t, [isActive |-> a])
    <3>1. DOMAIN [isActive |-> a] = {"isActive"}
      OBVIOUS
    <3>2. [isActive |-> a] = [f \in {"isActive"} |-> a]
      BY <3>1
    <3>3. [f \in {"isActive"} |-> a] \in [{"isActive"} -> Nat]
      OBVIOUS
    <3> QED
      BY <2>2, <3>1, <3>2, <3>3 DEF ChangeOK, IsChange, TierColumn
  <2>4. ChangeOK(t, Nothing)
    BY <2>2 DEF ChangeOK, IsChange, Nothing
  <2>5. Task(t, [isActive |-> a]) \in PlanTask /\ Task(t, Nothing) \in PlanTask
    BY <2>2, <2>3, <2>4, TaskFits
  <2> DEFINE todo == <<Task(t, [isActive |-> a]), Task(t, Nothing)>>
  <2>6. todo \in Seq(PlanTask) /\ todo # <<>>
    BY <2>5
  <2>7. Asks(c, "find", todo)
    BY <2>1
  <2> HIDE DEF todo
  <2> QED
    BY <1>1, <2>6, <2>7, AsksPlans
<1> QED
  BY <1>2, <1>3, <1>4

LEMMA ControlPlans ==
    ASSUME ConfigInv, PlansInv, NEW c \in Call, Validate(c) \/ ReadTiers(c) \/ Throw(c)
    PROVE  PlansInv'
<1>1. UNCHANGED <<rows, cache>>
  BY DEF Validate, ReadTiers, Throw
<1>2. CASE Over(c)
  BY <1>1, <1>2, PlanEnds
<1>3. CASE Validate(c) /\ ~Over(c)
  <2>1. request[c].step = "validate" /\ GoOn(c, "find")
    BY <1>3 DEF Validate, Waits
  <2>2. request[c].todo # <<>> /\ "find" \in CallStep
    BY <2>1 DEF PlansInv, PlanOK, CallStep
  <2> QED
    BY <1>1, <2>1, <2>2, PlanGoesOn
<1>4. CASE ReadTiers(c) /\ ~Over(c)
  <2>1. GoOn(c, "tiers") /\ "tiers" \in CallStep
    BY <1>4 DEF ReadTiers, CallStep
  <2> QED
    BY <1>1, <2>1, PlanGoesOn
<1> QED
  BY <1>2, <1>3, <1>4 DEF Throw

LEMMA RestOfPlan ==
    ASSUME NEW S, NEW s \in Seq(S), s # <<>>
    PROVE  Head(s) \in S /\ Tail(s) \in Seq(S) /\ (Len(s) > 1 => Tail(s) # <<>>)
<1>1. /\ Head(s) \in S /\ Tail(s) \in Seq(S)
      /\ Len(Tail(s)) = Len(s) - 1
  BY HeadTailProperties
<1>2. ASSUME Len(s) > 1, Tail(s) = <<>> PROVE FALSE
  <2>1. Len(s) \in Nat
    BY LenProperties
  <2>2. \A q \in Seq(S) : q = <<>> => Len(q) = 0
    BY EmptySeq
  <2> QED
    BY <1>1, <1>2, <2>1, <2>2
<1> QED
  BY <1>1, <1>2

(* The task at hand is one of the plan's. *)
LEMMA TaskAtHand ==
    ASSUME PlansInv, NEW c \in Call, request[c].step \in {"find", "select", "update"}
    PROVE  LET task == Head(request[c].todo) IN
           /\ task.id \in Id /\ ChangeOK(task.id, task.change)
           /\ "baseFeeBps" \in DOMAIN task.change => task.change["baseFeeBps"] \in Nat
           /\ Tail(request[c].todo) \in Seq(PlanTask)
           /\ Len(request[c].todo) > 1 => Tail(request[c].todo) # <<>>
<1> DEFINE todo == request[c].todo
           task == Head(todo)
<1>1. todo \in Seq(PlanTask) /\ todo # <<>>
  BY DEF PlansInv, PlanOK
<1> HIDE DEF todo
<1>2. task \in PlanTask /\ Tail(todo) \in Seq(PlanTask) /\ (Len(todo) > 1 => Tail(todo) # <<>>)
  BY <1>1, RestOfPlan
<1> HIDE DEF task
<1>3. task.id \in Id /\ ChangeOK(task.id, task.change) /\ task.change \in Change
  BY <1>2 DEF PlanTask
<1>4. ASSUME "baseFeeBps" \in DOMAIN task.change PROVE task.change["baseFeeBps"] \in Nat
  <2>1. PICK S \in SUBSET (ConfigColumn \union TierColumn) : task.change \in [S -> Nat]
    BY <1>3 DEF Change
  <2> QED
    BY <1>4, <2>1
<1> QED
  BY <1>2, <1>3, <1>4 DEF task, todo

LEMMA PlanPlans ==
    ASSUME ConfigInv, PlansInv, NEW c \in Call, Find(c) \/ Select(c) \/ Tiers(c) \/ ReadBase(c)
    PROVE  PlansInv'
<1>1. UNCHANGED <<rows, cache>>
  BY DEF Find, Select, Tiers, ReadBase
<1>2. ASSUME NEW q, PlanOK(q), request' = [request EXCEPT ![c] = q] PROVE PlansInv'
  BY <1>1, <1>2, PlanMoves
<1>3. /\ PlanOK(request[c])
      /\ Fields \subseteq DOMAIN request[c]
  BY DEF PlansInv, ConfigInv, RequestOK
<1>4. CASE Find(c)
  <2> DEFINE task == Head(request[c].todo)
             e == Merged(task.change, rows[task.id])
             q == [request[c] EXCEPT !.step = "select", !.entity = e]
  <2>1. request' = [request EXCEPT ![c] = q] /\ request[c].step = "find"
    BY <1>4 DEF Find, Waits
  <2>2. task.id \in Id /\ ChangeOK(task.id, task.change)
    BY <2>1, TaskAtHand
  <2>3. RowOK(task.id, e)
    <3>1. RowOK(task.id, rows[task.id])
      BY <2>2 DEF PlansInv
    <3> HIDE DEF task
    <3> QED
      BY <2>2, <3>1, MergedFits
  <2> HIDE DEF e
  <2>4. PlanOK(q)
    BY <1>3, <2>1, <2>3 DEF PlanOK, CallStep, Fields
  <2> HIDE DEF q
  <2> QED
    BY <1>2, <2>1, <2>4
<1>5. CASE Select(c)
  <2> DEFINE row == rows[Head(request[c].todo).id]
             e == request[c].entity
             D == {f \in DOMAIN e : e[f] # row[f]}
             q == [request[c] EXCEPT !.step = "update", !.changed = D]
  <2>1. request' = [request EXCEPT ![c] = q] /\ request[c].step = "select"
    BY <1>5 DEF Select, Waits
  <2> HIDE DEF D
  <2>2. PlanOK(q)
    BY <1>3, <2>1 DEF PlanOK, CallStep, Fields
  <2> HIDE DEF q
  <2> QED
    BY <1>2, <2>1, <2>2
<1>6. CASE Tiers(c)
  <2> DEFINE todo == Recalculation(request[c].base)
             s == IF Active # {} THEN "find" ELSE IF request[c].syncs THEN "over" ELSE "forget config"
             q == [request[c] EXCEPT !.todo = todo, !.base = 0, !.step = s]
  <2>1. request' = [request EXCEPT ![c] = q]
    BY <1>6 DEF Tiers
  <2>2. todo \in Seq(PlanTask) /\ (Active # {} => todo # <<>>)
    BY <1>3, Planned DEF PlanOK
  <2>3. s \in {"find", "over", "forget config"} /\ (s = "find" => Active # {})
    OBVIOUS
  <2> HIDE DEF todo, s
  <2>4. PlanOK(q)
    BY <1>3, <2>2, <2>3 DEF PlanOK, CallStep, Fields
  <2> HIDE DEF q
  <2> QED
    BY <1>2, <2>1, <2>4
<1>7. CASE ReadBase(c)
  <2> DEFINE b == rows[ConfigId].baseFeeBps
             q == [request[c] EXCEPT !.base = b]
  <2>1. request' = [request EXCEPT ![c] = q]
    BY <1>7 DEF ReadBase
  <2>2. request[c].step = "sync"
    BY <1>7 DEF ReadBase, Waits
  <2>3. b \in Nat
    <3>1. rows[ConfigId] \in [ConfigColumn -> Nat]
      BY DEF PlansInv, Id, RowOK, ConfigRow
    <3> QED
      BY <3>1 DEF ConfigColumn
  <2> HIDE DEF b
  <2>4. PlanOK(q)
    BY <1>3, <2>2, <2>3 DEF PlanOK
  <2> HIDE DEF q
  <2> QED
    BY <1>2, <2>1, <2>4
<1> QED
  BY <1>4, <1>5, <1>6, <1>7

LEMMA UpdatePlans ==
    ASSUME ConfigInv, PlansInv, NEW c \in Call, Update(c)
    PROVE  PlansInv'
<1> DEFINE q == request[c]
           task == Head(q.todo)
           row == Written(q, rows[task.id])
<1>1. cache' = cache /\ q.step = "update"
  BY DEF Update, Waits
<1>2. CASE Over(c) /\ rows' = rows
  BY <1>1, <1>2, PlanEnds
<1>3. CASE ~(Over(c) /\ rows' = rows)
  <2>1. rows' = [rows EXCEPT ![task.id] = row] /\ request' = [request EXCEPT ![c] = After(q)]
    BY <1>3 DEF Update
  <2>2. /\ task.id \in Id /\ ChangeOK(task.id, task.change)
        /\ "baseFeeBps" \in DOMAIN task.change => task.change["baseFeeBps"] \in Nat
        /\ Tail(q.todo) \in Seq(PlanTask)
        /\ Len(q.todo) > 1 => Tail(q.todo) # <<>>
    BY <1>1, TaskAtHand
  <2>3. RowOK(task.id, row)
    <3>1. RowOK(task.id, rows[task.id]) /\ RowOK(task.id, q.entity)
      BY <1>1, <2>2 DEF PlansInv, PlanOK
    <3> HIDE DEF task, q
    <3> QED
      BY <2>2, <3>1, WrittenFits
  <2>4. PlanOK(After(q))
    <3>1. /\ Fields \subseteq DOMAIN q
          /\ PlanOK(q)
      BY DEF ConfigInv, RequestOK, PlansInv
    <3>2. <<>> \in Seq(PlanTask)
      OBVIOUS
    <3> DEFINE s == IF Len(q.todo) > 1 THEN "find" ELSE IF q.syncs THEN "over" ELSE "forget config"
    <3>3. s \in {"find", "over", "forget config"} /\ (s = "find" => Tail(q.todo) # <<>>)
      BY <2>2
    <3>4. CASE "baseFeeBps" \in DOMAIN task.change
      <4>1. After(q) = [[q EXCEPT !.entity = Nothing, !.changed = {}]
                           EXCEPT !.step = "tiers", !.todo = <<>>, !.base = task.change.baseFeeBps]
        BY <3>4 DEF After
      <4> HIDE DEF q, task
      <4> QED
        BY <2>2, <3>1, <3>2, <3>4, <4>1 DEF PlanOK, CallStep, Fields
    <3>5. CASE "baseFeeBps" \notin DOMAIN task.change
      <4>1. After(q) = [[q EXCEPT !.entity = Nothing, !.changed = {}]
                           EXCEPT !.todo = Tail(@), !.step = s]
        BY <3>5 DEF After
      <4> HIDE DEF q, task, s
      <4> QED
        BY <2>2, <3>1, <3>3, <4>1 DEF PlanOK, CallStep, Fields
    <3> QED
      BY <3>4, <3>5
  <2>5. \A id \in Id : RowOK(id, rows'[id])
    <3> HIDE DEF task, row
    <3> QED
      BY <2>1, <2>3 DEF ConfigInv, PlansInv
  <2>6. \A b \in Call : PlanOK(request'[b])
    BY <2>1, <2>4 DEF ConfigInv, PlansInv
  <2> QED
    BY <1>1, <2>5, <2>6 DEF PlansInv
<1> QED
  BY <1>2, <1>3

LEMMA RestartPlans ==
    ASSUME ConfigInv, PlansInv, NEW c \in Call, Restart(c)
    PROVE  PlansInv'
<1>1. PICK r \in Replica :
          /\ cache' = [cache EXCEPT ![r] = [k \in CacheKey |-> {}]]
          /\ request' = [b \in Call |->
                IF b = c THEN [IdleCall("sync") EXCEPT !.replica = r, !.syncs = TRUE]
                ELSE IF request[b].replica = r THEN IdleCall(request[b].rest)
                ELSE request[b]]
  BY DEF Restart
<1>2. rows' = rows
  BY DEF Restart
<1>3. PlanOK([IdleCall("sync") EXCEPT !.replica = r, !.syncs = TRUE])
  BY DEF IdleCall, PlanOK, CallStep
<1>4. \A b \in Call : PlanOK(request'[b])
  BY <1>1, <1>3, IdlePlans DEF PlansInv
<1>5. ASSUME NEW t \in Replica, NEW k \in CacheKey PROVE AtMostOne(cache'[t][k])
  <2>1. CASE t = r
    <3>1. cache'[t] = [x \in CacheKey |-> {}]
      BY <1>1, <2>1 DEF ConfigInv
    <3>2. cache'[t][k] = {}
      BY <3>1
    <3> QED
      BY <3>2 DEF AtMostOne
  <2>2. CASE t # r
    <3>1. cache'[t] = cache[t]
      BY <1>1, <2>2 DEF ConfigInv
    <3> QED
      BY <3>1 DEF PlansInv
  <2> QED
    BY <2>1, <2>2
<1>6. \A id \in Id : RowOK(id, rows'[id])
  BY <1>2 DEF PlansInv
<1> QED
  BY <1>4, <1>5, <1>6 DEF PlansInv

LEMMA PlansStep == ConfigInv /\ PlansInv /\ [ConfigNext]_configVars => PlansInv'
<1>1. ASSUME PlansInv, UNCHANGED configVars PROVE PlansInv'
  BY <1>1 DEF configVars, PlansInv
<1>2. ASSUME ConfigInv, PlansInv, NEW c \in Call, Go(c) PROVE PlansInv'
  BY <1>2, FetchPlans, CachePlans, ControlPlans, PlanPlans, UpdatePlans DEF Go
<1>3. ASSUME ConfigInv, PlansInv, NEW c \in Call,
             \/ Get(c) \/ updateFeeConfiguration(c) \/ updateFeeTier(c)
             \/ deactivateOrActivateTier(c) \/ Restart(c) \/ Throw(c)
      PROVE  PlansInv'
  BY <1>3, GetPlans, AdministratorPlans, RestartPlans, ControlPlans
<1> QED
  BY <1>1, <1>2, <1>3, ExpirePlans DEF ConfigNext

(* The rows keep their columns and no fee is negative, a cache holds one   *)
(* copy at most, and a request that finds, selects or updates a row still  *)
(* has a row to save, whatever is asked and whatever restarts              *)
(* (config.service.ts, fee-configuration.repository.ts).                   *)
THEOREM ConfigTypes == ConfigSpec => []ConfigTypeOK
<1>1. ASSUME PlansInv PROVE ConfigTypeOK
  <2>1. rows[ConfigId] \in ConfigRow /\ \A t \in Tier : rows[t] \in TierRow
    <3>1. ConfigId \in Id /\ \A t \in Tier : t \in Id /\ t # ConfigId
      BY DEF Id, Tier, ConfigId
    <3> QED
      BY <1>1, <3>1 DEF PlansInv, RowOK
  <2>2. ASSUME NEW r \in Replica, NEW k \in CacheKey PROVE Cardinality(cache[r][k]) <= 1
    <3>1. CASE cache[r][k] = {}
      BY <3>1, FS_EmptySet
    <3>2. CASE cache[r][k] # {}
      <4>1. PICK v : cache[r][k] = {v}
        BY <1>1, <3>2 DEF PlansInv, AtMostOne
      <4> QED
        BY <4>1, FS_Singleton
    <3> QED
      BY <3>1, <3>2
  <2>3. \A c \in Call : /\ request[c].step \in CallStep
                        /\ request[c].step \in {"find", "select", "update"} => request[c].todo # <<>>
    BY <1>1 DEF PlansInv, PlanOK
  <2> QED
    BY <2>1, <2>2, <2>3 DEF ConfigTypeOK
<1> QED
  BY <1>1, ConfigInitInv, ConfigStep, PlansInitInv, PlansStep, PTL DEF ConfigSpec
=============================================================================
