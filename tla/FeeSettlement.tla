--------------------------- MODULE FeeSettlement ---------------------------
(* The fee settlement program: a config account, a vault with a token      *)
(* account for each mint fees were collected in, and the weekly settle.    *)
(* An instruction commits all its writes or none, so a failing check is a  *)
(* guard; for the two instructions that pay out, the answer of the last    *)
(* call is kept, since what they answer is the question.                   *)
EXTENDS Integers

CONSTANTS
    Key,           \* public keys that sign
    Address,       \* destination wallets
    Mint,          \* tokens fees are collected in
    Supply,        \* bound: tokens of each mint in the user's hands
    SwapAmounts,   \* arguments of collect_fee
    Allocations,   \* arguments of the allocation instructions
    Intervals,     \* arguments of the interval instructions
    Thresholds,    \* arguments of update_threshold
    Times,         \* unix timestamps of the clock
    Bump,          \* the canonical bump of a vault's address
    Totals         \* amounts the split is checked on

WalletType == 0 .. 3       \* charity, rebate, platform, staking
FEE_BPS == 10
MIN_INTERVAL == 3600

ASSUME FeeAssumption ==
    /\ Key # {} /\ Address # {} /\ Mint # {}
    /\ Supply \in Nat /\ SwapAmounts \subseteq Nat /\ Totals \subseteq Nat
    /\ Allocations \subseteq [WalletType -> Nat]
    /\ Intervals \subseteq Int /\ Thresholds \subseteq Nat
    /\ Times \subseteq Nat /\ Times # {}
    /\ Bump \in [Mint -> 1 .. 255]   \* the search for a bump starts at 255

VARIABLES
    now,      \* Clock::get()?.unix_timestamp
    config,   \* ConfigAccount
    vault,    \* FeeVault of each mint: accumulated and the stored bump
    ata,      \* tokens in each vault's token account
    holder,   \* tokens left with the payer
    usdc,     \* tokens in the USDC vault
    paid,     \* USDC each destination received from settlements
    answer    \* of the last settle or emergency_withdraw

vaults == <<vault, ata, holder>>
feeVars == <<now, config, vaults, usdc, paid, answer>>

Config == [initialized : BOOLEAN, authority : Key, multisig : Key, threshold_usd : Nat,
           bps : [WalletType -> Nat], wallet : [WalletType -> Address],
           locked : [WalletType -> BOOLEAN], settlement_interval : Int,
           last_settlement_ts : Nat, paused : BOOLEAN]
FeeVault == [accumulated : Nat, bump : 0 .. 255]
Answer == {"none", "SystemPaused", "SettlementNotDue", "WalletLocked", "SlippageExceeded",
           "NothingToDistribute", "settled", "ConstraintSeeds", "withdrawn"}

-----------------------------------------------------------------------------
(* utils/math.rs *)
bps_of(amount, bps) == (amount * bps) \div 10000
calculate_fee(amount, fee_bps) == (amount * fee_bps) \div 10000
total_bps(bps) == bps[0] + bps[1] + bps[2] + bps[3]

(* Mutant: the staking share is computed like the others. *)
split_rounding_down(total, bps) == [t \in WalletType |-> bps_of(total, bps[t])]

(* The staking contract gets the remainder. *)
split_usdc(total, bps) ==
    [t \in WalletType |->
        IF t < 3 THEN bps_of(total, bps[t])
                 ELSE total - bps_of(total, bps[0]) - bps_of(total, bps[1]) - bps_of(total, bps[2])]

-----------------------------------------------------------------------------
FeeInit ==
    /\ now \in Times
    /\ \E k \in Key, a \in Address :
          config = [initialized |-> FALSE, authority |-> k, multisig |-> k, threshold_usd |-> 0,
                    bps |-> [t \in WalletType |-> 0], wallet |-> [t \in WalletType |-> a],
                    locked |-> [t \in WalletType |-> FALSE], settlement_interval |-> 0,
                    last_settlement_ts |-> 0, paused |-> FALSE]
    /\ vault = [m \in Mint |-> [accumulated |-> 0, bump |-> 0]]
    /\ ata = [m \in Mint |-> 0]
    /\ holder = [m \in Mint |-> Supply]
    /\ usdc = 0
    /\ paid = [t \in WalletType |-> 0]
    /\ answer = "none"

(* The config account is created once, by whoever comes first. *)
initialize_config(owner, multisig, wallet, bps, interval, threshold) ==
    /\ ~config.initialized
    /\ total_bps(bps) = 10000
    /\ interval >= MIN_INTERVAL
    /\ config' = [initialized |-> TRUE, authority |-> owner, multisig |-> multisig,
                  threshold_usd |-> threshold, bps |-> bps, wallet |-> wallet,
                  locked |-> [t \in WalletType |-> FALSE], settlement_interval |-> interval,
                  last_settlement_ts |-> 0, paused |-> FALSE]
    /\ UNCHANGED <<now, vaults, usdc, paid, answer>>

(* Mutant: the accumulator counts the amount of the swap. *)
collect_swap_amount(m, swap_amount) ==
    LET fee == calculate_fee(swap_amount, FEE_BPS) IN
    /\ config.initialized /\ ~config.paused
    /\ fee > 0 /\ holder[m] >= fee
    /\ holder' = [holder EXCEPT ![m] = @ - fee]
    /\ ata' = [ata EXCEPT ![m] = @ + fee]
    /\ vault' = [vault EXCEPT ![m].accumulated = @ + swap_amount]
    /\ UNCHANGED <<now, config, usdc, paid, answer>>

(* The vault is created when needed; its bump is not stored. *)
collect_fee(m, swap_amount) ==
    LET fee == calculate_fee(swap_amount, FEE_BPS) IN
    /\ config.initialized /\ ~config.paused
    /\ fee > 0 /\ holder[m] >= fee
    /\ holder' = [holder EXCEPT ![m] = @ - fee]
    /\ ata' = [ata EXCEPT ![m] = @ + fee]
    /\ vault' = [vault EXCEPT ![m].accumulated = @ + fee]
    /\ UNCHANGED <<now, config, usdc, paid, answer>>

(* The loop over the remaining accounts looks at each and converts none of *)
(* them, so the USDC vault is reread as it was.                            *)
converted == 0

Refusal(min_total_usdc) ==
    CASE config.paused -> "SystemPaused"
      [] now < config.last_settlement_ts + config.settlement_interval -> "SettlementNotDue"
      [] \E t \in WalletType : config.locked[t] -> "WalletLocked"
      [] converted < min_total_usdc -> "SlippageExceeded"
      [] converted = 0 -> "NothingToDistribute"
      [] OTHER -> "none"

(* Anyone may call it; the balances move and the timestamp is kept only    *)
(* when no check refuses.                                                  *)
settle(min_total_usdc) ==
    LET refusal == Refusal(min_total_usdc)
        total == converted
        share == split_usdc(total, config.bps)
    IN
    /\ config.initialized
    /\ answer' = IF refusal = "none" THEN "settled" ELSE refusal
    /\ paid' = IF refusal = "none" THEN [t \in WalletType |-> paid[t] + share[t]] ELSE paid
    /\ usdc' = IF refusal = "none" THEN usdc - total ELSE usdc
    /\ config' = IF refusal = "none" THEN [config EXCEPT !.last_settlement_ts = now] ELSE config
    /\ UNCHANGED <<now, vaults>>

-----------------------------------------------------------------------------
(* instructions/admin.rs *)
is_authorized(signer) == config.initialized /\ signer \in {config.authority, config.multisig}

Admin == UNCHANGED <<now, vaults, usdc, paid, answer>>

update_threshold(signer, threshold) ==
    /\ is_authorized(signer)
    /\ config' = [config EXCEPT !.threshold_usd = threshold]
    /\ Admin

(* Any of the four addresses may be given. *)
update_wallets(signer, given, a) ==
    /\ is_authorized(signer)
    /\ config' = [config EXCEPT !.wallet = [t \in WalletType |-> IF t \in given THEN a ELSE @[t]]]
    /\ Admin

update_allocations(signer, bps) ==
    /\ is_authorized(signer)
    /\ total_bps(bps) = 10000
    /\ config' = [config EXCEPT !.bps = bps]
    /\ Admin

update_settlement_interval(signer, interval) ==
    /\ is_authorized(signer)
    /\ interval >= MIN_INTERVAL
    /\ config' = [config EXCEPT !.settlement_interval = interval]
    /\ Admin

set_paused(signer, paused) ==
    /\ is_authorized(signer)
    /\ config' = [config EXCEPT !.paused = paused]
    /\ Admin

set_wallet_lock(signer, wallet_type, locked) ==
    /\ is_authorized(signer)
    /\ wallet_type <= 3
    /\ config' = [config EXCEPT !.locked[wallet_type] = locked]
    /\ Admin

rotate_admin(signer, new_owner) ==
    /\ config.initialized /\ signer = config.multisig
    /\ config' = [config EXCEPT !.authority = new_owner]
    /\ Admin

(* The account constraint derives the vault's address from the stored      *)
(* bump; only then the tokens move.  A call of any other signer fails.     *)
emergency_withdraw(signer, m, amount) ==
    LET seeds == vault[m].bump = Bump[m] IN
    /\ config.initialized /\ signer = config.multisig
    /\ amount <= ata[m]
    /\ answer' = IF seeds THEN "withdrawn" ELSE "ConstraintSeeds"
    /\ ata' = IF seeds THEN [ata EXCEPT ![m] = @ - amount] ELSE ata
    /\ vault' = IF seeds
                  THEN [vault EXCEPT ![m].accumulated = IF @ < amount THEN 0 ELSE @ - amount]
                  ELSE vault
    /\ UNCHANGED <<now, config, holder, usdc, paid>>

-----------------------------------------------------------------------------
(* Anyone may send tokens to a token account. *)
Donate(m) ==
    /\ holder[m] > 0
    /\ holder' = [holder EXCEPT ![m] = @ - 1]
    /\ ata' = [ata EXCEPT ![m] = @ + 1]
    /\ UNCHANGED <<now, config, vault, usdc, paid, answer>>

FundUsdcVault ==
    /\ usdc < Supply
    /\ usdc' = usdc + 1
    /\ UNCHANGED <<now, config, vaults, paid, answer>>

Tick ==
    /\ now' \in {t \in Times : t > now}
    /\ UNCHANGED <<config, vaults, usdc, paid, answer>>

FeeNext ==
    \/ \E owner, multisig \in Key, wallet \in [WalletType -> Address], bps \in Allocations,
          interval \in Intervals, threshold \in Thresholds :
          initialize_config(owner, multisig, wallet, bps, interval, threshold)
    \/ \E m \in Mint, amount \in SwapAmounts : collect_fee(m, amount)
    \/ \E min \in {0, 1} : settle(min)
    \/ \E signer \in Key :
          \/ \E threshold \in Thresholds : update_threshold(signer, threshold)
          \/ \E given \in SUBSET WalletType, a \in Address : update_wallets(signer, given, a)
          \/ \E bps \in Allocations : update_allocations(signer, bps)
          \/ \E interval \in Intervals : update_settlement_interval(signer, interval)
          \/ \E paused \in BOOLEAN : set_paused(signer, paused)
          \/ \E t \in 0 .. 4, locked \in BOOLEAN : set_wallet_lock(signer, t, locked)
          \/ \E new_owner \in Key : rotate_admin(signer, new_owner)
          \/ \E m \in Mint : \E amount \in 1 .. Supply : emergency_withdraw(signer, m, amount)
    \/ \E m \in Mint : Donate(m)
    \/ FundUsdcVault \/ Tick

FeeSpec == FeeInit /\ [][FeeNext]_feeVars

-----------------------------------------------------------------------------
(* Properties *)

FeeTypeOK ==
    /\ now \in Nat
    /\ config \in Config
    /\ vault \in [Mint -> FeeVault]
    /\ ata \in [Mint -> Nat]
    /\ holder \in [Mint -> Nat]
    /\ usdc \in Nat
    /\ paid \in [WalletType -> Nat]
    /\ answer \in Answer

(* What a vault says it accumulated is in its token account, whatever was  *)
(* sent to that account besides or withdrawn from it.                      *)
AccumulatedBacked == \A m \in Mint : vault[m].accumulated <= ata[m]

(* "Staking bucket absorbs rounding dust" (README.md:133): with the        *)
(* allocations any sequence of administrators' calls can leave, a total is *)
(* given out to the last unit and nobody gets less than the allocation.    *)
SplitIsExact ==
    config.initialized => \A total \in Totals :
        LET share == split_usdc(total, config.bps) IN
        /\ share[0] + share[1] + share[2] + share[3] = total
        /\ \A t \in WalletType : share[t] >= bps_of(total, config.bps[t])

-----------------------------------------------------------------------------
(* What the documentation says and the code does not do.                    *)

(* "After all conversions, splits total USDC and transfers to 4            *)
(* destinations" (instructions/settle.rs:14): a settlement does not end     *)
(* with nothing to distribute while a vault holds the threshold, a unit of  *)
(* its token taken for a dollar.                                            *)
SettlementDistributes ==
    [][\A min \in {0, 1} : settle(min) /\ answer' = "NothingToDistribute" =>
          \A m \in Mint : vault[m].accumulated < config.threshold_usd]_feeVars

(* "Emergency fund rescue" by the multisig (README.md:83): a withdrawal of  *)
(* what a vault holds succeeds.                                             *)
WithdrawalWorks == answer # "ConstraintSeeds"

(* What it comes to instead: fees that reached a vault never leave it, by a *)
(* settlement or an emergency withdrawal, and no destination is paid.       *)
FeesNeverLeave ==
    [][(\A m \in Mint : ata'[m] >= ata[m]) /\ usdc' >= usdc /\ paid' = paid]_feeVars
=============================================================================
