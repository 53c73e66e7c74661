--------------------------- MODULE StakingConfig ---------------------------
(***************************************************************************)
(* The global Config account of the KNS staking program and the cluster    *)
(* clock: the state that the staking side and the rewards side share.      *)
(*                                                                         *)
(* Every instruction of the program is one action here or in a module that *)
(* extends this one: a Solana transaction either commits all its writes or *)
(* none, so require!, checked arithmetic, the Anchor account constraints   *)
(* and the preconditions of the token program are all guards.              *)
(***************************************************************************)
EXTENDS Integers

CONSTANTS
    Wallet,           \* public keys: stakers, admins and the treasury
    SECONDS_PER_DAY,
    MAX_I64,          \* bound of the i64 timestamps
    Times,            \* the unix timestamps the clock is observed at
    PeriodDays        \* arguments tried with update_distribution_period

ASSUME ConfigAssumption ==
    /\ SECONDS_PER_DAY \in Nat \ {0}
    /\ MAX_I64 \in Nat
    /\ 14 * SECONDS_PER_DAY <= MAX_I64
    /\ Times \subseteq Nat
    /\ 0 \in Times
    /\ PeriodDays \subseteq Int

VARIABLES
    now,      \* Clock::get()?.unix_timestamp
    config    \* the config PDA

configVars == <<now, config>>

Config == [initialized : BOOLEAN,
           admin : Wallet,
           treasury : Wallet,
           paused_deposits : BOOLEAN,
           paused_claims : BOOLEAN,
           total_weighted_stake : Nat,
           distribution_period : Nat]

ConfigTypeOK == now \in Nat /\ config \in Config

-----------------------------------------------------------------------------
ConfigInit ==
    /\ now = 0
    /\ \E w \in Wallet :
          config = [initialized |-> FALSE, admin |-> w, treasury |-> w,
                    paused_deposits |-> FALSE, paused_claims |-> FALSE,
                    total_weighted_stake |-> 0, distribution_period |-> 0]

(* Mutant: init_if_needed in place of init.                                *)
InitializeAgain(admin, treasury) ==
    /\ config' = [initialized |-> TRUE, admin |-> admin, treasury |-> treasury,
                  paused_deposits |-> FALSE, paused_claims |-> FALSE,
                  total_weighted_stake |-> 0,
                  distribution_period |-> 14 * SECONDS_PER_DAY]
    /\ UNCHANGED now

(* The config PDA is created once; whoever pays for it names the admin.    *)
Initialize(admin, treasury) ==
    /\ ~config.initialized
    /\ config' = [initialized |-> TRUE, admin |-> admin, treasury |-> treasury,
                  paused_deposits |-> FALSE, paused_claims |-> FALSE,
                  total_weighted_stake |-> 0,
                  distribution_period |-> 14 * SECONDS_PER_DAY]
    /\ UNCHANGED now

(* require_admin: an instruction needs the config account and its admin's  *)
(* signature.                                                              *)
RequireAdmin(signer) == config.initialized /\ config.admin = signer

SetPause(signer, pause_deposits, pause_claims) ==
    /\ RequireAdmin(signer)
    /\ config' = [config EXCEPT !.paused_deposits = pause_deposits,
                                !.paused_claims = pause_claims]
    /\ UNCHANGED now

(* One-step transfer: the new admin need not sign.                         *)
TransferAdmin(signer, new_admin) ==
    /\ RequireAdmin(signer)
    /\ config' = [config EXCEPT !.admin = new_admin]
    /\ UNCHANGED now

UpdateDistributionPeriod(signer, new_period_days) ==
    /\ new_period_days > 0
    /\ RequireAdmin(signer)
    /\ new_period_days * SECONDS_PER_DAY <= MAX_I64
    /\ config' = [config EXCEPT
                    !.distribution_period = new_period_days * SECONDS_PER_DAY]
    /\ UNCHANGED now

(* The cluster clock moves on; it never moves back.                        *)
Tick ==
    /\ \E t \in Times : now < t /\ now' = t
    /\ UNCHANGED config

ConfigNext ==
    \/ \E w, t \in Wallet : Initialize(w, t)
    \/ \E w \in Wallet, d, c \in BOOLEAN : SetPause(w, d, c)
    \/ \E w, n \in Wallet : TransferAdmin(w, n)
    \/ \E w \in Wallet, days \in PeriodDays : UpdateDistributionPeriod(w, days)
    \/ Tick
=============================================================================
