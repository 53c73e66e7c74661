---------------------------- MODULE RewardEpochs ----------------------------
(***************************************************************************)
(* The rewards side of the KNS staking program: per-epoch USDC vaults that *)
(* are announced with a Merkle root, funded, claimed from once per wallet  *)
(* and finally swept to the treasury.                                      *)
(*                                                                         *)
(* A Merkle root stands for the set of leaves it commits to: Keccak-256 is *)
(* taken to be collision free, so a proof verifies exactly for a leaf of   *)
(* the committed set.  The off-chain engine that builds the tree is not    *)
(* part of the repository, so any finite set of leaves is a possible root. *)
(***************************************************************************)
EXTENDS StakingConfig, Functions, FiniteSets

CONSTANTS
    EpochId,
    USDC,            \* the mint config.usdc_mint names
    Mint,            \* the mints initialize_epoch may be given
    USDC_MIN_CLAIM,
    Roots,           \* the Merkle roots tried, each a set of leaves
    TotalRewards,    \* the arguments total_rewards tried
    ClaimAmounts,    \* the arguments amount tried with claim
    Deposits,        \* amounts of direct transfers into an epoch vault
    InitialUsdc      \* USDC in the wallets' token accounts at the start

(* compute_leaf binds the epoch, the claimer and the amount together.      *)
Leaf == [epoch_id : Nat, claimer : Wallet, amount : Nat]

ASSUME EpochAssumption ==
    /\ IsFiniteSet(Wallet)
    /\ IsFiniteSet(EpochId) /\ EpochId \subseteq Nat
    /\ USDC \in Mint
    /\ USDC_MIN_CLAIM \in Nat \ {0}
    /\ Roots \subseteq SUBSET Leaf
    /\ TotalRewards \subseteq Nat
    /\ ClaimAmounts \subseteq Nat
    /\ Deposits \subseteq Nat
    /\ InitialUsdc \in [Wallet -> Nat]

VARIABLES
    epoch,          \* the Epoch PDA of each id; NoEpoch before it is created
    epoch_vault,    \* balance of each epoch's vault token account
    claim_record,   \* amount_claimed of the EpochClaimRecords; 0: no record
    usdc            \* balance of each wallet's own USDC token account

epochOnlyVars == <<epoch, epoch_vault, claim_record, usdc>>
epochVars == <<now, config, epoch, epoch_vault, claim_record, usdc>>

-----------------------------------------------------------------------------
EpochStatus == {"Pending", "Active", "Closed"}

Epoch == [status : EpochStatus, merkle_root : Roots, vault_mint : Mint,
          total_rewards : Nat, funded_amount : Nat,
          snapshot_ts : Nat, claim_deadline : Nat]

NoEpoch == [status |-> "None", merkle_root |-> {}, vault_mint |-> USDC,
            total_rewards |-> 0, funded_amount |-> 0,
            snapshot_ts |-> 0, claim_deadline |-> 0]

compute_leaf(e, claimer, amount) ==
    [epoch_id |-> e, claimer |-> claimer, amount |-> amount]

(* Mutant: the epoch is not part of what is hashed.                        *)
verify_any_epoch(root, leaf) ==
    \E l \in root : l.claimer = leaf.claimer /\ l.amount = leaf.amount

verify_merkle_proof(root, leaf) == leaf \in root

EpochInit ==
    /\ ConfigInit
    /\ epoch = [e \in EpochId |-> NoEpoch]
    /\ epoch_vault = [e \in EpochId |-> 0]
    /\ claim_record = [e \in EpochId |-> [w \in Wallet |-> 0]]
    /\ usdc = InitialUsdc

(* Mutant: init_if_needed in place of init.                                *)
InitializeEpochOver(signer, e, total, snapshot) ==
    /\ total > 0
    /\ RequireAdmin(signer)
    /\ snapshot <= now
    /\ now + config.distribution_period <= MAX_I64

(* The Epoch PDA is created (init) and never closed: an id is used once.   *)
InitializeEpochReady(signer, e, total, snapshot) ==
    /\ total > 0
    /\ RequireAdmin(signer)
    /\ snapshot <= now
    /\ now + config.distribution_period <= MAX_I64
    /\ epoch[e] = NoEpoch

(* The mint of the vault is the caller's choice here; nothing relates      *)
(* total_rewards to the leaves of the root.                                *)
InitializeEpoch(signer, e, root, mint, total, snapshot) ==
    /\ InitializeEpochReady(signer, e, total, snapshot)
    /\ epoch' = [epoch EXCEPT ![e] =
                    [status |-> "Pending", merkle_root |-> root,
                     vault_mint |-> mint, total_rewards |-> total,
                     funded_amount |-> 0, snapshot_ts |-> snapshot,
                     claim_deadline |-> now + config.distribution_period]]
    /\ UNCHANGED <<configVars, epoch_vault, claim_record, usdc>>

(* Mutant: the amount is not compared with total_rewards.                  *)
FundReadyAnyAmount(signer, e, amount) ==
    /\ RequireAdmin(signer)
    /\ epoch[e].status = "Pending"
    /\ epoch[e].vault_mint = USDC
    /\ usdc[signer] >= amount

(* The token program refuses the transfer unless the vault is of the mint. *)
FundReady(signer, e, amount) ==
    /\ RequireAdmin(signer)
    /\ epoch[e].status = "Pending"
    /\ amount = epoch[e].total_rewards
    /\ epoch[e].vault_mint = USDC
    /\ usdc[signer] >= amount

FundEpoch(signer, e, amount) ==
    /\ FundReady(signer, e, amount)
    /\ usdc' = [usdc EXCEPT ![signer] = @ - amount]
    /\ epoch_vault' = [epoch_vault EXCEPT ![e] = @ + amount]
    /\ epoch' = [epoch EXCEPT ![e].funded_amount = amount,
                              ![e].status = "Active"]
    /\ UNCHANGED <<configVars, claim_record>>

(* Mutant: an epoch can be closed while claims are open.                   *)
CloseReadyEarly(signer, e) ==
    RequireAdmin(signer) /\ epoch[e].status = "Active"

CloseReady(signer, e) ==
    /\ RequireAdmin(signer)
    /\ epoch[e].status = "Active"
    /\ now >= epoch[e].claim_deadline

(* Mutant: the whole reward is paid to the treasury, claims or no claims.  *)
CloseEpochPaysTotal(signer, e) ==
    /\ CloseReady(signer, e)
    /\ usdc' = [usdc EXCEPT ![config.treasury] = @ + epoch[e].total_rewards]
    /\ epoch_vault' = [epoch_vault EXCEPT ![e] = 0]
    /\ epoch' = [epoch EXCEPT ![e].status = "Closed"]
    /\ UNCHANGED <<configVars, claim_record>>

(* Everything left, direct deposits included, goes to the treasury.        *)
CloseEpoch(signer, e) ==
    /\ CloseReady(signer, e)
    /\ usdc' = [usdc EXCEPT ![config.treasury] = @ + epoch_vault[e]]
    /\ epoch_vault' = [epoch_vault EXCEPT ![e] = 0]
    /\ epoch' = [epoch EXCEPT ![e].status = "Closed"]
    /\ UNCHANGED <<configVars, claim_record>>

(* Mutant: the claim record may exist already.                             *)
ClaimReadyTwice(owner, e, amount) ==
    /\ config.initialized
    /\ ~config.paused_claims
    /\ epoch[e].status = "Active"
    /\ now < epoch[e].claim_deadline
    /\ amount >= USDC_MIN_CLAIM
    /\ verify_merkle_proof(epoch[e].merkle_root, compute_leaf(e, owner, amount))
    /\ epoch_vault[e] >= amount

(* The claim record is created with `init`, which fails if it exists.      *)
ClaimReady(owner, e, amount) ==
    /\ config.initialized
    /\ ~config.paused_claims
    /\ epoch[e].status = "Active"
    /\ now < epoch[e].claim_deadline
    /\ amount >= USDC_MIN_CLAIM
    /\ verify_merkle_proof(epoch[e].merkle_root, compute_leaf(e, owner, amount))
    /\ claim_record[e][owner] = 0
    /\ epoch_vault[e] >= amount

Claim(owner, e, amount) ==
    /\ ClaimReady(owner, e, amount)
    /\ claim_record' = [claim_record EXCEPT ![e][owner] = amount]
    /\ epoch_vault' = [epoch_vault EXCEPT ![e] = @ - amount]
    /\ usdc' = [usdc EXCEPT ![owner] = @ + amount]
    /\ UNCHANGED <<configVars, epoch>>

(* A plain token-program transfer into an epoch vault, at any time from    *)
(* its creation on, which no instruction of the program sees.              *)
TransferToEpochVault(from, e, amount) ==
    /\ epoch[e] # NoEpoch
    /\ epoch[e].vault_mint = USDC
    /\ usdc[from] >= amount
    /\ usdc' = [usdc EXCEPT ![from] = @ - amount]
    /\ epoch_vault' = [epoch_vault EXCEPT ![e] = @ + amount]
    /\ UNCHANGED <<configVars, epoch, claim_record>>

EpochOps ==
    \/ \E w \in Wallet, e \in EpochId, r \in Roots, m \in Mint,
          t \in TotalRewards, s \in Times : InitializeEpoch(w, e, r, m, t, s)
    \/ \E w \in Wallet, e \in EpochId, a \in TotalRewards : FundEpoch(w, e, a)
    \/ \E w \in Wallet, e \in EpochId : CloseEpoch(w, e)
    \/ \E w \in Wallet, e \in EpochId, a \in ClaimAmounts : Claim(w, e, a)
    \/ \E w \in Wallet, e \in EpochId, a \in Deposits :
          TransferToEpochVault(w, e, a)

EpochNext == EpochOps \/ (ConfigNext /\ UNCHANGED epochOnlyVars)

EpochSpec == EpochInit /\ [][EpochNext]_epochVars

-----------------------------------------------------------------------------
(* Every account holds what its Rust type allows.                          *)
EpochTypeOK ==
    /\ ConfigTypeOK
    /\ epoch \in [EpochId -> Epoch \cup {NoEpoch}]
    /\ epoch_vault \in [EpochId -> Nat]
    /\ claim_record \in [EpochId -> [Wallet -> Nat]]
    /\ usdc \in [Wallet -> Nat]

Claimed(e) == SumFunctionOnSet(claim_record[e], Wallet)

(* Funding, claiming and sweeping move USDC between accounts and neither   *)
(* mint nor lose any (lib.rs:251, :309, :394).                             *)
UsdcConserved ==
    SumFunctionOnSet(usdc, Wallet) + SumFunctionOnSet(epoch_vault, EpochId)
      = SumFunctionOnSet(InitialUsdc, Wallet)

(* While claims are open, the vault together with all that has been        *)
(* claimed accounts for the whole announced reward, which was really put   *)
(* in and is really USDC; nothing is claimed of an epoch never funded.     *)
EpochSolvent ==
    \A e \in EpochId :
        /\ epoch[e].status = "Active" =>
              /\ epoch[e].vault_mint = USDC
              /\ epoch_vault[e] + Claimed(e) >= epoch[e].total_rewards
        /\ epoch[e].status \in {"None", "Pending"} =>
              \A w \in Wallet : claim_record[e][w] = 0

(* Every claim ever recorded is one the epoch's root commits to for that   *)
(* very wallet and epoch, so no leaf is reused in another epoch.           *)
ClaimsCommitted ==
    \A e \in EpochId, w \in Wallet :
        claim_record[e][w] # 0 =>
            /\ [epoch_id |-> e, claimer |-> w, amount |-> claim_record[e][w]]
                  \in epoch[e].merkle_root
            /\ claim_record[e][w] >= USDC_MIN_CLAIM

(* A root is within its budget when the leaves of this epoch, one claim to *)
(* a wallet, add up to no more than total_rewards.  The program does not   *)
(* check this: it is what it relies on the off-chain engine for.           *)
WithinBudget(e) ==
    \E share \in [Wallet -> 0 .. epoch[e].total_rewards] :
        /\ SumFunctionOnSet(share, Wallet) <= epoch[e].total_rewards
        /\ \A leaf \in epoch[e].merkle_root :
              leaf.epoch_id = e => leaf.amount <= share[leaf.claimer]

(* With such a root, claims succeed in every order: whoever has not        *)
(* claimed and is owed at least the minimum can claim until the deadline,  *)
(* unless claims are paused.                                               *)
EveryLeafClaimable ==
    \A e \in EpochId :
        /\ epoch[e].status = "Active"
        /\ now < epoch[e].claim_deadline
        /\ ~config.paused_claims
        /\ WithinBudget(e)
        => \A leaf \in epoch[e].merkle_root :
              /\ leaf.epoch_id = e
              /\ leaf.amount >= USDC_MIN_CLAIM
              /\ claim_record[e][leaf.claimer] = 0
              => ClaimReady(leaf.claimer, e, leaf.amount)

Terms(ep) == <<ep.merkle_root, ep.vault_mint, ep.total_rewards,
               ep.snapshot_ts, ep.claim_deadline>>

(* Once announced, an epoch keeps its root, reward and deadline whatever   *)
(* the admin does: update_distribution_period "takes effect for future     *)
(* epochs only" (lib.rs:437).  A record once made stays as it is.          *)
EpochKept(e) ==
    /\ epoch[e] # NoEpoch => Terms(epoch'[e]) = Terms(epoch[e])
    /\ \A w \in Wallet : claim_record[e][w] # 0 =>
          claim_record'[e][w] = claim_record[e][w]

TermsFrozen == [][\A e \in EpochId : EpochKept(e)]_epochVars

(* USDC leaves a vault in two ways: before the deadline to one wallet      *)
(* that had not claimed, for exactly the amount recorded; or from the      *)
(* deadline on, all of it to the treasury, and then for good.              *)
PaidToClaimer(e) ==
    \E w \in Wallet :
        /\ now < epoch[e].claim_deadline
        /\ claim_record[e][w] = 0
        /\ claim_record'[e][w] = epoch_vault[e] - epoch_vault'[e]
        /\ usdc'[w] = usdc[w] + claim_record'[e][w]

SweptToTreasury(e) ==
    /\ now >= epoch[e].claim_deadline
    /\ epoch_vault'[e] = 0
    /\ epoch'[e].status = "Closed"
    /\ usdc'[config.treasury] = usdc[config.treasury] + epoch_vault[e]

OutflowAccounted ==
    [][\A e \in EpochId :
          epoch_vault'[e] < epoch_vault[e] =>
              PaidToClaimer(e) \/ SweptToTreasury(e)]_epochVars

(* The epochs implement the abstract pots.                                 *)
Pots == INSTANCE RewardPots WITH
    phase <- [e \in EpochId |-> epoch[e].status],
    pot <- epoch_vault,
    paid <- claim_record

(* Every epoch opens once with its budget in its vault, pays each wallet   *)
(* at most once, is emptied at its end and leaves the other epochs alone.  *)
ImplementsPots == Pots!PotSpec
=============================================================================
