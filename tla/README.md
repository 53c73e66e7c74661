# TLA+ verification of KindSwap

KindSwap is a swap front end for Solana with a points programme, a token (KNS)
whose holders earn points daily, a staking program that pays stakers USDC from
reward epochs, and a fee program that splits collected fees. This directory
holds TLA+ models of the parts of it that keep state other parties rely on,
the TLC runs that check them, and TLAPS proofs of the properties that matter
most. Paths below are relative to the repository; `staking/lib.rs` stands for
`src/kns staking/Kns_Staking/app/programs/staking/src/lib.rs`, `fee/` for
`src/contar t kns fee/Contract-kns_fee_/kindswap_fee_settlement/programs/kindswap_fee_settlement/src/`
`backend/` for `src/backend/src/` and `frontend/` for `src/frontend/src/`.

## 1. The system

| Part | State it keeps | Operations | Talks to |
|---|---|---|---|
| Staking program, configuration | `Config` PDA: admin, treasury, pause flags, weighted total, period | `initialize`, `set_pause`, `transfer_admin`, `update_distribution_period` | read by every other instruction |
| Staking program, stakes | a `UserStake` and a vault per wallet | `stake`, `unstake` | token program; weighted total in `Config` |
| Staking program, epochs | an `Epoch` and a USDC vault per id, an `EpochClaimRecord` per claim | `initialize_epoch`, `fund_epoch`, `claim`, `close_epoch` | token program; an off-chain engine (not in the repository) builds the Merkle roots |
| Fee program (`fee/`) | `FeeConfig`, fee vaults | `initialize`, `collect_fee`, `settle`, administration, `emergency_withdraw` | token program, clock |
| KNS distribution (`backend/api/services/kns-scheduler.service.ts`) | `isProcessing` per process; tables `kns_award_history`, `user_points` | daily cron job, manual trigger | Helius RPC, the average-balance service, PostgreSQL |
| Points ledger and swaps (`points.service.ts`, `user-points.repository.ts`) | `user_points`, `swap_transactions` | log a swap, award community points, daily and weekly resets | PostgreSQL, transaction verification |
| Contributions (`contributions.controller.ts`) | `contribution_submissions` | submit, approve, reject | points ledger |
| Average balance (`kns-balance.service.ts`) | none | rebuilds a wallet's balance over time and averages it | Helius RPC |
| Fee configuration (`config.service.ts`) | database rows and a cache of them | read, update, invalidate | cache, PostgreSQL |
| Swap form (`frontend/pages/swap.tsx`) | both amounts, edited field, tokens, a flag, a debounce and a refresh timer | edit, exchange, refresh, quote | quote API |
| Swap execution (`swap.tsx`, `contexts/jupiter/jupiterSwap.ts`) | where each press waits; `isLoading`, the modal | quote, build, send, confirm, report | wallet, Solana, backend |
| Mobile redirect (`lib/wallet/PhantomMobileAdapter.ts`, `PhantomMobileCallbackHandler.tsx`) | three keys of localStorage | deep link, callback, submit, report | Phantom app, swap and staking pages |
| Helius client, verification, prices, authentication, leaderboards, admin backend and panel, infrastructure, scripts | little or none | | see section 7 |

**Shared state.** The two halves of the staking program share `Config` and
nothing else: pausing deposits does not touch epochs, and the weighted total
is the only number the reward engine reads. On the backend the table
`user_points` is shared by the distribution (SQL `UPDATE ... + n`), the swap
points and the contributions (read, change in memory, save), by several
replicas at once: the backend chart starts two and scales to ten.

**What is hard.** On chain each instruction is atomic, so the difficulty is in
long histories: any wallet may call any instruction in any order at any time,
tokens can reach a vault without the program's knowledge, and the admin
changes parameters while stakes and epochs run. On the backend nothing is
atomic: every `await` lets other requests, other replicas, midnight or a crash
in, and no job uses a transaction. In the browser a press of the button is a
chain of promises over the page's shared state, a send may have reached the chain
though its answer is lost, and on a phone the page is gone while the wallet signs.

**What makes each part correct.**
Stakes: the weighted total is exact, no KNS is lost, an expired stake can be
withdrawn, none earlier. Epochs: USDC leaves a vault only to someone the root
names, once, or to the treasury after the deadline; whoever is named can claim.
Distribution: at most one award per wallet and day, each recorded, each record
paid. Fee program: the split gives out exactly the total; vaults and counters
agree. Points: nothing is granted that was not earned, nothing granted is lost,
`totalPoints` is the sum of its parts, caps hold, each swap counts once. Contributions: reviewed once, credited iff approved. Fee
configuration: the portions are 100% wherever they are read, and no stale fee
outlives an update by more than the time to live. Swap: a press broadcasts one swap
at most, its fee first, ends, and is reported once. Form: what it shows is a quote.

The hazards behind these are listed line by line in `PROJECT.json`.

## 2. The modules

| Module | Models | Code |
|---|---|---|
| `StakingConfig` | `Config` and the cluster clock; base of the next two | `staking/lib.rs` |
| `StakeVaults` | `stake`, `unstake`, direct transfers into a stake vault | `staking/lib.rs` 43-175 |
| `RewardEpochs` | `initialize_epoch`, `fund_epoch`, `claim`, `close_epoch`, direct transfers | `staking/lib.rs` 181-410 |
| `RewardPots` | abstract: what an epoch promises | implemented by `RewardEpochs` |
| `KnsDistribution` | the daily job and the statements it issues | `kns-scheduler.service.ts`, `kns-award-history.repository.ts`, `user-points.repository.ts` |
| `AwardOnce` | abstract: what the distribution promises | implemented by `KnsDistribution` |
| `PointsLedger` | every SELECT, INSERT and UPDATE on `user_points` | `user-points.repository.ts` |
| `PointsService` | logging a swap, community awards, what an approval adds, scheduled resets; extends the ledger | `points.service.ts`, `swap-transaction.repository.ts` |
| `Contributions` | submit, approve, reject; extends the ledger | `contributions.controller.ts`, `contribution-submission.repository.ts` |
| `ReviewDesk` | abstract: what contributions promise | implemented by `Contributions` |
| `FeeSettlement` | every instruction of the fee program | `fee/instructions/`, `fee/utils/math.rs` |
| `FeeConfig` | rows, caches, administrators, recalculation, a starting replica | `config.service.ts`, `fee-configuration.repository.ts`, `fee-tier.repository.ts` |
| `QuoteForm` | the form's fields and the effect that quotes | `swap.tsx` 2124-2359 |
| `SwapExecution` | a press of the button, up to its report | `swap.tsx` 2361-2660, `jupiterSwap.ts` 254-900 |
| `MobileSwap` | composes it with the redirect to the wallet and the staking page | `PhantomMobileAdapter.ts`, `PhantomMobileCallbackHandler.tsx`, `swap.tsx` 1641-1727 |
| `SumTheorems` | lemmas on sums over finite sets | none |
| `LedgerProofs` | lemmas on the statements of `PointsLedger`, for the next two | |
| `StakingProofs`, `KnsDistributionProofs`, `PointsProofs`, `ContributionProofs`, `FeeProofs`, `SwapProofs` | theorems and proofs: the staking program; the distribution; swap points; contributions; fee program and fee configuration; swap form, execution and redirect | |
| `MC...` of each (`MobileSwap` needs none) | instances for TLC | |

### Staking program

One action is one instruction. A Solana transaction commits all its writes or
none, so `require!`, checked arithmetic, Anchor's account constraints (`init`,
`has_one`, token ownership) and the token program's own conditions (enough
balance, matching mint, `close_account` only on an empty account) are guards,
and there is no action for a failed call. Accounts are functions: `user_stake`
is the `UserStake` PDAs with `NoStake` for one that does not exist,
`claim_record` is 0 where there is no `EpochClaimRecord` (the program claims at
least `USDC_MIN_CLAIM`, so 0 is not an amount). Guards that a property speaks
of are operators of their own (`UnstakeReady`, `ClaimReady`, ...), so that
"can be withdrawn" and "can be claimed" mean exactly what the code requires.

Abstractions:

- Time is `now`, drawn from `Times` and never decreasing. `SECONDS_PER_DAY` is a
  constant: 86400 in the code, 1 in the runs. Timestamps are bounded by
  `MAX_I64`. The sums that can reach it are guards as `checked_add` is; token
  amounts are natural numbers, because the supply of a mint fits its u64.
- A Merkle root is the set of leaves it commits to, and a proof verifies exactly
  for a member. This takes Keccak-256 as collision free. Roots, including ones
  that promise more than the reward or hold two leaves for one wallet, are
  inputs. (The comment at `staking/lib.rs:375` says SHA-256; the code hashes
  with Keccak.)
- `TransferToStakeVault` and `TransferToEpochVault` stand for plain
  token transfers, which anybody can make and no instruction sees.

### KNS distribution

A replica is a backend process. `phase`, `today`, `todo`, `toInsert` and
`toCredit` are the locals of its `executeDistribution`, and `phase = "idle"` is
`!isProcessing`. The code between two `await`s is one action:

| Action | Code |
|---|---|
| `Start` | cron at 00:05 or manual trigger; sets `isProcessing`, fixes `today` |
| `FetchHolders` | `getWalletsToProcess` and the 10,000 KNS filter |
| `FilterProcessed` | `getWalletsNotProcessedToday` |
| `Collect` | one wallet's average: award, none, or an error with its record |
| `FindMissing`, `CreateMissing` | the SELECT and the INSERT of `ensureWalletsExist` |
| `InsertChunk` | one INSERT of `bulkInsertAwardRecords` |
| `CreditChunk` | one UPDATE of `bulkAddKNSPoints` |
| `Abort` | a call throws (the catch rethrows, the finally clears the flag) or the process dies |
| `DayOver` | midnight UTC, also during a run |

`kns_award_history` is `history`, a function because of the entity's unique
index on (wallet, awardDate) (`kns-award-history.entity.ts:15`; no migration
creates that table, so the entity's schema is assumed). `rows` counts the rows
of `user_points` for a wallet, which has no such index. Wallets start with no
row or one. `credited` counts the UPDATEs that reached a row. Amounts of points
are left out: no property of the job depends on the tier. A chunk has
`CHUNK_SIZE` records (1000 in the code), the last one fewer, and its members
are chosen freely since their order is that of the RPC's answer. Containers are
taken to run in UTC.

### Points ledger and points service

One wallet is modelled: each statement addresses one wallet or treats all rows
alike. `rows` are its rows in `user_points`, usually one; nothing in the schema
makes a second impossible. `access[c]` is the repository call a request is in,
and its steps are the statements of TypeORM: `FindOne`, `InsertRow`, and for
`save(record)` first `SaveSelect`, which decides which columns differ from the
entity, then `SaveUpdate`, which writes those. `due` is a history variable: what
the row would say if no grant were lost and the counters were of this UTC day
and week. `request[c]` holds the locals of a request: the swap, what the SELECT
of its record found, the points it will add.

| Action | Code |
|---|---|
| `LogSwap` | `POST swaps/log` up to the verified swap, an input |
| `FindSwap`, `StoreSwap`, `StoreConflict` | `swapTransactionRepository.create`: save with a given key selects, then inserts or updates |
| `Quota` | what is left under the daily cap |
| `Added`, `Counted`, `updatePointsAwarded` | points, statistics, flag, one after the other |
| `AwardCommunity`, `Check`, `Granted` | `awardCommunityPoints` |
| `Approve`, `Approved`, `Granted` | the approval of a contribution, as far as it concerns this row: `getOrCreate`, the checks (an input), `addCommunityPoints` |
| `resetDailyCounters`, `resetWeeklyCounters` | the cron jobs, in their minute, on each replica or none |
| `CreditKns` | the distribution's UPDATE, at most once for each day: what `AtMostOncePerDay` and `CreditsHaveRows` of `KnsDistribution` establish |
| `Fail` | a call throws or the process dies; what it wrote stays |

`clock` tells the two minutes in which jobs run from the rest of the day. Dates
are day numbers, 0 for NULL; `WEEK` is 7 in the code. The conditions of
`where(A OR B).andWhere(C)` are joined without brackets, as TypeORM does, so a
reset moves the date of a row whose counter is already zero. Amounts of USD are
cents; volume and average columns are left out. `updateRank`, `addKNSPoints` and
the single-row resets are not modelled, nothing calls them.

### Contributions

One wallet. `submissions` are its rows, `review[c]` where a request waits and the
entity it will save; the points themselves are `PointsLedger`'s, so that an
approval is: read the submission, read the points (`GetOrCreate`), sum the approved
of the week (`Caps`), save the submission in its three statements (`FindById`,
`SelectSubmission`, `UpdateSubmission`), add the points in theirs (`Awarded`). Every
step may be the last one (`Break`). `Crowd` is the number of requests served at
once. Swaps (`SwapAward`) add to the ledger beside. Weeks are `WEEK` days; a
submission counts in the week it was created and its points in the week it was
reviewed, as in the code. `POST points/award`, which gives community points without a
submission, belongs to `PointsService`, and so does the counter of the week, to which
both add and which only the award checks.

`ReviewDesk` is the promise without requests, tables, limits or days: a submission
gets one final verdict, an approval owes its award, and what is owed is paid once and
whole or forfeited. In the mapping a verdict is the submission's status, an award is
owed between the UPDATE of `contribution_submissions` and that of `user_points`, and
what is paid is the community points of the wallet's row. Submitting is `Hand`,
`UpdateSubmission` is `Accept` or `Refuse`, the UPDATE of the award is `Pay`, a failure
before it is `Forfeit`, and every other step changes nothing the desk shows.

### Fee program

One action is one instruction; a failed check is a guard, except in `settle` and
`emergency_withdraw`, whose `answer` is kept, because what they answer is the
question (section 5, item 12). The vault of a mint is its `accumulated` counter, its stored
bump and the tokens in its account (`ata`). The conversion loop of `settle` is
`converted`, which is what it computes: nothing. `split_usdc`, `bps_of` and
`calculate_fee` are those of `utils/math.rs` without the width of u64, whose checked
operations fail before anything is written.

### Fee configuration

`rows` holds both tables, `cache[r]` what replica r keeps under its two keys, and a
request is where its async function waits. `updateConfiguration` reads the row,
merges, selects again, and updates the columns that differ, each a step of its own
(`Find`, `Select`, `Update`); the tiers are recalculated one `save` after the other
(`Tiers`). Readers come for ever: `Get` is a miss (a hit changes nothing), `Fetch` the
SELECT, `FetchFails` one that throws, and `Store` fills the cache with what was read
awaits before. `Check` is the CHECK constraint of the migration. A `Restart` cuts off what
the replica was serving and begins its `validateAndSyncTiers`. Portions are numbers of
which `WHOLE` make 100%.

### The swap page

`QuoteForm`: one action is one callback of React or of a promise. `EffectRuns` stands
for the re-run of the quote effect, whose cleanup stops both timers; the callback and
the render it causes are one step, which is how React runs them. A quote under way is
an element of `waiting`; any of them may answer next. `isProgrammaticUpdate` is the
flag the code keeps. `terms` stands for the two tokens, the slippage and the token
list. That a token has no mint, in which case the code returns without a quote, does
not happen with tokens chosen from the list.

`SwapExecution`: `attempt[a]` is where `handleSwap` and `executeSwap` of press a
wait. `Send` covers what can become of a send: a signature (`Sent`), an answer lost
after the broadcast, a blockhash error before it, a preflight error, a refusal of the
user. `chain` moves by itself (`Settle`). `ModalCovers` decides whether the button can
be reached. In mode `legacy_two_tx` the fee goes first; in `single_tx` and on a phone
its transfers are instructions of the swap.

`MobileSwap` replaces the end of a press by the deep link: `Unload` forgets
every promise, `store` is what survives, `Mount` runs the effect that reports a
stored result, `Submit` is the callback handler sending what came back signed, and
`Dispatch` the event it raises; storing may fail and the event still come. `logs` is the
sequence of the reports made, so that the same report twice is two elements. The
signature of a press is its number, `Stake` that of the staking page, which signs
through the same adapter.

## 3. The runs

Every property of a passing run has a mutant in `PROJECT.json`: a plausible bug
in the code under which TLC finds the property violated. Type invariants that are
proved (section 4) are not run again.

| Run | Instance | States | Question |
|---|---|---|---|
| `stake_vaults` | 2 wallets with 4 units, amounts 1-3 (minimum 2), 5 clock readings | 882,645 | stakes stay exact, backed, and withdrawable |
| `reward_epochs` | 1 epoch, 2 wallets, 2 mints, 2 roots, 4 clock readings, 3 periods | 558,824 | one epoch against everything an admin can do |
| `kns_replicas` | 2 replicas, 2 wallets, 2 days, chunks of 1 | 176,226 | nobody is credited twice or without a record |
| `kns_reliable` | 1 replica, 3 wallets, 2 days, chunks of 2 | 39,315 | without failures each recorded award is paid |
| `points_concurrent` | 2 requests, 2 swaps, 1 day, every interleaving and failure | 1,259,480 | nothing is granted twice or flagged without points |
| `points_serial` | 3 requests one at a time, 3 swaps, 3 days, 2-day weeks | 178,883 | the ledger is exact, the day within its cap and within two, awards within the week's |
| `contributions` | 4 requests one at a time, 2 links, 1 category, 3 one-day weeks, failures | 67,862 | caps, limits, points only for approvals, one verdict each |
| `contributions_race` | 3 requests, 2 at once, 2 weeks | violation | section 5 |
| `fee_settlement` | 2 keys, 1 mint, 3 tokens, 3 allocations, 2 clock readings | 65,600 | vaults are backed, the split is exact |
| `fee_config` | 2 replicas, 2 tiers, 2 administrators' calls or restarts, readers without end, failures | 699,149 | portions make 100%, caches settle |
| `quote_form` | 2 amounts, 2 selections, 4 changes | 152,916 | answers do not ask again; a settled form shows a quote |
| `swap_page` | 2 presses, 2 retries, all three modes, with the staking page | 365,217 | one swap, fee first, reported once, and every press ends |

**Why the bounds are enough to be interesting.**

- *stake_vaults*: 30, 89, 90 and 365 are the ends of three lock tiers and a
  reading just before one. With 4 units a wallet can stake, gift the
  remainder to a vault, be paid back and stake again. `MAX_I64 = 500` lets the
  longest lock overflow late in the history and not early. The period
  argument takes a legal and a negative value.
- *reward_epochs*: the exact root uses up the budget of 4, so one unit too many
  would leave somebody unpaid. The other promises more than the reward and
  names one wallet twice. Leaves of an epoch that does not exist here and below
  the minimum claim are included. A deposit of 1 makes a vault differ from its
  accounting. Times lie before, one before, at and after a deadline, and
  `MAX_I64 = 26` makes the sum of now and the longest period overflow. Two epochs
  share nothing but the configuration; that they do not touch each other is part of
  the theorems, which hold for any set of epochs.
- *kns_replicas*: two replicas give every race of the job; a third would need
  a property about three. A chunk of one is the smallest split, so any run
  with two awards has a later statement that can fail. Two days let a run cross
  midnight while another starts on the new day.
- *kns_reliable*: three wallets and chunks of two give a full and a partial
  chunk.
- *points_concurrent*: two requests race at every statement, with the resets and
  the distribution as third and fourth parties. Both may log the same swap. The
  swaps are worth 1 and 7 points against a cap of 5, so an award is whole, cut,
  or none; the community award of 3 fits once under a cap of 5. One day is
  enough: midnight changes no row.
- *points_serial*: `SerialSpec` lets requests and statements begin only when no
  request is in progress, and none fails. It is the reference for what
  the code does when nothing interferes, and shows that the findings of section 5
  about races are about races. Three requests over three days pass two resets of
  the day and one of the week; a third swap failed on chain. An award of 3 and an
  approval of 4 exceed the weekly cap of 5 together in either order; the code refuses
  one of the two orders.
- *contributions*: a weekly cap of 4 lets one award of 2 or 3 fit, and two of 2; an
  award of 1 is out of range. With 5 points of swaps per request, the share cap
  (40% here, enforced from 5 points, so that small numbers reach it) accepts some
  awards and refuses others. One-day weeks put the end of a week between any two
  steps of an approval. A link may be pending from the week before. The run serves
  one request at a time: with two the code fails (`contributions_race`, and
  the next item of section 5).
- *fee_settlement*: swaps whose fee rounds to 0 and to 2; three allocations, one that
  loses units on every share and one that does not add up; a clock one second
  before and at the minimum interval; the split is checked on 0 to 7 units.
- *fee_config*: two ways to move shares between portions that are whole each and not
  together; a base fee, which starts the recalculation; two tiers make it two
  saves. Two requests at once are two administrators, an administrator and a reader, two
  readers, or one of these and a restart, on the same or on two replicas; after the two
  calls of administrators both go on as readers. `Reads` lets them ask one replica
  for the configuration and the other for the tiers. In the code they ask each for
  both; but a step of a reader touches one cache only and looks at no other, and both
  properties speak of one cache at a time, so that whatever goes wrong with some cache
  goes wrong when only that one is read.
- *quote_form*: four changes are a first quote, two more under way, and one that
  meets the flag. Two amounts let an answer be the same as the one shown, where
  the effect does not run and the flag stays set.
- *swap_page*: the second press is a second swap or Try Again; two retries are
  one more than it takes to see one follow another.

Symmetry is used on wallets, replicas and requests, never in a run with a liveness
property. `CHECK_DEADLOCK FALSE` appears on every run but the two of the distribution:
the clock, the requests, the presses or the changes are bounded there, and a state in
which they are used up has nothing left to do.

**Fairness.** The staking and the fee program assume none: whether anybody sends a
transaction is up to them. What is *possible* there (`ExpiredStakeWithdrawable`,
`EveryLeafClaimable`) is stated by predicates over the guards instead.

- `ReliableSpec` has weak fairness of `InsertChunk` and `CreditChunk` only: a
  PostgreSQL statement in progress answers, and the event loop runs its
  continuation. `SuccessEventuallyPaid` speaks of runs that have written a record,
  so it needs no more. The RPC requests before have no timeout
  (`kns-scheduler.service.ts:156` awaits them), so nothing is assumed of them, and
  no claim is made that a day's job ends.
- `ConfigSpec` has weak fairness of `Go(c)`, a request's next await ending, and of
  `Expire`, cache-manager's time to live. Nothing makes a reader come or stay away.
  `CachesSettle` has as a premise, `SelectsSucceed`, that from some point on no SELECT
  fails: a failing one stores the defaults at any time, and the code promises nothing
  against it. It speaks of the caches and of what readers are about to put there and to
  be answered with, and says nothing of how long it takes. A copy that were stored again
  whenever it is served would be passed from reader to cache for ever (its mutant).
- `PageSpec` has weak fairness of `Proceed(a)` on a desktop: a promise settles
  (the wallet answers or refuses; `confirmTransaction` ends with the block height).
  The chain is not assumed to confirm anything, the user not to close or retry.
  On a phone nothing is assumed: a user may never come back.

## 4. What is proved

TLAPS proves the following for every value of the constants that satisfies
their named assumptions, which TLC also evaluates (an assumption's name is
local to its module): `ConfigAssumption` (a day is
positive, two weeks fit an i64), `StakeAssumption` and `EpochAssumption` (finite
sets of wallets and epochs, positive minimums, leaves of the right shape),
`LastDayAssumption` and `ChunkAssumption` (positive), `LedgerAssumption` and
`ServiceAssumption` (amounts are natural numbers, there is a swap),
`ContributionAssumption` (awards are positive, limits natural numbers, the share cap a
percentage), `FeeAssumption` (arguments are numbers of their kind, a bump is at least
1), `SwapAssumption` and `FormAssumption` (bounds are natural numbers), and the
`ConfigAssumption` of `FeeConfig`: the first row and the default are whole, what an
administrator sends names columns of the table, a base fee is positive
(`config.service.ts:286` refuses any other) and a discount at most 100 (the tiers'
endpoint accepts at most 20). `FinitelyMany` says that requests and swaps are finitely
many, because sums are taken over them; the bounds themselves do not matter.

Two kinds of theorem have a hypothesis beside the assumptions, and say so by
their name. Those of `PointsProofs` ending in `Alone` are of `SerialSpec`, and those of
`ContributionProofs` of `Crowd = 1`: one request at a time. With two at once
the code does not have these properties (section 5). Failures stay allowed in
`ContributionSpec`, at any statement; `SerialSpec` has none.

**Stakes** (`StakingProofs`): `StakeTypes`, `TotalExact`, `VaultsBackStakes`,
`KnsNeverLost`, `ExpiredWithdrawable`, `LocksHonoured`. The inductive invariant
`StakeInv` joins the checked invariants to `StakeTerms`: a live stake belongs to
an initialized program and its `lock_end_ts` is its start plus its tier's lock.
`ExpiredStakeWithdrawable` needs it together with the exact total: the checked
subtraction in `unstake` succeeds because one summand is no larger than the sum,
and the deadline has passed because of `StakeTerms`.

**Epochs** (`StakingProofs`): `EpochTypes`, `UsdcNeverLost`,
`ActiveEpochsSolvent`, `OnlyLeavesClaimed`, `LeavesClaimable`, `TermsNeverChange`,
`OutflowOnlyAsPromised`, `EpochsImplementPots`. `EpochInv` adds
`EpochAnnounced`: an epoch that exists was created by an initialized program with
a positive reward. The interesting argument is `LeavesClaimable`. What has
been claimed plus what the vault holds is at least the reward (solvency). Each
claim was of a leaf (`ClaimsCommitted`), hence at most its wallet's share; the
wallet that has not claimed contributes its share too; and the shares together
are within the reward. So the vault covers the leaf.

**Distribution** (`KnsDistributionProofs`): `KnsTypes`, `CreditedOnce`,
`CreditsAreRecorded`, `CreditsReachRows`, `DistributionImplementsAwards`,
`AloneSettledPaid`, `AloneOneRow`. That no award is paid twice is not inductive: it has to be known *who* may still pay.
`Owned` says that a record on the way from `toInsert` to `toCredit` was written
by the run that carries it, `Exclusive` that two runs of one day never carry
the same recorded award, `Buffers` how the locals relate to one another in each
phase, `Prepared` that rows exist before records are written. The unique
index does the work: the INSERT is where a run becomes the owner of an award. For one
replica without failures (`Alone`, `ReliableSpec`) there are also `AloneSettledPaid` and
`AloneOneRow`: `StillFree` says that what a run has read still holds when it writes,
`PaidOrHeld` that a recorded award is paid or in the hands of the run. Section 5 shows
that both theorems fail with two.

**Points** (`PointsProofs`, with `LedgerProofs`): `PointsTypes`, `NeverMore`,
`FlagsSettled`; one request at a time also `ExactAlone`, `CapsKeptAlone` (the daily cap)
and `AwardsWithinWeeklyCap`. There is no theorem that the counter of the week stays within
its cap, since it does not: approvals add to it unchecked (section 5, item 13).

- A save writes columns it read an unbounded time ago, so that rows never exceed what
  is due is not inductive: `SavesWithinDue` adds that an entity in memory is within
  what will be due when it is written, which holds because lifetime columns of `due`
  only grow.
- That flagged swaps were paid and counted is not inductive either, because the flag
  is set two saves after the points. `SettledInv` counts the requests on
  their way to it: the points of flagged swaps and of requests between their first
  save and their flag are together within what is due, and likewise the swaps and the
  requests past their second save. A sum over all requests is what makes it hold for
  any number of them, failing anywhere.
- Without a second request, `Undisturbed` says that what the repository has in memory
  is the row and the grant, and that the columns it will write are those in which
  they differ; `Current` that the record a cap was checked on is still the
  row, so that the award still fits under the cap of the day or the week; `Faithful` how a counter that was reset at 23:59
  relates to what the day gave, which is where the second cap of `CapsKept`
  comes from.

**Contributions** (`ContributionProofs`, with `LedgerProofs`): for any number of
requests `ContributionTypes` and `ReviewsNeverMore`; one at a time `BackedAlone`,
`WeeklyCapAlone`, `SubmittedOnceAlone`, `ShareKeptAlone` and
`ContributionsImplementDesk`.

- `AloneInv` is the ground of the others: a submission that is being decided is still
  pending, the entity to be saved is the submission with its verdict, and the columns
  to be written are those in which they differ.
- `BudgetInv` keeps, for each approval under way, that its award and what is
  approved of its week stay within the cap, and that the points due are those of
  approved submissions, the award owed at the moment included. An approval belongs to the
  week in which `updateStatus` stamps it. The sum was taken earlier, perhaps before a
  midnight that began a new week; then nothing approved lies in the new week, and the
  award fits by itself because it fitted under a sum that is not negative.
- `ShareInv` carries the share cap from its check to the award: no other request
  moves the row in between. `SubmitInv` carries the duplicate and the limit check to
  the INSERT, where a midnight can only make the count of the week smaller.
- The refinement needs, step by step, that an entry is `Waiting` when it is decided
  (`Decision`), that a pending submission has no points (`Dated`), and that the
  write of an award changes the community points by exactly its amount (`Undisturbed`),
  while that of a swap leaves them.

**Fee program** (`FeeProofs`): `FeeTypes`, `FeeBacked`, `FeeSplit`,
`FeesStay`. `FeeInv` adds `AllocationsWhole`, an initialized program's allocations
make 10000 basis points, from which `SplitIsExact` follows by the properties of
rounding down (`DivBps`, `Distributes`, `Split`), and
`NoBumpStored`: the bump of a vault is never written, which is why
`emergency_withdraw` cannot derive its signer. `FeesStay` is no virtue of the program: it
proves, for all values, the defect of section 5, item 12.

**Fee configuration** (`FeeProofs`): `PortionsStayWhole`, `ConfigTypes`. The sum is
validated on a row that is read before the one the portions are merged into, and
written over a third; that the table stays whole is the work of the CHECK alone. For
the caches it has to be known what a request carries: `ConfigInv` says that a fetch
holds, until it stores it, a row that was whole when read or the default. For the
types, `PlansInv` follows what a request has still to save: every
task fits the table it is for, an entity fits the row it will be written over, and a
request that saves has a task. The recalculation of the tiers is the long part: the fees it
writes are natural numbers because no tier's discount exceeds 100, and the tiers are
taken in an order that leaves none out (`Largest`, `TiersInOrder`).

**Swap page** (`SwapProofs`): `PageTypes`, `PageOneOfEach`, `PageFeeFirst`,
`PageContextLoggedOnce`, `PageLoggedWasSent`. `MobileInv` ties where a press waits to
what has been sent: `SwapInv` says, step by step, which transactions are not out
yet, and that one known not to have been broadcast is all a retry repeats. On a
phone, `WaitingOK` says that a context kept in localStorage, a link in the wallet and
a result belong to presses that were left, `ContextOK` that no context in storage was
reported before (the reports are a sequence, in which a second one of the same result
would be a second element), and `ResultsSent` that a result or event of a press stands for a
transaction that was handed over.

**Swap form** (`SwapProofs`): `FormNoCascade`, `FormSettledQuoted`. That answers ask for
nothing themselves needs `CascadeInv`: a running timer that the flag does not stop
stands for a change whose quote has not been asked for yet, so that the count of
changes is ahead of that of requests. That a settled form shows a quote needs, while
nothing was overtaken (`overtaken`, a change made before the last one was dealt
with), `QuotedInv`: at most one request waits and it is for what is selected now, and two full
fields are quoted, wait for the answer, or wait for the timer. Item 11 of section 5 is
what happens without that premise.

**Sums** (`SumTheorems`): the community modules define a sum by a fold over
`CHOOSE`n elements; the module derives what the conservation laws need (a changed
summand changes the sum by as much; sums are monotone and non-negative).

Only model-checked, not proved: the liveness properties `SuccessEventuallyPaid`,
`EveryPressEnds` and `CachesSettle`, which are outside the prover's reach. Every other
property of a passing run is stated by a theorem.

## 5. Where the code and its documentation disagree

`contributions_race` is kept as a run. The others were found with the same modules;
the properties named are defined there and can be added to the `.cfg` named to see
the trace.

1. *Caps passed together* (`contributions_race`). An approval sums the week's points,
   compares, and saves the approval in a later statement; two at once both pass.
   `contribution-submission.entity.ts:48` says "Weekly cap: 2,000 community points per
   wallet per week".
2. *One submission reviewed twice* (`contributions_race` with a cap of 8 and
   `CommunityBacked`). The status is checked when the submission is read and not when
   it is saved: of two reviews at once both pass.
   The points are added though the submission ends up rejected, or added twice.
   `contributions.controller.ts:451` says "Submission has already been reviewed",
   `contribution-submission.entity.ts:37` "Upon approval, community points are awarded
   to the user".
3. *Records without points, by conflict* (`kns_replicas` with `SettledSuccessPaid`).
   The records are inserted in several statements and the points are added after the
   last one. When a second replica has stored a record of a later chunk, the unique
   index fails the run; records of earlier chunks remain, with the status that
   `kns-award-history.entity.ts:84` explains as "Points awarded successfully". Those
   wallets count as processed and are never paid. A process that stops between the
   INSERT and the UPDATE leaves the same behind.
4. *Two rows of one wallet* (`kns_replicas` with `OneRowPerWallet`).
   `ensureWalletsExist` reads and then inserts, and `user_points` has no unique index;
   `user.entity.ts:48` says "Each user has exactly one points record".
5. *Lost grants* (`points_concurrent` with `NothingLost`). Read, change, save without a
   lock: of two awards at once one is lost. `user-points.entity.ts:166` calls the
   `version` column "Version for optimistic locking / Prevents race conditions on
   concurrent point awards"; nothing compares it. The same claim of
   `fee-configuration.entity.ts:113` fails at `fee-configuration.repository.ts:77`.
6. *A swap paid twice* (`points_concurrent` with `SwapsPaidOnce`). Logging a signature
   again resets its record and awards it anew; `swap-transaction.entity.ts:167` says
   "Points awarded for this swap / Formula: 1 point = $1 USD".
7. *Weekly reset every second week* (`points_serial`, four days, with
   `WeeklyResetResets`). `lastWeekReset` must be more than seven days old and is exactly
   seven on the next Monday; `points.service.ts:635` says "Runs every Monday at 00:00
   UTC".
8. *Another transaction's signature* (`swap_page` with
   `OwnSignature`). A stored result does not say which transaction it is of, and the
   staking page signs through the same adapter: a staking transaction is reported with
   the context of the swap prepared before it, which is then missing for the swap itself.
   `swap.tsx:1638` says "When user returns from Phantom, log the swap to
   /api/swap/complete", line 1639 "so points are awarded (same as desktop flow)".
9. *A fee for a swap that failed* (`swap_page` with `NoFeeOnFailedTx`). With two
   transactions the fee lands first; when the swap then fails or is declined, the
   report gives the fee as 0 with the comment "No fee charged on failed tx"
   (`swap.tsx:2633`), and Try Again charges it once more.
10. *Two swaps at once* (`swap_page` with three presses and `OneSwapAtATime`). A failed
   press still waits for prices when Try Again starts the next one; its `finally`
   frees the button under it.
11. *A change mistaken for an answer* (`quote_form` with `AlwaysQuoted`). The user types
    again while a quote is under way; the answer to the old request sets the flag, fills
    in the other field and so restarts the timer of the newer change, which is then
    skipped. The form rests on an input of one and an output of another quote. It happens
    to a patient user as well: a refresh whose answer is what is shown changes no
    state, so the flag stays set, and the next change of slippage or token gets no quote.
    `swap.tsx:2133` says "Skip if this is a programmatic update (result of previous
    quote fetch)". A press asks for a quote of its own, so what is signed is not affected.
12. *Fees cannot leave a vault* (`fee_settlement` with `SettlementDistributes` or
    `WithdrawalWorks`; each is violated after three calls). The conversion loop of
    `settle` converts nothing, so the balance after it equals the one before and the call
    ends with `NothingToDistribute` (or `SlippageExceeded`); the header of
    `fee/instructions/settle.rs` says at line 14 "After all conversions, splits total
    USDC and transfers to 4 destinations", the program's README at line 75 "Weekly
    settlement". `emergency_withdraw`, the "Emergency fund rescue" of line 83, can never
    succeed: its accounts are derived with a bump that is never stored. What both come
    to is `FeesNeverLeave`, which `FeesStay` proves.
13. *Weekly cap passed by an approval* (`points_serial` with `WeeklyCounterWithinCap`).
    An approval adds to `communityPointsThisWeek` (`contributions.controller.ts:504`)
    after comparing the cap with the week's approved submissions only (line 466). One
    request at a time and without a failure: `points/award` gives 2,000, an approval
    then 500 (for a wallet with points enough for the 30% check), and the counter is
    2,500. `points.service.ts:416` says "Weekly community points cap is ...", of community
    points from wherever, `contribution-submission.entity.ts:48` "Weekly cap: 2,000
    community points per wallet per week". In the other order the award is refused,
    which `AwardKeepsWeeklyCap` says.

Smaller ones:

- A save between whose SELECT and UPDATE the distribution's UPDATE falls
  overwrites `totalPoints` and leaves `knsPoints`, against the formula of
  `user-points.entity.ts:78`.
- Two awards can read `swapPointsToday` before either is written and both fit under
  the cap it is "used to enforce" (`user-points.entity.ts:87`).
- The daily reset runs at 23:59, not "at UTC midnight" (`user-points.entity.ts:88`),
  so a wallet at its cap of the day can earn as much again in the last minute.
  `DayWithinTwoCaps` says that this is all it can gain.
- The minimum swap is 0.5 USD (`points.service.ts:48`), "$5" in
  `user-points.entity.ts:40`, `points.service.ts:266` and the backend's README.
- Points are awarded, while `points.service.ts:97` and the backend's README (line
  476) say that awarding is disabled.
- A failed SELECT makes `getFeeConfiguration` serve and cache the defaults, which
  the comment at `config.service.ts:142` says happens only when there is no row.
- `CACHE_TTL = 3600` (`config.service.ts:37`) is milliseconds to cache-manager, not the
  hour of its comment.

## 6. Facts about the code that the models record but no document contradicts

- `initialize` of the staking program belongs to whoever calls it first.
- `initialize_epoch` accepts any mint. With another mint than USDC the epoch can
  never be funded, an unfunded epoch can never be closed, and its id is used up.
- The leaves of a root are not compared with `total_rewards`; `EveryLeafClaimable`
  therefore has `WithinBudget` as its premise.
- A token transfer into a stake vault makes `close_account` fail, and with it
  `unstake`: `ExpiredStakeWithdrawable` has the absence of a surplus as a premise.
- Claims paused past the deadline are swept by `close_epoch` like any other.
- What is sent to the vault of a closed epoch stays there.
- An error record of the distribution is final for its day.
- An approval that fails between its two saves leaves an approved submission whose
  points are never added; the other order, which `CommunityBacked` excludes, does not
  occur.
- The cache is each replica's own memory (`app.module.ts:27`): an update drops that of
  the replica that served it, the others serve the old fee until it expires.
- Two updates of the base fee may leave tiers computed from either, and the check of a
  starting replica may write those of a base fee it read before an update.
- The 30 s refresh of a quote is set just before the answer's own render stops it; it
  survives only when the answer does not change what is shown.
- A callback that returns after the pending operation's five minutes is taken for one
  of another method; the missing signature it stores makes the page's effect throw,
  which leaves a blank page until it is reloaded.

## 7. What is not modelled, and why

- *Average balance* (`kns-balance.service.ts`): arithmetic over one wallet's transfers
  without state; `KnsDistribution` has its result as an input. (Read while modelling:
  each segment after a transfer is weighted with the balance before it, so the newest
  transfer does not move the average.)
- *Helius client, transaction verification, price feeds*: calls of external
  services; the models have their outcomes as inputs.
- *Authentication, leaderboards, admin backend, admin panel*: library calls,
  read-only queries, or a copy of the backend's code, with no protocol of their own.
- *Polling*: balances and prices are shown and not used by a press, which reads its
  own. `hooks/useSwap.ts` is not used by the swap page.
- *Connecting on a phone*: connecting and signing messages use the same adapter and
  touch none of the three keys a swap keeps; encryption of the link is taken as given.
- *Fee converter*: its handlers log and return.
- *Deployment and infrastructure*: scripts and charts. Their replica counts are
  why `KnsDistribution` has several replicas. (`app/migrations/deploy.ts` of the
  staking program evaluates text it fetches from a URL in its environment; that
  deserves a look outside any model.)
- *Rendering*: by lines most of this repository is components, styles and reports of
  three user interfaces, which keep no state a property would speak of. The share of
  all lines that is modelled stays small for that reason.
- *Within the modelled parts*: events, logging, audit tables and error codes; rent and
  account sizes; the amounts of KNS points; decimals and wording of amounts; real
  addresses and PDA derivation; the engine that computes roots.

## 8. What is left

- A refinement of `PointsService` one request at a time, in the manner of `ReviewDesk`:
  `LedgerExact` says what the row holds, not how it got there.
- A theorem that `verify_merkle_proof` over an abstract collision-free hash accepts
  exactly the committed leaves, which would replace the assumption of section 2.
- `buildBalanceTimeline` and `calculateTWAB` as recursive functions, against the average
  that the service's comment defines.
- Quotes under way when the button is pressed: `QuoteForm` composed with
  `SwapExecution`, whose `FillForm` now stands for it.
