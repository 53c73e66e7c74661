--------------------------- MODULE SwapExecution ---------------------------
(* The Swap button of the page (handleSwap, swap.tsx) and what it runs     *)
(* (executeSwap, jupiterSwap.ts): a quote, a build, one or two             *)
(* transactions sent through the wallet and confirmed, and the report of   *)
(* the outcome to the backend.  A press is an attempt; its state is where  *)
(* its two async functions wait.  The page's state is shared by all of     *)
(* them.  What the chain does with a transaction is the environment's.     *)
EXTENDS Naturals

CONSTANTS
    MaxAttempts,            \* bound: presses of the button
    MAX_BLOCKHASH_RETRIES,
    Mode                    \* configurations explored, of those below

Modes == {"single_tx", "legacy_two_tx", "mobile"}

ASSUME SwapAssumption ==
    /\ MaxAttempts \in Nat \ {0}
    /\ MAX_BLOCKHASH_RETRIES \in Nat
    /\ Mode \subseteq Modes

Attempt == 1 .. MaxAttempts
Kind == {"fee", "swap"}

VARIABLES
    mode,     \* txMode: one transaction or two, or the deep link of a phone
    attempt,  \* for each press where it is, the sends already retried, whether
              \* its quote was refreshed, whether there are fees to transfer
    page,     \* isLoading, swapStatus, whether the modal is mounted, and
              \* whether the form holds an amount with a quote
    sent,     \* how often a transaction of each kind was broadcast
    chain,    \* what became of it
    reports   \* the payloads given to logSwapFireAndForget

swapVars == <<mode, attempt, page, sent, chain, reports>>

Step == {"new", "quote", "build", "send fee", "confirm fee", "send swap",
         "requote", "confirm swap", "succeeded", "failed", "over"}
SwapStatus == {"IDLE", "GETTING_QUOTE", "BUILDING_TRANSACTION", "CONFIRMING", "CONFIRMED", "FAILED"}
TxState == {"none", "pending", "landed", "failed", "expired"}
Outcome == {"confirmed", "failed"}

AttemptRecord == [step : Step, tries : 0 .. MAX_BLOCKHASH_RETRIES,
                  requoted : BOOLEAN, fee : BOOLEAN]
Page == [loading : BOOLEAN, status : SwapStatus, modal : BOOLEAN, quoted : BOOLEAN]
FreshPage == [loading |-> FALSE, status |-> "IDLE", modal |-> FALSE, quoted |-> FALSE]

SwapInit ==
    /\ mode \in Mode
    /\ attempt = [a \in Attempt |->
          [step |-> "new", tries |-> 0, requoted |-> FALSE, fee |-> FALSE]]
    /\ page = FreshPage
    /\ sent = [a \in Attempt |-> [k \in Kind |-> 0]]
    /\ chain = [a \in Attempt |-> [k \in Kind |-> "none"]]
    /\ reports = {}

At(a, step) == attempt[a].step = step
GoTo(a, step) == attempt' = [attempt EXCEPT ![a].step = step]
Show(status) == page' = [page EXCEPT !.status = status]
OnChain == <<sent, chain>>

(* TransactionModal renders nothing for IDLE and GETTING_QUOTE. *)
ModalCovers == page.modal /\ page.status \notin {"IDLE", "GETTING_QUOTE"}

(* Two transactions only when there is a fee to transfer; otherwise the    *)
(* transfers are instructions of the swap's own transaction.               *)
FeeTxDue(a) == mode = "legacy_two_tx" /\ attempt[a].fee

-----------------------------------------------------------------------------
(* The quote effect fills the form for an amount the user typed. *)
FillForm ==
    /\ ~ModalCovers /\ ~page.quoted
    /\ page' = [page EXCEPT !.quoted = TRUE]
    /\ UNCHANGED <<mode, attempt, OnChain, reports>>

(* "Swap", disabled while isLoading, or "Try Again" of a failed modal.     *)
(* executeSwap runs up to its first await in the same tick.                *)
HandleSwap(a) ==
    /\ At(a, "new") /\ \A b \in Attempt : b < a => ~At(b, "new")
    /\ page.quoted
    /\ \/ ~ModalCovers /\ ~page.loading
       \/ ModalCovers /\ page.status = "FAILED"
    /\ \E fee \in BOOLEAN :
          attempt' = [attempt EXCEPT ![a].step = "quote", ![a].fee = fee]
    /\ page' = [page EXCEPT !.loading = TRUE, !.status = "GETTING_QUOTE", !.modal = TRUE]
    /\ UNCHANGED <<mode, OnChain, reports>>

CloseModal ==
    /\ ModalCovers /\ page.status \in {"CONFIRMED", "FAILED"}
    /\ page' = [page EXCEPT !.modal = FALSE, !.status = "IDLE"]
    /\ UNCHANGED <<mode, attempt, OnChain, reports>>

(* Any error of executeSwap shows FAILED, and handleSwap then awaits the   *)
(* prices for its report.                                                  *)
Fail(a) == GoTo(a, "failed") /\ Show("FAILED")

GetQuote(a) ==
    /\ At(a, "quote")
    /\ \/ GoTo(a, "build") /\ Show("BUILDING_TRANSACTION")
       \/ Fail(a)
    /\ UNCHANGED <<mode, OnChain, reports>>

(* Building and simulating; the simulation only warns. *)
Build(a) ==
    /\ At(a, "build")
    /\ \/ GoTo(a, IF FeeTxDue(a) THEN "send fee" ELSE "send swap") /\ Show("CONFIRMING")
       \/ Fail(a)
    /\ UNCHANGED <<mode, OnChain, reports>>

(* sendTransactionWithRetry, one call of the wallet a step.                *)
Broadcast(a, k) ==
    /\ sent' = [sent EXCEPT ![a][k] = @ + 1]
    /\ chain' = [chain EXCEPT ![a][k] = "pending"]

SendStep == [fee |-> "send fee", swap |-> "send swap"]
ConfirmStep == [fee |-> "confirm fee", swap |-> "confirm swap"]

Sent(a, k) ==
    /\ Broadcast(a, k)
    /\ GoTo(a, ConfirmStep[k])
    /\ UNCHANGED page

(* Mutant: a lost answer is retried like an expired blockhash. *)
AnswerLostRetried(a, k) ==
    /\ Broadcast(a, k)
    /\ IF attempt[a].tries < MAX_BLOCKHASH_RETRIES
         THEN attempt' = [attempt EXCEPT ![a].tries = @ + 1] /\ UNCHANGED page
         ELSE Fail(a)

(* The transaction went out but the wallet's or the node's answer did not  *)
(* come back: an error of no known kind is rethrown.                       *)
AnswerLost(a, k) == Broadcast(a, k) /\ Fail(a)

(* Mutant: the retries are counted anew each time.  *)
BlockhashExpiredForever(a, k) ==
    /\ attempt' = [attempt EXCEPT ![a].tries = IF @ < MAX_BLOCKHASH_RETRIES THEN @ + 1 ELSE 0]
    /\ UNCHANGED <<page, OnChain>>

(* Rejected before it went out; the blockhash is refreshed for a retry. *)
BlockhashExpired(a, k) ==
    /\ attempt[a].tries < MAX_BLOCKHASH_RETRIES
    /\ attempt' = [attempt EXCEPT ![a].tries = @ + 1]
    /\ UNCHANGED <<page, OnChain>>

(* A failed preflight: the swap, not the fee, gets one fresh quote.  The   *)
(* last blockhash error reads as one when it says "simulation failed".     *)
PreflightFailed(a, k) ==
    /\ IF k = "swap" /\ ~attempt[a].requoted
         THEN GoTo(a, "requote") /\ UNCHANGED page
         ELSE Fail(a)
    /\ UNCHANGED OnChain

(* The user declines, or the transaction cannot be rebuilt. *)
NotSigned(a, k) == Fail(a) /\ UNCHANGED OnChain

Send(a, k) ==
    /\ At(a, SendStep[k]) /\ mode # "mobile"
    /\ \/ Sent(a, k) \/ AnswerLost(a, k) \/ BlockhashExpired(a, k)
       \/ PreflightFailed(a, k) \/ NotSigned(a, k)
    /\ UNCHANGED <<mode, reports>>

Requote(a) ==
    /\ At(a, "requote")
    /\ \/ /\ attempt' = [attempt EXCEPT ![a].step = "send swap", ![a].tries = 0,
                                        ![a].requoted = TRUE]
          /\ UNCHANGED page
       \/ Fail(a)
    /\ UNCHANGED <<mode, OnChain, reports>>

(* What a confirmed transaction of each kind is followed by. *)
Confirmed(a, k) ==
    IF k = "fee"
      THEN /\ attempt' = [attempt EXCEPT ![a].step = "send swap", ![a].tries = 0]
           /\ UNCHANGED page
      ELSE GoTo(a, "succeeded") /\ Show("CONFIRMED")

(* Mutant: value.err is not looked at. *)
ConfirmIgnoringError(a, k) ==
    /\ At(a, ConfirmStep[k])
    /\ \/ chain[a][k] \in {"landed", "failed"} /\ Confirmed(a, k)
       \/ Fail(a)
    /\ UNCHANGED <<mode, OnChain, reports>>

(* confirmTransaction: the transaction landed; or it has an error, or the  *)
(* call itself fails or times out, whatever became of the transaction.     *)
Confirm(a, k) ==
    /\ At(a, ConfirmStep[k])
    /\ \/ chain[a][k] = "landed" /\ Confirmed(a, k)
       \/ Fail(a)
    /\ UNCHANGED <<mode, OnChain, reports>>

(* The rest of handleSwap: the report is sent and not waited for; success  *)
(* clears the form; finally clears isLoading.                              *)
ReportSuccess(a) ==
    /\ At(a, "succeeded")
    /\ reports' = reports \union {[attempt |-> a, outcome |-> "confirmed", fee |-> attempt[a].fee]}
    /\ page' = [page EXCEPT !.loading = FALSE, !.status = "CONFIRMED", !.quoted = FALSE]
    /\ GoTo(a, "over")
    /\ UNCHANGED <<mode, OnChain>>

ReportFailure(a) ==
    /\ At(a, "failed")
    /\ reports' = reports \union {[attempt |-> a, outcome |-> "failed", fee |-> FALSE]}
    /\ page' = [page EXCEPT !.loading = FALSE]
    /\ GoTo(a, "over")
    /\ UNCHANGED <<mode, OnChain>>

(* The chain includes the transaction, with or without an error, or never. *)
Settle(a, k) ==
    /\ chain[a][k] = "pending"
    /\ \E fate \in {"landed", "failed", "expired"} : chain' = [chain EXCEPT ![a][k] = fate]
    /\ UNCHANGED <<mode, attempt, page, sent, reports>>

-----------------------------------------------------------------------------
Proceed(a) ==
    \/ GetQuote(a) \/ Build(a) \/ Requote(a)
    \/ \E k \in Kind : Send(a, k) \/ Confirm(a, k)
    \/ ReportSuccess(a) \/ ReportFailure(a)

SwapNext ==
    \/ FillForm \/ CloseModal
    \/ \E a \in Attempt : \/ HandleSwap(a) \/ Proceed(a)
                          \/ \E k \in Kind : Settle(a, k)

(* The APIs, the wallet's prompt and the prices are answered or fail. *)
SwapSpec ==
    /\ SwapInit /\ [][SwapNext]_swapVars
    /\ \A a \in Attempt : WF_swapVars(Proceed(a))

-----------------------------------------------------------------------------
(* Properties *)

SwapTypeOK ==
    /\ mode \in Mode
    /\ attempt \in [Attempt -> AttemptRecord]
    /\ page \in Page
    /\ sent \in [Attempt -> [Kind -> Nat]]
    /\ chain \in [Attempt -> [Kind -> TxState]]
    /\ reports \subseteq [attempt : Attempt, outcome : Outcome, fee : BOOLEAN]

(* However often a press retries, refreshes its quote or loses an answer,  *)
(* it never broadcasts two swaps or two fee transfers.                     *)
OneOfEach == \A a \in Attempt, k \in Kind : sent[a][k] <= 1

(* Whether the transfers of the fee of a press are on the chain. *)
FeePaid(a) ==
    \/ chain[a]["fee"] = "landed"
    \/ mode # "legacy_two_tx" /\ attempt[a].fee /\ chain[a]["swap"] = "landed"

(* "Default to TWO-TRANSACTION mode for safety (fee tx first, then swap    *)
(* tx)" (jupiterSwap.ts:79): no swap goes out before its fee has landed.   *)
FeeFirst ==
    \A a \in Attempt : FeeTxDue(a) /\ sent[a]["swap"] > 0 => chain[a]["fee"] = "landed"

(* Every press on a desktop comes to its report, and the button is freed.  *)
Reported(a) == \E r \in reports : r.attempt = a
EveryPressEnds ==
    mode # "mobile" => \A a \in Attempt : ~At(a, "new") ~> Reported(a) /\ ~page.loading

(* "No fee charged on failed tx" (swap.tsx:2633): a swap reported as       *)
(* failed paid no fee.                                                     *)
NoFeeOnFailedTx ==
    \A r \in reports : r.outcome = "failed" => ~FeePaid(r.attempt)

(* The button is disabled while isLoading: one swap runs at a time.        *)
Running(a) == attempt[a].step \notin {"new", "failed", "succeeded", "over"}
OneSwapAtATime == \A a, b \in Attempt : Running(a) /\ Running(b) => a = b
=============================================================================
