----------------------------- MODULE SwapProofs -----------------------------
(* Proofs about SwapExecution and MobileSwap, for any number of presses    *)
(* and of retries: of each kind at most one transaction is broadcast, the  *)
(* fee lands before the swap goes out, and on a phone a prepared swap is   *)
(* reported once, under a signature that was handed to the chain.  And     *)
(* about QuoteForm, for any amounts, terms and number of changes: no more  *)
(* quotes are asked for than changes made, and what a form shows that was  *)
(* left to settle is a quote.                                              *)
EXTENDS MobileSwap, QuoteForm, TLAPS

(* Where a press stands says what it cannot have broadcast yet. *)
BeforeFee == {"new", "quote", "build", "send fee"}
Sending == {"send swap", "requote"}
BeforeSwap == BeforeFee \union Sending \union {"confirm fee"}

AttemptOK(a) ==
    /\ attempt[a].step \in BeforeFee => sent[a]["fee"] = 0
    /\ attempt[a].step \in BeforeSwap => sent[a]["swap"] = 0
    /\ sent[a]["fee"] <= 1 /\ sent[a]["swap"] <= 1
    /\ FeeTxDue(a) =>
          /\ attempt[a].step \in Sending => chain[a]["fee"] = "landed"
          /\ sent[a]["swap"] > 0 => chain[a]["fee"] = "landed"

SwapInv == SwapTypeOK /\ \A a \in Attempt : AttemptOK(a)

LEMMA SwapInitInv == SwapInit => SwapInv
<1> SUFFICES ASSUME SwapInit PROVE SwapInv
  OBVIOUS
<1>1. SwapTypeOK
  BY SwapAssumption
     DEF SwapInit, SwapTypeOK, AttemptRecord, Step, Page, FreshPage, SwapStatus, TxState, Outcome
<1>2. ASSUME NEW a \in Attempt PROVE AttemptOK(a)
  <2>1. attempt[a].step = "new" /\ sent[a]["fee"] = 0 /\ sent[a]["swap"] = 0
    BY DEF SwapInit, Kind
  <2> QED BY <2>1 DEF AttemptOK, BeforeFee, BeforeSwap, Sending
<1> QED BY <1>1, <1>2 DEF SwapInv

-----------------------------------------------------------------------------
(* What the helpers of the actions change.                                 *)

Reports == [attempt : Attempt, outcome : Outcome, fee : BOOLEAN]

LEMMA RecordStep ==
    ASSUME SwapTypeOK, NEW a \in Attempt, NEW r \in AttemptRecord,
           attempt' = [attempt EXCEPT ![a] = r]
    PROVE  /\ attempt' \in [Attempt -> AttemptRecord] /\ attempt'[a] = r
           /\ \A b \in Attempt \ {a} : attempt'[b] = attempt[b]
BY DEF SwapTypeOK

LEMMA GoToStep ==
    ASSUME SwapTypeOK, NEW a \in Attempt, NEW s \in Step, GoTo(a, s)
    PROVE  /\ attempt' \in [Attempt -> AttemptRecord]
           /\ attempt'[a].step = s /\ attempt'[a].fee = attempt[a].fee
           /\ \A b \in Attempt \ {a} : attempt'[b] = attempt[b]
<1> DEFINE r == [attempt[a] EXCEPT !.step = s]
<1>1. attempt[a] \in AttemptRecord
  BY DEF SwapTypeOK
<1>2. r \in AttemptRecord /\ r.step = s /\ r.fee = attempt[a].fee
  BY <1>1 DEF AttemptRecord
<1>3. attempt' = [attempt EXCEPT ![a] = r]
  BY DEF GoTo
<1> HIDE DEF r
<1> QED BY <1>2, <1>3, RecordStep

LEMMA ShowStep ==
    ASSUME page \in Page, NEW s \in SwapStatus, Show(s)
    PROVE  page' \in Page
BY DEF Show, Page

(* What is broadcast is counted and pending; nothing else changes. *)
LEMMA BroadcastStep ==
    ASSUME sent \in [Attempt -> [Kind -> Nat]], chain \in [Attempt -> [Kind -> TxState]],
           NEW a \in Attempt, NEW k \in Kind, Broadcast(a, k)
    PROVE  /\ sent' \in [Attempt -> [Kind -> Nat]] /\ chain' \in [Attempt -> [Kind -> TxState]]
           /\ sent'[a][k] = sent[a][k] + 1
           /\ \A j \in Kind \ {k} : sent'[a][j] = sent[a][j] /\ chain'[a][j] = chain[a][j]
           /\ \A b \in Attempt \ {a} : sent'[b] = sent[b] /\ chain'[b] = chain[b]
<1> DEFINE n == [sent[a] EXCEPT ![k] = sent[a][k] + 1]
           c == [chain[a] EXCEPT ![k] = "pending"]
<1>1. n \in [Kind -> Nat] /\ n[k] = sent[a][k] + 1 /\ \A j \in Kind \ {k} : n[j] = sent[a][j]
  OBVIOUS
<1>2. c \in [Kind -> TxState] /\ \A j \in Kind \ {k} : c[j] = chain[a][j]
  BY DEF TxState
<1>3. sent' = [sent EXCEPT ![a] = n] /\ chain' = [chain EXCEPT ![a] = c]
  BY DEF Broadcast
<1> HIDE DEF n, c
<1> QED BY <1>1, <1>2, <1>3

(* A press whose own part of the invariant is kept keeps it all. *)
LEMMA PressMoves ==
    ASSUME SwapInv, NEW a \in Attempt, mode' = mode, page' \in Page, reports' \subseteq Reports,
           attempt' \in [Attempt -> AttemptRecord],
           sent' \in [Attempt -> [Kind -> Nat]], chain' \in [Attempt -> [Kind -> TxState]],
           \A b \in Attempt \ {a} : /\ attempt'[b] = attempt[b]
                                     /\ sent'[b] = sent[b] /\ chain'[b] = chain[b],
           AttemptOK(a)'
    PROVE  SwapInv'
<1>1. SwapTypeOK'
  BY DEF SwapInv, SwapTypeOK, Reports
<1>2. ASSUME NEW b \in Attempt PROVE AttemptOK(b)'
  <2>1. CASE b = a
    BY <2>1
  <2>2. CASE b # a
    BY <2>2 DEF SwapInv, AttemptOK, FeeTxDue
  <2> QED BY <2>1, <2>2
<1> QED BY <1>1, <1>2 DEF SwapInv

(* A press goes from a step to one that allows no less to have been sent. *)
LEMMA ControlMoves ==
    ASSUME SwapInv, NEW a \in Attempt, UNCHANGED <<mode, sent, chain>>,
           page' \in Page, reports' \subseteq Reports,
           attempt' \in [Attempt -> AttemptRecord],
           \A b \in Attempt \ {a} : attempt'[b] = attempt[b],
           attempt'[a].fee = attempt[a].fee \/ attempt[a].step = "new",
           attempt'[a].step \in BeforeFee => attempt[a].step \in BeforeFee,
           attempt'[a].step \in BeforeSwap => attempt[a].step \in BeforeSwap,
           FeeTxDue(a)' /\ attempt'[a].step \in Sending =>
               \/ attempt[a].step \in Sending /\ FeeTxDue(a)
               \/ chain[a]["fee"] = "landed"
    PROVE  SwapInv'
<1>1. AttemptOK(a) /\ (attempt[a].step = "new" => sent[a]["swap"] = 0)
  BY DEF SwapInv, AttemptOK, BeforeSwap, BeforeFee
<1>2. FeeTxDue(a)' /\ sent[a]["swap"] > 0 => FeeTxDue(a)
  <2>1. CASE attempt[a].step = "new"
    BY <1>1, <2>1 DEF SwapInv, SwapTypeOK, Kind
  <2>2. CASE attempt'[a].fee = attempt[a].fee
    BY <2>2, mode' = mode, ZenonT(30) DEF FeeTxDue
  <2> QED BY <2>1, <2>2
<1>3. AttemptOK(a)'
  <2>1. FeeTxDue(a)' /\ sent[a]["swap"] > 0 => chain[a]["fee"] = "landed"
    BY <1>1, <1>2 DEF AttemptOK
  <2>2. FeeTxDue(a)' /\ attempt'[a].step \in Sending => chain[a]["fee"] = "landed"
    BY <1>1 DEF AttemptOK
  <2>3. /\ attempt'[a].step \in BeforeFee => sent[a]["fee"] = 0
        /\ attempt'[a].step \in BeforeSwap => sent[a]["swap"] = 0
        /\ sent[a]["fee"] <= 1 /\ sent[a]["swap"] <= 1
    BY <1>1 DEF AttemptOK
  <2> QED BY <2>1, <2>2, <2>3, sent' = sent, chain' = chain DEF AttemptOK
<1> QED BY <1>3, PressMoves DEF SwapInv, SwapTypeOK

-----------------------------------------------------------------------------
(* The actions.                                                            *)

LEMMA PageStep ==
    ASSUME SwapInv, FillForm \/ CloseModal
    PROVE  SwapInv'
<1>1. UNCHANGED <<mode, attempt, sent, chain, reports>> /\ page' \in Page
  BY DEF FillForm, CloseModal, OnChain, SwapInv, SwapTypeOK, Page, SwapStatus
<1> QED BY <1>1 DEF SwapInv, SwapTypeOK, AttemptOK, FeeTxDue

(* The steps a press can take without sending or confirming anything. *)
LEMMA GoToMoves ==
    ASSUME SwapInv, NEW a \in Attempt, NEW s \in Step, GoTo(a, s),
           UNCHANGED <<mode, sent, chain>>, page' \in Page, reports' \subseteq Reports,
           s \in BeforeFee => attempt[a].step \in BeforeFee,
           s \in BeforeSwap => attempt[a].step \in BeforeSwap,
           FeeTxDue(a) /\ s \in Sending => attempt[a].step \in Sending \/ chain[a]["fee"] = "landed"
    PROVE  SwapInv'
<1>1. /\ attempt' \in [Attempt -> AttemptRecord]
      /\ attempt'[a].step = s /\ attempt'[a].fee = attempt[a].fee
      /\ \A b \in Attempt \ {a} : attempt'[b] = attempt[b]
  BY GoToStep DEF SwapInv
<1>2. FeeTxDue(a)' <=> FeeTxDue(a)
  BY <1>1 DEF FeeTxDue
<1> QED BY <1>1, <1>2, ControlMoves

LEMMA FailMoves ==
    ASSUME SwapInv, NEW a \in Attempt, Fail(a), UNCHANGED <<mode, sent, chain, reports>>
    PROVE  SwapInv'
<1>1. page' \in Page
  BY ShowStep DEF Fail, SwapInv, SwapTypeOK, SwapStatus
<1>2. reports' \subseteq Reports
  BY DEF SwapInv, SwapTypeOK, Reports
<1> QED BY <1>1, <1>2, GoToMoves DEF Fail, Step, BeforeFee, BeforeSwap, Sending

LEMMA HandleSwapStep ==
    ASSUME SwapInv, NEW a \in Attempt, HandleSwap(a)
    PROVE  SwapInv'
<1>1. PICK fee \in BOOLEAN :
          attempt' = [attempt EXCEPT ![a].step = "quote", ![a].fee = fee]
  BY DEF HandleSwap
<1> DEFINE r == [attempt[a] EXCEPT !.step = "quote", !.fee = fee]
<1>2. r \in AttemptRecord /\ r.step = "quote"
  BY DEF SwapInv, SwapTypeOK, AttemptRecord, Step
<1>3. attempt' = [attempt EXCEPT ![a] = r]
  BY <1>1
<1>4. /\ UNCHANGED <<mode, sent, chain, reports>> /\ page' \in Page
      /\ attempt[a].step = "new"
  BY DEF HandleSwap, OnChain, At, SwapInv, SwapTypeOK, Page, SwapStatus
<1>5. reports' \subseteq Reports
  BY <1>4 DEF SwapInv, SwapTypeOK, Reports
<1> HIDE DEF r
<1>6. attempt' \in [Attempt -> AttemptRecord] /\ attempt'[a].step = "quote"
      /\ \A b \in Attempt \ {a} : attempt'[b] = attempt[b]
  BY <1>2, <1>3, RecordStep DEF SwapInv
<1> QED BY <1>4, <1>5, <1>6, ControlMoves DEF BeforeFee, BeforeSwap, Sending

LEMMA GetQuoteStep ==
    ASSUME SwapInv, NEW a \in Attempt, GetQuote(a)
    PROVE  SwapInv'
<1>1. UNCHANGED <<mode, sent, chain, reports>> /\ attempt[a].step = "quote"
  BY DEF GetQuote, OnChain, At
<1>2. CASE GoTo(a, "build") /\ Show("BUILDING_TRANSACTION")
  <2>1. page' \in Page /\ reports' \subseteq Reports
    BY <1>1, <1>2, ShowStep DEF SwapInv, SwapTypeOK, SwapStatus, Reports
  <2> QED BY <1>1, <1>2, <2>1, GoToMoves DEF Step, BeforeFee, BeforeSwap, Sending
<1>3. CASE Fail(a)
  BY <1>1, <1>3, FailMoves
<1> QED BY <1>2, <1>3 DEF GetQuote

LEMMA BuildStep ==
    ASSUME SwapInv, NEW a \in Attempt, Build(a)
    PROVE  SwapInv'
<1>1. UNCHANGED <<mode, sent, chain, reports>> /\ attempt[a].step = "build"
  BY DEF Build, OnChain, At
<1>2. CASE Fail(a)
  BY <1>1, <1>2, FailMoves
<1>3. CASE ~Fail(a)
  <2>1. Show("CONFIRMING") /\ GoTo(a, IF FeeTxDue(a) THEN "send fee" ELSE "send swap")
    BY <1>3 DEF Build
  <2>2. page' \in Page /\ reports' \subseteq Reports
    BY <1>1, <2>1, ShowStep DEF SwapInv, SwapTypeOK, SwapStatus, Reports
  <2>3. CASE FeeTxDue(a)
    <3>1. GoTo(a, "send fee")
      BY <2>1, <2>3
    <3> QED BY <1>1, <2>2, <3>1, GoToMoves DEF Step, BeforeFee, BeforeSwap, Sending
  <2>4. CASE ~FeeTxDue(a)
    <3>1. GoTo(a, "send swap")
      BY <2>1, <2>4
    <3> QED BY <1>1, <2>2, <2>4, <3>1, GoToMoves DEF Step, BeforeFee, BeforeSwap, Sending
  <2> QED BY <2>3, <2>4
<1> QED BY <1>2, <1>3

(* The press goes back to sending the swap. *)
LEMMA SendSwapMoves ==
    ASSUME SwapInv, NEW a \in Attempt, NEW r \in AttemptRecord,
           attempt' = [attempt EXCEPT ![a] = r],
           r.step = "send swap", r.fee = attempt[a].fee,
           UNCHANGED <<mode, page, sent, chain, reports>>,
           \/ attempt[a].step = "requote"
           \/ attempt[a].step = "confirm fee" /\ chain[a]["fee"] = "landed"
    PROVE  SwapInv'
<1>1. /\ attempt' \in [Attempt -> AttemptRecord] /\ attempt'[a] = r
      /\ \A b \in Attempt \ {a} : attempt'[b] = attempt[b]
  BY RecordStep DEF SwapInv
<1>2. page' \in Page /\ reports' \subseteq Reports
  BY DEF SwapInv, SwapTypeOK, Reports
<1>3. attempt'[a].step = "send swap" /\ attempt'[a].fee = attempt[a].fee
  BY <1>1
<1>4. FeeTxDue(a)' <=> FeeTxDue(a)
  BY <1>3, mode' = mode, ZenonT(30) DEF FeeTxDue
<1> QED BY <1>1, <1>2, <1>3, <1>4, ControlMoves DEF BeforeFee, BeforeSwap, Sending

LEMMA RequoteStep ==
    ASSUME SwapInv, NEW a \in Attempt, Requote(a)
    PROVE  SwapInv'
<1>1. UNCHANGED <<mode, sent, chain, reports>> /\ attempt[a].step = "requote"
  BY DEF Requote, OnChain, At
<1>2. CASE Fail(a)
  BY <1>1, <1>2, FailMoves
<1>3. CASE ~Fail(a)
  <2>1. /\ attempt' = [attempt EXCEPT ![a].step = "send swap", ![a].tries = 0, ![a].requoted = TRUE]
        /\ page' = page
    BY <1>3 DEF Requote
  <2> DEFINE r == [attempt[a] EXCEPT !.step = "send swap", !.tries = 0, !.requoted = TRUE]
  <2>2. attempt[a] \in AttemptRecord /\ 0 \in 0 .. MAX_BLOCKHASH_RETRIES
    BY SwapAssumption DEF SwapInv, SwapTypeOK
  <2>3. r \in AttemptRecord /\ r.step = "send swap" /\ r.fee = attempt[a].fee
    BY <2>2 DEF AttemptRecord, Step
  <2>4. attempt' = [attempt EXCEPT ![a] = r]
    BY <2>1
  <2> HIDE DEF r
  <2> QED BY <1>1, <2>1, <2>3, <2>4, SendSwapMoves
<1> QED BY <1>2, <1>3

LEMMA ConfirmStepInv ==
    ASSUME SwapInv, NEW a \in Attempt, NEW k \in Kind, Confirm(a, k)
    PROVE  SwapInv'
<1>1. UNCHANGED <<mode, sent, chain, reports>> /\ attempt[a].step = ConfirmStep[k]
  BY DEF Confirm, OnChain, At
<1>2. CASE Fail(a)
  BY <1>1, <1>2, FailMoves
<1>3. CASE ~Fail(a) /\ k = "fee"
  <2>1. /\ attempt' = [attempt EXCEPT ![a].step = "send swap", ![a].tries = 0]
        /\ page' = page /\ chain[a]["fee"] = "landed" /\ attempt[a].step = "confirm fee"
    BY <1>1, <1>3 DEF Confirm, Confirmed, ConfirmStep
  <2> DEFINE r == [attempt[a] EXCEPT !.step = "send swap", !.tries = 0]
  <2>2. attempt[a] \in AttemptRecord /\ 0 \in 0 .. MAX_BLOCKHASH_RETRIES
    BY SwapAssumption DEF SwapInv, SwapTypeOK
  <2>3. r \in AttemptRecord /\ r.step = "send swap" /\ r.fee = attempt[a].fee
    BY <2>2 DEF AttemptRecord, Step
  <2>4. attempt' = [attempt EXCEPT ![a] = r]
    BY <2>1
  <2> HIDE DEF r
  <2> QED BY <1>1, <2>1, <2>3, <2>4, SendSwapMoves
<1>4. CASE ~Fail(a) /\ k = "swap"
  <2>1. GoTo(a, "succeeded") /\ Show("CONFIRMED")
    BY <1>4 DEF Confirm, Confirmed
  <2>2. page' \in Page /\ reports' \subseteq Reports
    BY <1>1, <2>1, ShowStep DEF SwapInv, SwapTypeOK, SwapStatus, Reports
  <2> QED BY <1>1, <2>1, <2>2, GoToMoves DEF Step, BeforeFee, BeforeSwap, Sending
<1> QED BY <1>2, <1>3, <1>4 DEF Kind

LEMMA ReportStep ==
    ASSUME SwapInv, NEW a \in Attempt, ReportSuccess(a) \/ ReportFailure(a)
    PROVE  SwapInv'
<1>1. /\ UNCHANGED <<mode, sent, chain>> /\ GoTo(a, "over")
      /\ attempt[a] \in AttemptRecord /\ page \in Page /\ reports \subseteq Reports
  BY DEF ReportSuccess, ReportFailure, OnChain, SwapInv, SwapTypeOK, Reports
<1>2. page' \in Page
  BY <1>1 DEF ReportSuccess, ReportFailure, Page, SwapStatus
<1>3. reports' \subseteq Reports
  <2>1. /\ [attempt |-> a, outcome |-> "failed", fee |-> FALSE] \in Reports
        /\ [attempt |-> a, outcome |-> "confirmed", fee |-> attempt[a].fee] \in Reports
    BY <1>1 DEF Reports, Outcome, AttemptRecord
  <2> QED BY <1>1, <2>1 DEF ReportSuccess, ReportFailure
<1> QED BY <1>1, <1>2, <1>3, GoToMoves DEF Step, BeforeFee, BeforeSwap, Sending

(* What has landed stays so. *)
LEMMA SettleStep ==
    ASSUME SwapInv, NEW a \in Attempt, NEW k \in Kind, Settle(a, k)
    PROVE  SwapInv'
<1>1. PICK fate \in {"landed", "failed", "expired"} : chain' = [chain EXCEPT ![a][k] = fate]
  BY DEF Settle
<1> DEFINE c == [chain[a] EXCEPT ![k] = fate]
<1>2. UNCHANGED <<mode, attempt, page, sent, reports>> /\ chain[a][k] = "pending"
  BY DEF Settle
<1>3. /\ c \in [Kind -> TxState]
      /\ chain[a]["fee"] = "landed" => c["fee"] = "landed"
  BY <1>2 DEF SwapInv, SwapTypeOK, TxState, Kind
<1>4. chain' = [chain EXCEPT ![a] = c]
  BY <1>1
<1> HIDE DEF c
<1>5. /\ chain' \in [Attempt -> [Kind -> TxState]] /\ chain'[a] = c
      /\ \A b \in Attempt \ {a} : chain'[b] = chain[b]
  BY <1>3, <1>4 DEF SwapInv, SwapTypeOK
<1>6. AttemptOK(a)'
  BY <1>2, <1>3, <1>5 DEF SwapInv, AttemptOK, FeeTxDue
<1>7. /\ page' \in Page /\ reports' \subseteq Reports
      /\ attempt' \in [Attempt -> AttemptRecord] /\ sent' \in [Attempt -> [Kind -> Nat]]
  BY <1>2 DEF SwapInv, SwapTypeOK, Reports
<1> QED BY <1>2, <1>5, <1>6, <1>7, PressMoves

LEMMA FirstOne == \A m, n : m = 0 /\ n = m + 1 => n <= 1
OBVIOUS

LEMMA AtLeastOne == \A m, n : m = 0 /\ n = m + 1 => n > 0
OBVIOUS

(* A press that broadcasts one of its transactions leaves the step in      *)
(* which none of that kind had been sent.                                  *)
LEMMA BroadcastMoves ==
    ASSUME SwapInv, NEW a \in Attempt, NEW k \in Kind, NEW s \in Step, Broadcast(a, k),
           GoTo(a, s), attempt[a].step = SendStep[k], mode' = mode,
           s \in {ConfirmStep[k], "failed"}, page' \in Page, reports' \subseteq Reports
    PROVE  SwapInv'
<1>1. /\ attempt' \in [Attempt -> AttemptRecord]
      /\ attempt'[a].step = s /\ attempt'[a].fee = attempt[a].fee
      /\ \A b \in Attempt \ {a} : attempt'[b] = attempt[b]
  BY GoToStep DEF SwapInv
<1>2. /\ sent' \in [Attempt -> [Kind -> Nat]] /\ chain' \in [Attempt -> [Kind -> TxState]]
      /\ sent'[a][k] = sent[a][k] + 1
      /\ \A j \in Kind \ {k} : sent'[a][j] = sent[a][j] /\ chain'[a][j] = chain[a][j]
      /\ \A b \in Attempt \ {a} : sent'[b] = sent[b] /\ chain'[b] = chain[b]
  BY BroadcastStep DEF SwapInv, SwapTypeOK
<1>3. FeeTxDue(a)' <=> FeeTxDue(a)
  BY <1>1, mode' = mode, ZenonT(30) DEF FeeTxDue
<1>4. sent[a]["fee"] \in Nat /\ sent[a]["swap"] \in Nat
  BY DEF SwapInv, SwapTypeOK, Kind
<1>5. AttemptOK(a)'
  <2>1. CASE k = "fee"
    <3>1. /\ sent[a]["fee"] = 0 /\ sent[a]["swap"] = 0 /\ s \in {"confirm fee", "failed"}
      BY <2>1 DEF SwapInv, AttemptOK, BeforeFee, BeforeSwap, SendStep, ConfirmStep
    <3>2. sent'[a]["fee"] = sent[a]["fee"] + 1
      BY <1>2, <2>1
    <3>3. sent'[a]["swap"] = sent[a]["swap"]
      BY <1>2, <2>1, "swap" \in Kind \ {"fee"} DEF Kind
    <3>4. attempt'[a].step \notin BeforeFee /\ attempt'[a].step \notin Sending
      BY <1>1, <3>1 DEF BeforeFee, Sending
    <3>5. sent'[a]["fee"] <= 1 /\ sent'[a]["swap"] = 0
      BY <3>1, <3>2, <3>3, FirstOne, Zenon
    <3> QED BY <3>4, <3>5 DEF AttemptOK
  <2>2. CASE k = "swap"
    <3>1. /\ sent[a]["swap"] = 0 /\ sent[a]["fee"] <= 1 /\ s \in {"confirm swap", "failed"}
          /\ FeeTxDue(a) => chain[a]["fee"] = "landed"
      BY <2>2 DEF SwapInv, AttemptOK, BeforeFee, BeforeSwap, Sending, SendStep, ConfirmStep
    <3>2. /\ sent'[a]["swap"] = sent[a]["swap"] + 1
          /\ sent'[a]["fee"] = sent[a]["fee"] /\ chain'[a]["fee"] = chain[a]["fee"]
      <4>1. sent'[a]["swap"] = sent[a]["swap"] + 1
        BY <1>2, <2>2
      <4> QED BY <1>2, <2>2, <4>1, "fee" \in Kind \ {"swap"} DEF Kind
    <3>3. attempt'[a].step \notin BeforeSwap /\ attempt'[a].step \notin BeforeFee
      BY <1>1, <3>1 DEF BeforeFee, BeforeSwap, Sending
    <3>4. FeeTxDue(a)' => chain'[a]["fee"] = "landed"
      BY <1>3, <3>1, <3>2
    <3>5. sent'[a]["fee"] <= 1 /\ sent'[a]["swap"] <= 1
      BY <3>1, <3>2, FirstOne, Zenon
    <3> QED BY <3>3, <3>4, <3>5 DEF AttemptOK
  <2> QED BY <2>1, <2>2 DEF Kind
<1> QED BY <1>1, <1>2, <1>5, PressMoves

LEMMA SendStepInv ==
    ASSUME SwapInv, NEW a \in Attempt, NEW k \in Kind, Send(a, k)
    PROVE  SwapInv'
<1>1. /\ mode' = mode /\ reports' = reports /\ attempt[a].step = SendStep[k]
      /\ page \in Page /\ reports' \subseteq Reports
  BY DEF Send, At, SwapInv, SwapTypeOK, Reports
<1>2. CASE Sent(a, k)
  <2>1. ConfirmStep[k] \in Step
    <3>1. ConfirmStep["fee"] \in Step /\ ConfirmStep["swap"] \in Step
      BY DEF ConfirmStep, Step
    <3> QED BY <3>1 DEF Kind
  <2> QED BY <1>1, <1>2, <2>1, BroadcastMoves DEF Sent
<1>3. CASE AnswerLost(a, k)
  <2>1. page' \in Page
    BY <1>1, <1>3, ShowStep DEF AnswerLost, Fail, SwapStatus
  <2> QED BY <1>1, <1>3, <2>1, BroadcastMoves DEF AnswerLost, Fail, Step
<1>4. CASE BlockhashExpired(a, k)
  <2> DEFINE r == [attempt[a] EXCEPT !.tries = attempt[a].tries + 1]
  <2>1. attempt[a] \in AttemptRecord /\ attempt[a].tries + 1 \in 0 .. MAX_BLOCKHASH_RETRIES
    BY <1>4, SwapAssumption DEF BlockhashExpired, SwapInv, SwapTypeOK, AttemptRecord
  <2>2. r \in AttemptRecord /\ r.step = attempt[a].step /\ r.fee = attempt[a].fee
    BY <2>1 DEF AttemptRecord
  <2>3. attempt' = [attempt EXCEPT ![a] = r]
    BY <1>4 DEF BlockhashExpired
  <2> HIDE DEF r
  <2>4. /\ attempt' \in [Attempt -> AttemptRecord] /\ attempt'[a].step = attempt[a].step
        /\ attempt'[a].fee = attempt[a].fee
        /\ \A b \in Attempt \ {a} : attempt'[b] = attempt[b]
    BY <2>2, <2>3, RecordStep DEF SwapInv
  <2>5. FeeTxDue(a)' <=> FeeTxDue(a)
    BY <1>1, <2>4, ZenonT(30) DEF FeeTxDue
  <2>6. UNCHANGED <<mode, sent, chain>> /\ page' \in Page
    BY <1>1, <1>4 DEF BlockhashExpired, OnChain
  <2> QED BY <1>1, <2>4, <2>5, <2>6, ControlMoves
<1>5. CASE PreflightFailed(a, k)
  <2>1. UNCHANGED <<mode, sent, chain, reports>>
    BY <1>1, <1>5 DEF PreflightFailed, OnChain
  <2>2. CASE Fail(a)
    BY <2>1, <2>2, FailMoves
  <2>3. CASE ~Fail(a)
    <3>1. k = "swap" /\ GoTo(a, "requote") /\ page' = page
      BY <1>5, <2>3 DEF PreflightFailed
    <3>2. attempt[a].step = "send swap" /\ page' \in Page
      BY <1>1, <3>1 DEF SendStep
    <3> QED BY <1>1, <2>1, <3>1, <3>2, GoToMoves DEF Step, BeforeFee, BeforeSwap, Sending
  <2> QED BY <2>2, <2>3
<1>6. CASE NotSigned(a, k)
  BY <1>1, <1>6, FailMoves DEF NotSigned, OnChain
<1> QED BY <1>2, <1>3, <1>4, <1>5, <1>6 DEF Send

-----------------------------------------------------------------------------
LEMMA SwapNextStep == SwapInv /\ [SwapNext]_swapVars => SwapInv'
<1> SUFFICES ASSUME SwapInv, [SwapNext]_swapVars PROVE SwapInv'
  OBVIOUS
<1>1. CASE UNCHANGED swapVars
  BY <1>1 DEF swapVars, SwapInv, SwapTypeOK, AttemptOK, FeeTxDue
<1>2. CASE FillForm \/ CloseModal
  BY <1>2, PageStep
<1>3. ASSUME NEW a \in Attempt, HandleSwap(a) \/ Proceed(a) \/ \E k \in Kind : Settle(a, k)
      PROVE  SwapInv'
  BY <1>3, HandleSwapStep, GetQuoteStep, BuildStep, RequoteStep, SendStepInv,
     ConfirmStepInv, ReportStep, SettleStep DEF Proceed
<1> QED BY <1>1, <1>2, <1>3 DEF SwapNext

LEMMA SwapInvGives == SwapInv => SwapTypeOK /\ OneOfEach /\ FeeFirst
BY DEF SwapInv, AttemptOK, OneOfEach, FeeFirst, Kind

-----------------------------------------------------------------------------
(* The phone.                                                              *)

(* What waits for a signature, or is being sent, has not been sent; its    *)
(* press is over.                                                          *)
WaitingOK ==
    \A a \in Attempt :
        /\ a \in phantom \union sending => attempt[a].step = "over" /\ sent[a]["swap"] = 0
        /\ ~(a \in phantom /\ a \in sending)

(* A stored context is of a press that was made and is not yet reported. *)
ContextOK ==
    /\ \A i \in DOMAIN logs :
          attempt[logs[i].context].step # "new" /\ logs[i].context \notin store.context
    /\ \A c \in store.context : attempt[c].step # "new"
    /\ ContextLoggedOnce

ResultsSent ==
    /\ \A a \in Attempt : a \in store.result \union events => sent[a]["swap"] > 0
    /\ LoggedWasSent

(* A desktop leaves the phone's part of the state alone. *)
DesktopOK ==
    mode # "mobile" => phantom = {} /\ sending = {} /\ events = {} /\ logs = <<>> /\ store = EmptyStore

MobileInv == MobileTypeOK /\ SwapInv /\ WaitingOK /\ ContextOK /\ ResultsSent /\ DesktopOK

(* A press that was made stays made, one that is over stays over. *)
StepsOn ==
    \A a \in Attempt :
        /\ attempt[a].step # "new" => attempt'[a].step # "new"
        /\ attempt[a].step = "over" => attempt'[a].step = "over"

LogRecord == [signature : Signature, context : Attempt]

(* What is in a sequence, and in one that grew by one. *)
LEMMA ElementOf ==
    ASSUME NEW R, NEW q \in Seq(R), NEW i \in DOMAIN q
    PROVE  q[i] \in R
OBVIOUS

LEMMA Appended ==
    ASSUME NEW R, NEW q \in Seq(R), NEW r \in R
    PROVE  /\ Append(q, r) \in Seq(R)
           /\ \A i \in DOMAIN Append(q, r) :
                 \/ i \in DOMAIN q /\ Append(q, r)[i] = q[i]
                 \/ i = Len(q) + 1 /\ Append(q, r)[i] = r
OBVIOUS

LEMMA LogElements ==
    ASSUME MobileTypeOK, NEW i \in DOMAIN logs
    PROVE  /\ logs[i].signature \in Signature /\ logs[i].context \in Attempt
           /\ logs[i].signature # Stake => logs[i].signature \in Attempt
<1>1. logs \in Seq(LogRecord)
  BY DEF MobileTypeOK, LogRecord
<1>2. logs[i] \in LogRecord
  BY <1>1, ElementOf
<1> QED BY <1>2 DEF LogRecord, Signature

LEMMA AtMostOneFacts ==
    \A T, S : S \in AtMostOne(T) => S \subseteq T /\ \A x, y \in S : x = y
BY DEF AtMostOne

LEMMA NoneOrOne ==
    \A T : {} \in AtMostOne(T) /\ \A x \in T : {x} \in AtMostOne(T)
BY DEF AtMostOne

LEMMA MobileInitInv == PageInit => MobileInv
<1> SUFFICES ASSUME SwapInit, MobileInit PROVE MobileInv
  BY DEF PageInit
<1>1. SwapInv /\ SwapTypeOK
  BY SwapInitInv, SwapInvGives
<1>2. EmptyStore \in Store /\ {} \in AtMostOne(Signature)
  BY NoneOrOne DEF EmptyStore, Store
<1>3. MobileTypeOK
  BY <1>1, <1>2 DEF MobileInit, MobileTypeOK
<1>4. WaitingOK /\ ResultsSent /\ DesktopOK /\ ContextOK
  BY DEF MobileInit, WaitingOK, ResultsSent, LoggedWasSent, DesktopOK, ContextOK,
         ContextLoggedOnce, EmptyStore
<1> QED BY <1>1, <1>3, <1>4 DEF MobileInv

LEMMA UnloadStep ==
    ASSUME SwapInv, Unload, UNCHANGED <<mode, sent, chain, reports>>, page' \in Page
    PROVE  SwapInv' /\ StepsOn /\ left' = {} /\ events' = {}
<1>1. ASSUME NEW a \in Attempt
      PROVE  /\ attempt'[a] \in AttemptRecord /\ attempt'[a].fee = attempt[a].fee
             /\ attempt'[a].step = IF attempt[a].step = "new" THEN "new" ELSE "over"
  <2>1. attempt[a] \in AttemptRecord
    BY DEF SwapInv, SwapTypeOK
  <2>2. CASE attempt[a].step = "new"
    BY <2>1, <2>2 DEF Unload, At
  <2>3. CASE attempt[a].step # "new"
    <3>1. attempt'[a] = [attempt[a] EXCEPT !.step = "over"]
      BY <2>3 DEF Unload, At
    <3> QED BY <2>1, <2>3, <3>1 DEF AttemptRecord, Step
  <2> QED BY <2>2, <2>3
<1>2. attempt' \in [Attempt -> AttemptRecord]
  BY <1>1 DEF Unload
<1>3. StepsOn /\ left' = {} /\ events' = {}
  BY <1>1 DEF StepsOn, Unload
<1>4. ASSUME NEW a \in Attempt PROVE AttemptOK(a)'
  <2>1. FeeTxDue(a)' <=> FeeTxDue(a)
    BY <1>1, mode' = mode, ZenonT(30) DEF FeeTxDue
  <2>2. \/ attempt'[a].step = attempt[a].step
        \/ attempt'[a].step \notin BeforeFee \union BeforeSwap \union Sending
    BY <1>1 DEF BeforeFee, BeforeSwap, Sending
  <2> QED BY <2>1, <2>2, sent' = sent, chain' = chain DEF SwapInv, AttemptOK
<1>5. SwapTypeOK'
  BY <1>2 DEF SwapInv, SwapTypeOK
<1> QED BY <1>3, <1>4, <1>5 DEF SwapInv

LEMMA ShowResultStep ==
    ASSUME NEW S, NEW p \in Page, ShowResult(S, p)
    PROVE  page' \in Page
BY DEF ShowResult, Page, SwapStatus

(* A swap is reported under the context that was stored, and the context   *)
(* goes away with it.                                                      *)
LEMMA LogStep ==
    ASSUME MobileInv, StepsOn, sent' = sent,
           NEW S \in AtMostOne(Signature), NEW st \in Store, st.context = store.context,
           \A a \in Attempt : a \in S => sent[a]["swap"] > 0,
           LogMobileSwap(S, st)
    PROVE  /\ store' \in Store /\ store'.result = st.result
           /\ logs' \in Seq(LogRecord)
           /\ ContextOK' /\ LoggedWasSent'
<1>1. /\ store.context \in AtMostOne(Attempt) /\ store.context \subseteq Attempt
      /\ \A c, d \in store.context : c = d
      /\ S \subseteq Signature /\ \A x, y \in S : x = y
  <2>1. store.context \in AtMostOne(Attempt)
    BY DEF MobileInv, MobileTypeOK, Store
  <2> QED BY <2>1, AtMostOneFacts
<1>2. /\ store' \in Store /\ store'.result = st.result
      /\ store'.context = IF S = {} THEN store.context ELSE {}
  BY NoneOrOne DEF LogMobileSwap, Store
<1>3. logs \in Seq(LogRecord) /\ MobileTypeOK
  BY DEF MobileInv, MobileTypeOK, LogRecord
<1>4. \A c \in store'.context : attempt'[c].step # "new"
  BY <1>1, <1>2 DEF MobileInv, ContextOK, StepsOn
<1>5. ASSUME NEW i \in DOMAIN logs
      PROVE  attempt'[logs[i].context].step # "new" /\ logs[i].context \notin store'.context
  BY <1>2, <1>3, LogElements DEF MobileInv, ContextOK, StepsOn
<1>6. CASE logs' = logs
  <2>1. LoggedWasSent' /\ ContextLoggedOnce'
    BY <1>6 DEF MobileInv, ContextOK, ContextLoggedOnce, ResultsSent, LoggedWasSent
  <2> QED BY <1>2, <1>3, <1>4, <1>5, <1>6, <2>1 DEF ContextOK
<1>7. CASE logs' # logs
  <2>1. PICK s \in S, c \in store.context :
            logs' = Append(logs, [signature |-> s, context |-> c])
    BY <1>7 DEF LogMobileSwap, Logged
  <2> DEFINE r == [signature |-> s, context |-> c]
  <2>2. r \in LogRecord /\ r.signature = s /\ r.context = c
    BY <1>1 DEF LogRecord
  <2>3. logs' = Append(logs, r)
    BY <2>1
  <2> HIDE DEF r
  <2>4. /\ logs' \in Seq(LogRecord)
        /\ \A i \in DOMAIN logs' :
              \/ i \in DOMAIN logs /\ logs'[i] = logs[i]
              \/ i = Len(logs) + 1 /\ logs'[i] = r
    BY <1>3, <2>2, <2>3, Appended
  <2>5. \A i \in DOMAIN logs : logs[i].context # c
    BY DEF MobileInv, ContextOK
  <2>6. ASSUME NEW i \in DOMAIN logs', NEW j \in DOMAIN logs', logs'[i].context = logs'[j].context
        PROVE  i = j
    <3>1. CASE i \in DOMAIN logs /\ j \in DOMAIN logs /\ logs'[i] = logs[i] /\ logs'[j] = logs[j]
      BY <2>6, <3>1 DEF MobileInv, ContextOK, ContextLoggedOnce
    <3>2. CASE i \in DOMAIN logs /\ logs'[i] = logs[i] /\ logs'[j] = r
      BY <2>2, <2>5, <2>6, <3>2
    <3>3. CASE logs'[i] = r /\ j \in DOMAIN logs /\ logs'[j] = logs[j]
      BY <2>2, <2>5, <2>6, <3>3
    <3>4. CASE i = Len(logs) + 1 /\ j = Len(logs) + 1
      BY <3>4
    <3> QED BY <2>4, <3>1, <3>2, <3>3, <3>4
  <2>7. LoggedWasSent'
    <3>1. ASSUME NEW i \in DOMAIN logs', logs'[i].signature # Stake
          PROVE  sent'[logs'[i].signature]["swap"] > 0
      <4>1. CASE i \in DOMAIN logs /\ logs'[i] = logs[i]
        BY <3>1, <4>1 DEF MobileInv, ResultsSent, LoggedWasSent
      <4>2. CASE logs'[i] = r
        BY <1>1, <2>2, <3>1, <4>2 DEF Signature
      <4> QED BY <2>4, <4>1, <4>2
    <3> QED BY <3>1 DEF LoggedWasSent
  <2>8. ASSUME NEW i \in DOMAIN logs'
        PROVE  attempt'[logs'[i].context].step # "new" /\ logs'[i].context \notin store'.context
    <3>1. CASE i \in DOMAIN logs /\ logs'[i] = logs[i]
      BY <1>5, <3>1
    <3>2. CASE logs'[i] = r
      BY <1>1, <1>2, <2>2, <3>2 DEF MobileInv, ContextOK, StepsOn
    <3> QED BY <2>4, <3>1, <3>2
  <2>9. ContextLoggedOnce'
    BY <2>6 DEF ContextLoggedOnce
  <2>10. ContextOK'
    BY <1>4, <2>8, <2>9 DEF ContextOK
  <2> QED BY <1>2, <2>4, <2>7, <2>10
<1> QED BY <1>6, <1>7

(* A route that is mounted reports at most the stored result. *)
LEMMA MountStep ==
    ASSUME MobileInv, StepsOn, sent' = sent, NEW v \in {"swap", "stake"},
           NEW st \in Store, st.context = store.context, st.result = store.result,
           Mount(v, st)
    PROVE  /\ view' = v /\ page' \in Page
           /\ store' \in Store /\ store'.result \subseteq store.result
           /\ logs' \in Seq(LogRecord)
           /\ ContextOK' /\ LoggedWasSent'
<1> DEFINE S == IF v = "swap" THEN st.result ELSE {}
           t == [st EXCEPT !.result = st.result \ S]
<1>1. view' = v /\ ShowResult(S, FreshPage) /\ LogMobileSwap(S, t)
  BY DEF Mount
<1>2. st.result \in AtMostOne(Signature) /\ {} \in AtMostOne(Signature)
  BY NoneOrOne DEF Store
<1>3. S \in AtMostOne(Signature) /\ S \subseteq store.result
      /\ (st.result \ S = {} \/ st.result \ S = st.result)
  BY <1>2
<1>4. t \in Store /\ t.context = store.context /\ t.result \subseteq store.result
  BY <1>2, <1>3 DEF Store
<1>5. \A a \in Attempt : a \in S => sent[a]["swap"] > 0
  BY <1>3 DEF MobileInv, ResultsSent
<1>6. FreshPage \in Page
  BY DEF FreshPage, Page, SwapStatus
<1> HIDE DEF S, t
<1>7. page' \in Page
  BY <1>1, <1>6, ShowResultStep
<1> QED BY <1>1, <1>3, <1>4, <1>5, <1>7, LogStep

(* Steps that keep what was prepared and what was sent apart. *)
LEMMA WaitingKept ==
    ASSUME WaitingOK, StepsOn, sent' = sent,
           \A a \in Attempt : a \in phantom' \union sending' => a \in phantom \union sending,
           \A a \in Attempt : ~(a \in phantom' /\ a \in sending')
    PROVE  WaitingOK'
BY DEF WaitingOK, StepsOn

LEMMA ContextKept ==
    ASSUME MobileInv, StepsOn, logs' = logs, store'.context = store.context
    PROVE  ContextOK'
<1>1. store.context \subseteq Attempt /\ \A i \in DOMAIN logs : logs[i].context \in Attempt
  BY AtMostOneFacts, LogElements DEF MobileInv, MobileTypeOK, Store
<1> QED BY <1>1 DEF MobileInv, ContextOK, ContextLoggedOnce, StepsOn

LEMMA ResultsKept ==
    ASSUME ResultsSent, logs' = logs, sent' = sent,
           store'.result \union events' \subseteq store.result \union events
    PROVE  ResultsSent'
BY DEF ResultsSent, LoggedWasSent

(* Nothing of what the phone keeps is touched but the pending operation.   *)
LEMMA QuietStep ==
    ASSUME MobileInv, SwapInv', StepsOn, mode = "mobile", mode' = mode, sent' = sent,
           left' \subseteq Attempt, view' \in {"swap", "stake", "blank"},
           store' \in Store, store'.context = store.context, store'.result = store.result,
           UNCHANGED <<phantom, sending, events, logs>>
    PROVE  MobileInv'
<1>1. MobileTypeOK'
  BY DEF MobileInv, MobileTypeOK, SwapInv
<1>2. WaitingOK'
  BY WaitingKept DEF MobileInv, WaitingOK
<1>3. ContextOK' /\ ResultsSent'
  BY ContextKept, ResultsKept DEF MobileInv
<1>4. DesktopOK'
  BY DEF DesktopOK
<1> QED BY <1>1, <1>2, <1>3, <1>4 DEF MobileInv

(* Steps of the page alone, and of one press. *)
LEMMA PageMoves ==
    ASSUME SwapInv, UNCHANGED <<mode, attempt, sent, chain, reports>>, page' \in Page
    PROVE  SwapInv' /\ StepsOn
BY DEF SwapInv, SwapTypeOK, AttemptOK, FeeTxDue, StepsOn

LEMMA OneStepsOn ==
    ASSUME NEW a \in Attempt, attempt[a].step # "over", attempt'[a].step # "new",
           \A b \in Attempt \ {a} : attempt'[b] = attempt[b]
    PROVE  StepsOn
<1>1. ASSUME NEW b \in Attempt
      PROVE  /\ attempt[b].step # "new" => attempt'[b].step # "new"
             /\ attempt[b].step = "over" => attempt'[b].step = "over"
  <2>1. CASE b = a
    BY <2>1
  <2>2. CASE b # a
    BY <2>2
  <2> QED BY <2>1, <2>2
<1> QED BY <1>1 DEF StepsOn

LEMMA GoToStepsOn ==
    ASSUME SwapInv, NEW a \in Attempt, NEW s \in Step \ {"new"}, GoTo(a, s),
           attempt[a].step # "over"
    PROVE  StepsOn
<1>1. attempt'[a].step = s /\ \A b \in Attempt \ {a} : attempt'[b] = attempt[b]
  BY GoToStep DEF SwapInv
<1> QED BY <1>1, OneStepsOn

LEMMA MobileHandleSwapStep ==
    ASSUME MobileInv, mode = "mobile", NEW a \in Attempt, MobileHandleSwap(a)
    PROVE  MobileInv'
<1>1. /\ HandleSwap(a) /\ store' = [store EXCEPT !.context = {a}]
      /\ UNCHANGED <<left, view, phantom, sending, events, logs, mode, sent>>
      /\ attempt[a].step = "new"
  BY DEF MobileHandleSwap, External, HandleSwap, OnChain, At
<1>2. SwapInv'
  BY <1>1, HandleSwapStep DEF MobileInv
<1>3. attempt'[a].step = "quote" /\ \A b \in Attempt \ {a} : attempt'[b] = attempt[b]
  <2>1. PICK fee \in BOOLEAN :
            attempt' = [attempt EXCEPT ![a].step = "quote", ![a].fee = fee]
    BY <1>1 DEF HandleSwap
  <2>2. attempt[a] \in AttemptRecord /\ attempt \in [Attempt -> AttemptRecord]
    BY DEF MobileInv, SwapInv, SwapTypeOK
  <2> QED BY <2>1, <2>2 DEF AttemptRecord
<1>4. StepsOn
  BY <1>1, <1>3, OneStepsOn
<1>5. store \in Store /\ {a} \in AtMostOne(Attempt)
  BY NoneOrOne DEF MobileInv, MobileTypeOK
<1>6. store' \in Store /\ store'.context = {a} /\ store'.result = store.result
  BY <1>1, <1>5 DEF Store
<1>7. MobileTypeOK'
  BY <1>1, <1>2, <1>6 DEF MobileInv, MobileTypeOK, SwapInv
<1>8. WaitingOK' /\ ResultsSent'
  BY <1>1, <1>4, <1>6, WaitingKept, ResultsKept DEF MobileInv, WaitingOK
<1>9. ContextOK'
  <2>1. \A i \in DOMAIN logs : logs[i].context \in Attempt
    BY LogElements DEF MobileInv
  <2> QED BY <1>1, <1>3, <1>4, <1>6, <2>1 DEF MobileInv, ContextOK, ContextLoggedOnce, StepsOn
<1>10. DesktopOK'
  BY <1>1 DEF DesktopOK
<1> QED BY <1>2, <1>7, <1>8, <1>9, <1>10 DEF MobileInv

(* The steps of executeSwap before the wallet is called, the chain's, and  *)
(* those of the page alone.                                                *)
LEMMA SwapStepQuiet ==
    ASSUME MobileInv, SwapInv', StepsOn, mode = "mobile", mode' = mode, sent' = sent,
           UNCHANGED mobileVars
    PROVE  MobileInv'
<1>1. /\ UNCHANGED <<phantom, sending, events, logs>> /\ store' = store
      /\ left' \subseteq Attempt /\ view' \in {"swap", "stake", "blank"}
      /\ store' \in Store
  BY DEF mobileVars, MobileInv, MobileTypeOK
<1> QED BY <1>1, QuietStep

LEMMA OnFormStep ==
    ASSUME MobileInv, mode = "mobile", OnForm
    PROVE  MobileInv'
<1>1. SwapInv' /\ StepsOn /\ mode' = mode /\ sent' = sent
  BY PageStep DEF OnForm, FillForm, CloseModal, OnChain, StepsOn, MobileInv
<1> QED BY <1>1, SwapStepQuiet DEF OnForm

LEMMA PrepareStep ==
    ASSUME MobileInv, mode = "mobile", NEW a \in Attempt, Prepare(a)
    PROVE  MobileInv'
<1>1. SwapInv' /\ SwapInv
  BY GetQuoteStep, BuildStep DEF Prepare, MobileInv
<1>2. mode' = mode /\ sent' = sent /\ attempt[a].step # "over" /\ UNCHANGED mobileVars
  BY DEF Prepare, GetQuote, Build, OnChain, At
<1>3. PICK s \in {"build", "send fee", "send swap", "failed"} : GoTo(a, s)
  BY DEF Prepare, GetQuote, Build, Fail
<1>4. StepsOn
  BY <1>1, <1>2, <1>3, GoToStepsOn DEF Step
<1> QED BY <1>1, <1>2, <1>4, SwapStepQuiet

LEMMA LeaveStep ==
    ASSUME MobileInv, mode = "mobile", NEW a \in Attempt, Leave(a)
    PROVE  MobileInv'
<1>1. page' \in Page /\ SwapInv
  BY DEF Leave, MobileInv, SwapInv, SwapTypeOK, Page
<1>2. /\ UNCHANGED <<mode, attempt, sent, chain, reports>>
      /\ UNCHANGED <<view, store, phantom, sending, events, logs>>
  BY DEF Leave, OnChain, External
<1>3. SwapInv' /\ StepsOn
  BY <1>1, <1>2, PageMoves
<1>4. left' \subseteq Attempt /\ view' \in {"swap", "stake", "blank"} /\ store' \in Store
  BY <1>2 DEF Leave, MobileInv, MobileTypeOK
<1> QED BY <1>2, <1>3, <1>4, QuietStep

LEMMA MobileReportStep ==
    ASSUME MobileInv, mode = "mobile", NEW a \in Attempt, MobileReport(a)
    PROVE  MobileInv'
<1>1. /\ GoTo(a, "over") /\ attempt[a].step = "failed" /\ UNCHANGED <<mode, sent, chain>>
      /\ UNCHANGED mobileVars
  BY DEF MobileReport, ReportFailure, At, OnChain
<1>2. SwapInv'
  <2>1. CASE ReportFailure(a)
    BY <2>1, ReportStep DEF MobileInv
  <2>2. CASE ~ReportFailure(a)
    <3>1. page' \in Page /\ reports' \subseteq Reports
      BY <2>2 DEF MobileReport, MobileInv, SwapInv, SwapTypeOK, Reports
    <3> QED BY <1>1, <3>1, GoToMoves DEF MobileInv, Step, BeforeFee, BeforeSwap, Sending
  <2> QED BY <2>1, <2>2
<1>3. StepsOn
  BY <1>1, GoToStepsOn DEF MobileInv, Step
<1> QED BY <1>1, <1>2, <1>3, SwapStepQuiet

LEMMA SettleQuiet ==
    ASSUME MobileInv, mode = "mobile", NEW a \in Attempt, Settle(a, "swap"), UNCHANGED mobileVars
    PROVE  MobileInv'
<1>1. SwapInv' /\ mode' = mode /\ sent' = sent /\ attempt' = attempt
  BY SettleStep DEF Settle, MobileInv, Kind
<1> QED BY <1>1, SwapStepQuiet DEF StepsOn

LEMMA PendingExpiresStep ==
    ASSUME MobileInv, mode = "mobile", PendingExpires
    PROVE  MobileInv'
<1>1. /\ UNCHANGED <<mode, attempt, page, sent, chain, reports>>
      /\ UNCHANGED <<left, view, phantom, sending, events, logs>>
      /\ store' = [store EXCEPT !.pending = FALSE]
  BY DEF PendingExpires, swapVars, External
<1>2. /\ page' \in Page /\ left' \subseteq Attempt /\ view' \in {"swap", "stake", "blank"}
      /\ store' \in Store /\ store'.context = store.context /\ store'.result = store.result
  BY <1>1 DEF MobileInv, SwapInv, SwapTypeOK, MobileTypeOK, Store
<1>3. SwapInv' /\ StepsOn
  BY <1>1, <1>2, PageMoves DEF MobileInv
<1> QED BY <1>1, <1>2, <1>3, QuietStep

LEMMA StakeRedirectStep ==
    ASSUME MobileInv, mode = "mobile", StakeRedirect
    PROVE  MobileInv'
<1>1. /\ UNCHANGED <<mode, attempt, page, sent, chain, reports>>
      /\ UNCHANGED <<left, view, sending, events, logs>> /\ phantom' = {Stake}
      /\ store' = [store EXCEPT !.pending = TRUE]
  BY DEF StakeRedirect, swapVars
<1>2. /\ page' \in Page /\ store' \in Store
      /\ store'.context = store.context /\ store'.result = store.result
      /\ phantom' \in AtMostOne(Signature)
  BY <1>1, NoneOrOne DEF MobileInv, SwapInv, SwapTypeOK, MobileTypeOK, Store, Signature
<1>3. SwapInv' /\ StepsOn
  BY <1>1, <1>2, PageMoves DEF MobileInv
<1>4. MobileTypeOK'
  BY <1>1, <1>2, <1>3 DEF MobileInv, MobileTypeOK, SwapInv
<1>5. Stake \notin Attempt
  BY DEF Stake, Attempt
<1>6. WaitingOK'
  BY <1>1, <1>3, <1>5, WaitingKept DEF MobileInv, WaitingOK
<1>7. ContextOK' /\ ResultsSent' /\ DesktopOK'
  BY <1>1, <1>2, <1>3, ContextKept, ResultsKept DEF MobileInv, DesktopOK
<1> QED BY <1>3, <1>4, <1>6, <1>7 DEF MobileInv

LEMMA RedirectStep ==
    ASSUME MobileInv, mode = "mobile", NEW a \in Attempt, Redirect(a)
    PROVE  MobileInv'
<1>1. /\ UNCHANGED <<mode, sent, chain, reports, view, sending, events, logs>>
      /\ attempt[a].step = "send swap" /\ SwapInv
  BY DEF Redirect, OnChain, At, MobileInv
<1>2. CASE Fail(a)
  <2>1. SwapInv'
    BY <1>1, <1>2, FailMoves
  <2>2. StepsOn
    BY <1>1, <1>2, GoToStepsOn DEF Fail, Step
  <2>3. page' = [page EXCEPT !.status = "FAILED"]
    BY <1>2 DEF Fail, Show
  <2>4. CASE UNCHANGED <<left, store, phantom>>
    <3>1. UNCHANGED mobileVars
      BY <1>1, <2>4 DEF mobileVars
    <3> QED BY <1>1, <2>1, <2>2, <3>1, SwapStepQuiet
  <2>5. CASE ~UNCHANGED <<left, store, phantom>>
    <3>1. GoTo(a, "over") /\ GoTo(a, "failed")
      BY <1>2, <2>5 DEF Redirect, Fail
    <3>2. attempt'[a].step = "over" /\ attempt'[a].step = "failed"
      BY <1>1, <3>1, GoToStep DEF Step, SwapInv
    <3> QED BY <3>2
  <2> QED BY <2>4, <2>5
<1>3. CASE ~Fail(a)
  <2>1. /\ store' = [store EXCEPT !.pending = TRUE] /\ phantom' = {a} /\ GoTo(a, "over")
        /\ left' = left \union {b \in Attempt : Running(b)}
        /\ page' = [page EXCEPT !.loading = FALSE]
    BY <1>3 DEF Redirect
  <2>2. page' \in Page /\ reports' \subseteq Reports
    BY <1>1, <2>1 DEF SwapInv, SwapTypeOK, Page, Reports
  <2>3. SwapInv'
    BY <1>1, <2>1, <2>2, GoToMoves DEF Step, BeforeFee, BeforeSwap, Sending
  <2>4. StepsOn /\ attempt'[a].step = "over"
    BY <1>1, <2>1, GoToStep, GoToStepsOn DEF Step, SwapInv
  <2>5. /\ store' \in Store /\ store'.context = store.context /\ store'.result = store.result
        /\ phantom' \in AtMostOne(Signature)
    BY <2>1, NoneOrOne DEF MobileInv, MobileTypeOK, Store, Signature
  <2>6. MobileTypeOK'
    BY <1>1, <2>1, <2>3, <2>5 DEF MobileInv, MobileTypeOK, SwapInv
  <2>7. sent[a]["swap"] = 0
    BY <1>1 DEF SwapInv, AttemptOK, BeforeSwap, Sending
  <2>8. WaitingOK'
    <3>1. a \notin sending
      BY <1>1 DEF MobileInv, WaitingOK
    <3> QED BY <1>1, <2>1, <2>4, <2>7, <3>1 DEF MobileInv, WaitingOK, StepsOn
  <2>9. ContextOK' /\ ResultsSent' /\ DesktopOK'
    BY <1>1, <2>4, <2>5, ContextKept, ResultsKept DEF MobileInv, DesktopOK
  <2> QED BY <2>3, <2>6, <2>8, <2>9 DEF MobileInv
<1> QED BY <1>2, <1>3

(* A document that is loaded anew: what it mounts is one of the two        *)
(* routes, what it sends at most what was waiting for a signature.         *)
LEMMA LoadStep ==
    ASSUME MobileInv, mode = "mobile", NEW v \in {"swap", "stake"},
           NEW p \in BOOLEAN, Mount(v, [store EXCEPT !.pending = p]), Unload,
           UNCHANGED <<mode, sent, chain, reports>>,
           phantom' \in {{}, phantom}, sending' \in {{}, phantom},
           phantom' = {} \/ sending' = {}
    PROVE  MobileInv'
<1> DEFINE st == [store EXCEPT !.pending = p]
<1>1. st \in Store /\ st.context = store.context /\ st.result = store.result /\ SwapInv
  BY DEF MobileInv, MobileTypeOK, Store
<1> HIDE DEF st
<1>2. StepsOn
  BY DEF Unload, At, StepsOn, MobileInv, SwapInv, SwapTypeOK, AttemptRecord
<1>3. /\ view' = v /\ page' \in Page /\ store' \in Store
      /\ store'.result \subseteq store.result
      /\ logs' \in Seq(LogRecord) /\ ContextOK' /\ LoggedWasSent'
  BY <1>1, <1>2, MountStep DEF st
<1>4. SwapInv' /\ left' = {} /\ events' = {}
  BY <1>1, <1>3, UnloadStep
<1>5. phantom' \in AtMostOne(Signature) /\ sending' \in AtMostOne(Signature)
  BY NoneOrOne DEF MobileInv, MobileTypeOK
<1>6. MobileTypeOK'
  BY <1>3, <1>4, <1>5 DEF MobileTypeOK, SwapInv, LogRecord
<1>7. WaitingOK'
  BY <1>2, WaitingKept DEF MobileInv
<1>8. ResultsSent'
  BY <1>3, <1>4 DEF MobileInv, ResultsSent
<1>9. DesktopOK'
  BY DEF DesktopOK
<1> QED BY <1>3, <1>4, <1>6, <1>7, <1>8, <1>9 DEF MobileInv

LEMMA AnswerStep ==
    ASSUME MobileInv, mode = "mobile", Approve \/ Reject
    PROVE  MobileInv'
<1>1. PICK s \in phantom : Mount(Route(s), [store EXCEPT !.pending = FALSE])
  BY DEF Approve, Reject
<1>2. Route(s) \in {"swap", "stake"}
  BY DEF Route
<1>3. /\ Unload /\ UNCHANGED <<mode, sent, chain, reports>>
      /\ phantom' = {} /\ sending' \in {{}, phantom}
  BY DEF Approve, Reject, OnChain
<1> QED BY <1>1, <1>2, <1>3, LoadStep

LEMMA ReloadStep ==
    ASSUME MobileInv, mode = "mobile", Reload
    PROVE  MobileInv'
<1>1. PICK v \in {"swap", "stake"} : Mount(v, store)
  BY DEF Reload
<1>2. /\ Unload /\ UNCHANGED <<mode, sent, chain, reports>>
      /\ phantom' = phantom /\ sending' = {}
  BY DEF Reload, OnChain
<1>3. store.pending \in BOOLEAN /\ store = [store EXCEPT !.pending = store.pending]
  BY DEF MobileInv, MobileTypeOK, Store
<1> QED BY <1>1, <1>2, <1>3, LoadStep

LEMMA NavigateStep ==
    ASSUME MobileInv, mode = "mobile", Navigate
    PROVE  MobileInv'
<1>1. PICK v \in {"swap", "stake"} : Mount(v, store)
  BY DEF Navigate
<1>2. /\ UNCHANGED <<mode, attempt, sent, chain, reports>>
      /\ UNCHANGED <<left, phantom, sending, events>>
  BY DEF Navigate, OnChain, External
<1>3. StepsOn /\ store \in Store
  BY <1>2 DEF StepsOn, MobileInv, MobileTypeOK
<1>4. /\ view' = v /\ page' \in Page /\ store' \in Store
      /\ store'.result \subseteq store.result
      /\ logs' \in Seq(LogRecord) /\ ContextOK' /\ LoggedWasSent'
  BY <1>1, <1>2, <1>3, MountStep
<1>5. SwapInv'
  BY <1>2, <1>4, PageMoves DEF MobileInv
<1>6. MobileTypeOK'
  BY <1>2, <1>4, <1>5 DEF MobileInv, MobileTypeOK, SwapInv, LogRecord
<1>7. WaitingOK'
  BY <1>2, <1>3, WaitingKept DEF MobileInv, WaitingOK
<1>8. ResultsSent' /\ DesktopOK'
  BY <1>2, <1>4 DEF MobileInv, ResultsSent, DesktopOK
<1> QED BY <1>4, <1>5, <1>6, <1>7, <1>8 DEF MobileInv

(* The answer that comes after the pending operation has expired. *)
LEMMA ApproveLateStep ==
    ASSUME MobileInv, mode = "mobile", ApproveLate
    PROVE  MobileInv'
<1>1. /\ UNCHANGED <<mode, sent, chain, reports, logs>> /\ Unload
      /\ view' = "blank" /\ page' = FreshPage /\ store' = [store EXCEPT !.result = {}]
      /\ phantom' = {} /\ sending' = {}
  BY DEF ApproveLate, OnChain
<1>2. page' \in Page
  BY <1>1 DEF FreshPage, Page, SwapStatus
<1>3. SwapInv' /\ StepsOn /\ left' = {} /\ events' = {}
  BY <1>1, <1>2, UnloadStep DEF MobileInv
<1>4. /\ {} \in AtMostOne(Signature) /\ store \in Store
  BY NoneOrOne DEF MobileInv, MobileTypeOK
<1>5. store' \in Store /\ store'.context = store.context /\ store'.result = {}
  BY <1>1, <1>4 DEF Store
<1>6. MobileTypeOK'
  BY <1>1, <1>3, <1>4, <1>5 DEF MobileInv, MobileTypeOK, SwapInv
<1>7. WaitingOK'
  BY <1>1, <1>3, WaitingKept DEF MobileInv
<1>8. ContextOK' /\ ResultsSent' /\ DesktopOK'
  BY <1>1, <1>3, <1>5, ContextKept, ResultsKept DEF MobileInv, DesktopOK
<1> QED BY <1>3, <1>6, <1>7, <1>8 DEF MobileInv

(* The event is the second way a result is reported; its context may have  *)
(* gone with the first.                                                    *)
LEMMA DispatchStep ==
    ASSUME MobileInv, mode = "mobile", NEW s \in Signature, Dispatch(s)
    PROVE  MobileInv'
<1>1. /\ UNCHANGED <<mode, attempt, sent, chain, reports>>
      /\ UNCHANGED <<left, view, phantom, sending>>
      /\ s \in events /\ events' = events \ {s}
  BY DEF Dispatch, OnChain
<1>2. StepsOn /\ store \in Store /\ page \in Page /\ logs \in Seq(LogRecord)
  BY <1>1 DEF StepsOn, MobileInv, MobileTypeOK, SwapInv, SwapTypeOK, LogRecord
<1>3. /\ page' \in Page /\ store' \in Store /\ store'.result = store.result
      /\ logs' \in Seq(LogRecord) /\ ContextOK' /\ LoggedWasSent'
  <2>1. CASE view = "swap"
    <3>1. ShowResult({s}, page) /\ LogMobileSwap({s}, store)
      BY <2>1 DEF Dispatch
    <3>2. {s} \in AtMostOne(Signature)
      BY NoneOrOne
    <3>3. \A a \in Attempt : a \in {s} => sent[a]["swap"] > 0
      BY <1>1 DEF MobileInv, ResultsSent
    <3>4. page' \in Page
      BY <1>2, <3>1, ShowResultStep
    <3> QED BY <1>1, <1>2, <3>1, <3>2, <3>3, <3>4, LogStep
  <2>2. CASE view # "swap"
    <3>1. UNCHANGED <<page, logs, store>>
      BY <2>2 DEF Dispatch
    <3>2. ContextOK'
      BY <1>2, <3>1, ContextKept
    <3> QED BY <1>1, <1>2, <3>1, <3>2 DEF MobileInv, ResultsSent, LoggedWasSent
  <2> QED BY <2>1, <2>2
<1>4. SwapInv'
  BY <1>1, <1>3, PageMoves DEF MobileInv
<1>5. MobileTypeOK'
  BY <1>1, <1>3, <1>4 DEF MobileInv, MobileTypeOK, SwapInv, LogRecord
<1>6. WaitingOK'
  BY <1>1, <1>2, WaitingKept DEF MobileInv, WaitingOK
<1>7. ResultsSent' /\ DesktopOK'
  BY <1>1, <1>3 DEF MobileInv, ResultsSent, DesktopOK
<1> QED BY <1>3, <1>4, <1>5, <1>6, <1>7 DEF MobileInv

(* What a signed transaction does to the chain. *)
LEMMA HandedStep ==
    ASSUME MobileInv, mode = "mobile", NEW s \in sending,
           UNCHANGED <<mode, attempt, page, reports>>, Handed(s) \/ UNCHANGED OnChain
    PROVE  /\ SwapInv'
           /\ \A b \in Attempt : b # s => sent'[b] = sent[b]
           /\ \A b \in Attempt : sent[b]["swap"] > 0 => sent'[b]["swap"] > 0
           /\ Handed(s) /\ s \in Attempt => sent'[s]["swap"] > 0
<1>1. CASE UNCHANGED OnChain /\ (s = Stake \/ ~Handed(s))
  <2>1. UNCHANGED <<mode, attempt, sent, chain, reports>> /\ page' \in Page
    BY <1>1 DEF OnChain, MobileInv, SwapInv, SwapTypeOK
  <2>2. Stake \notin Attempt
    BY DEF Stake, Attempt
  <2> QED BY <1>1, <2>1, <2>2, PageMoves DEF MobileInv
<1>2. CASE s = Stake
  BY <1>1, <1>2 DEF Handed
<1>3. CASE s # Stake /\ Handed(s)
  <2>1. s \in Attempt /\ Broadcast(s, "swap") /\ "swap" \in Kind
    BY <1>3, AtMostOneFacts DEF MobileInv, MobileTypeOK, Signature, Handed, Kind
  <2>2. attempt[s].step = "over" /\ sent[s]["swap"] = 0
    BY <2>1 DEF MobileInv, WaitingOK
  <2>3. /\ sent' \in [Attempt -> [Kind -> Nat]] /\ chain' \in [Attempt -> [Kind -> TxState]]
        /\ sent'[s]["swap"] = sent[s]["swap"] + 1
        /\ \A j \in Kind \ {"swap"} : sent'[s][j] = sent[s][j] /\ chain'[s][j] = chain[s][j]
        /\ \A b \in Attempt \ {s} : sent'[b] = sent[b] /\ chain'[b] = chain[b]
    BY <2>1, BroadcastStep DEF MobileInv, SwapInv, SwapTypeOK
  <2>4. sent'[s]["fee"] = sent[s]["fee"] /\ sent[s]["fee"] <= 1
    BY <2>1, <2>3, "fee" \in Kind \ {"swap"} DEF Kind, MobileInv, SwapInv, AttemptOK
  <2>5. sent'[s]["swap"] <= 1
    BY <2>2, <2>3, FirstOne, Zenon
  <2>6. sent'[s]["swap"] > 0
    BY <2>2, <2>3, AtLeastOne, Zenon
  <2>7. attempt'[s].step \notin BeforeFee \union BeforeSwap \union Sending /\ ~FeeTxDue(s)'
    BY <2>2 DEF BeforeFee, BeforeSwap, Sending, FeeTxDue
  <2>8. AttemptOK(s)'
    BY <2>4, <2>5, <2>7 DEF AttemptOK
  <2>9. /\ page' \in Page /\ reports' \subseteq Reports
        /\ attempt' \in [Attempt -> AttemptRecord]
    BY DEF MobileInv, SwapInv, SwapTypeOK, Reports
  <2>10. SwapInv'
    BY <2>1, <2>3, <2>8, <2>9, PressMoves DEF MobileInv
  <2>11. ASSUME NEW b \in Attempt, sent[b]["swap"] > 0 PROVE sent'[b]["swap"] > 0
    <3>1. CASE b = s
      BY <2>6, <3>1
    <3>2. CASE b # s
      BY <2>3, <2>11, <3>2
    <3> QED BY <3>1, <3>2
  <2> QED BY <2>3, <2>6, <2>10, <2>11
<1> QED BY <1>1, <1>2, <1>3

LEMMA SubmitStep ==
    ASSUME MobileInv, mode = "mobile", NEW s \in Signature, Submit(s)
    PROVE  MobileInv'
<1>1. /\ s \in sending /\ sending' = sending \ {s}
      /\ UNCHANGED <<mode, attempt, page, reports, left, view, phantom, logs>>
      /\ Handed(s) \/ UNCHANGED OnChain
  BY DEF Submit
<1>2. /\ SwapInv'
      /\ \A b \in Attempt : b # s => sent'[b] = sent[b]
      /\ \A b \in Attempt : sent[b]["swap"] > 0 => sent'[b]["swap"] > 0
      /\ Handed(s) /\ s \in Attempt => sent'[s]["swap"] > 0
  BY <1>1, HandedStep
<1>3. store \in Store /\ {s} \in AtMostOne(Signature)
  BY NoneOrOne DEF MobileInv, MobileTypeOK
<1>4. \/ UNCHANGED <<store, events>>
      \/ /\ Handed(s) /\ store' \in {store, [store EXCEPT !.result = {s}]}
         /\ events' = events \union {s}
  BY DEF Submit
<1>5. /\ store' \in Store /\ store'.context = store.context
      /\ store'.result \union events' \subseteq store.result \union events \union {s}
      /\ Handed(s) \/ store'.result \union events' = store.result \union events
  BY <1>3, <1>4 DEF Store
<1>6. sending' \in AtMostOne(Signature)
  <2>1. sending \in AtMostOne(Signature) /\ \A x, y \in sending : x = y
    BY AtMostOneFacts DEF MobileInv, MobileTypeOK
  <2>2. sending' = {}
    BY <1>1, <2>1
  <2> QED BY <2>2, NoneOrOne
<1>7. MobileTypeOK'
  BY <1>1, <1>2, <1>4, <1>5, <1>6 DEF MobileInv, MobileTypeOK, SwapInv
<1>8. WaitingOK'
  BY <1>1, <1>2 DEF MobileInv, WaitingOK
<1>9. ContextOK'
  BY <1>1, <1>5, ContextKept DEF StepsOn
<1>10. ResultsSent'
  <2>1. \A i \in DOMAIN logs : logs[i].signature # Stake => logs[i].signature \in Attempt
    BY LogElements DEF MobileInv
  <2>2. LoggedWasSent'
    BY <1>1, <1>2, <2>1 DEF MobileInv, ResultsSent, LoggedWasSent
  <2>3. ASSUME NEW a \in Attempt, a \in store'.result \union events' PROVE sent'[a]["swap"] > 0
    BY <1>2, <1>5, <2>3 DEF MobileInv, ResultsSent
  <2> QED BY <2>2, <2>3 DEF ResultsSent
<1>11. DesktopOK'
  BY <1>1 DEF DesktopOK
<1> QED BY <1>2, <1>7, <1>8, <1>9, <1>10, <1>11 DEF MobileInv

-----------------------------------------------------------------------------
LEMMA DesktopStep ==
    ASSUME MobileInv, mode # "mobile", SwapNext, UNCHANGED mobileVars
    PROVE  MobileInv'
<1>1. SwapInv' /\ SwapTypeOK'
  BY SwapNextStep DEF MobileInv, SwapInv
<1>2. UNCHANGED <<left, view, store, phantom, sending, events, logs>>
  BY DEF mobileVars
<1>3. MobileTypeOK'
  BY <1>1, <1>2 DEF MobileInv, MobileTypeOK
<1>4. phantom = {} /\ sending = {} /\ events = {} /\ logs = <<>> /\ store = EmptyStore
  BY DEF MobileInv, DesktopOK
<1>5. WaitingOK' /\ ContextOK' /\ ResultsSent' /\ DesktopOK'
  BY <1>2, <1>4 DEF WaitingOK, ContextOK, ContextLoggedOnce, ResultsSent, LoggedWasSent,
                    DesktopOK, EmptyStore
<1> QED BY <1>1, <1>3, <1>5 DEF MobileInv

LEMMA PhoneStep ==
    ASSUME MobileInv, mode = "mobile", MobileNext
    PROVE  MobileInv'
<1>1. ASSUME NEW a \in Attempt,
             \/ MobileHandleSwap(a) \/ Prepare(a) \/ Leave(a) \/ Redirect(a) \/ MobileReport(a)
             \/ Settle(a, "swap") /\ UNCHANGED mobileVars
      PROVE  MobileInv'
  BY <1>1, MobileHandleSwapStep, PrepareStep, LeaveStep, RedirectStep, MobileReportStep,
     SettleQuiet
<1>2. ASSUME NEW s \in Signature, Submit(s) \/ Dispatch(s) PROVE MobileInv'
  BY <1>2, SubmitStep, DispatchStep
<1>3. CASE OnForm \/ StakeRedirect \/ Approve \/ ApproveLate \/ Reject
  BY <1>3, OnFormStep, StakeRedirectStep, AnswerStep, ApproveLateStep
<1>4. CASE PendingExpires \/ Navigate \/ Reload
  BY <1>4, PendingExpiresStep, NavigateStep, ReloadStep
<1> QED BY <1>1, <1>2, <1>3, <1>4 DEF MobileNext

LEMMA PageNextStep == MobileInv /\ [PageNext]_pageVars => MobileInv'
<1>1. ASSUME MobileInv, UNCHANGED pageVars PROVE MobileInv'
  <2>1. UNCHANGED <<mode, attempt, page, sent, chain, reports>>
        /\ UNCHANGED <<left, view, store, phantom, sending, events, logs>>
    BY <1>1 DEF pageVars, swapVars, mobileVars
  <2>2. page' \in Page
    BY <1>1, <2>1 DEF MobileInv, SwapInv, SwapTypeOK
  <2>3. SwapInv' /\ SwapTypeOK'
    BY <1>1, <2>1, <2>2, PageMoves DEF MobileInv, SwapInv
  <2> QED BY <1>1, <2>1, <2>3 DEF MobileInv, MobileTypeOK, WaitingOK, ContextOK,
             ContextLoggedOnce, ResultsSent, LoggedWasSent, DesktopOK
<1> QED BY <1>1, DesktopStep, PhoneStep DEF PageNext

LEMMA PageInvariant == PageSpec => []MobileInv
BY MobileInitInv, PageNextStep, PTL DEF PageSpec

-----------------------------------------------------------------------------
(* Every variable of the page, of its presses and of the phone keeps its   *)
(* type (handleSwap, executeSwap, PhantomMobileAdapter and its callback).  *)
THEOREM PageTypes == PageSpec => []MobileTypeOK
BY PageInvariant, PTL DEF MobileInv

(* executeSwap and the callback of the phone broadcast at most one swap    *)
(* and one fee transfer for a press of the button, however often a send is *)
(* retried, an answer lost or the page reloaded.                           *)
THEOREM PageOneOfEach == PageSpec => []OneOfEach
<1>1. MobileInv => OneOfEach
  BY SwapInvGives DEF MobileInv
<1> QED BY <1>1, PageInvariant, PTL

(* With two transactions executeSwap sends the swap only after its fee has *)
(* landed, whatever the number of retries and of presses under way.        *)
THEOREM PageFeeFirst == PageSpec => []FeeFirst
<1>1. MobileInv => FeeFirst
  BY SwapInvGives DEF MobileInv
<1> QED BY <1>1, PageInvariant, PTL

(* logMobileSwapToBackend reports a prepared swap at most once, whether    *)
(* its result comes from localStorage, as an event or both ways.           *)
THEOREM PageContextLoggedOnce == PageSpec => []ContextLoggedOnce
<1>1. MobileInv => ContextLoggedOnce
  BY DEF MobileInv, ContextOK
<1> QED BY <1>1, PageInvariant, PTL

(* The callback handler stores and announces a signature only after it has *)
(* sent the transaction: nothing else is ever reported.                    *)
THEOREM PageLoggedWasSent == PageSpec => []LoggedWasSent
<1>1. MobileInv => LoggedWasSent
  BY DEF MobileInv, ResultsSent
<1> QED BY <1>1, PageInvariant, PTL

-----------------------------------------------------------------------------
(* QuoteForm.                                                              *)
FormTypes ==
    /\ amount \in [Field -> Amount \union {Empty}] /\ lastEditedField \in Field
    /\ asked \in Nat /\ fetched \in Nat

(* A timer that runs with the flag reset stands for a change whose quote   *)
(* is still to be asked for.                                               *)
Due == debounce /\ ~isProgrammaticUpdate
CascadeInv ==
    /\ fetched <= asked
    /\ Due => fetched + 1 <= asked

(* While no change comes before the last one is dealt with: the one        *)
(* request that waits is for what is selected, and two full fields are     *)
(* quoted unless they wait for a quote.                                    *)
BothFull == \A f \in Field : amount[f] # Empty
Current(q) ==
    /\ q.field = lastEditedField /\ q.terms = terms
    /\ q.amount = amount[lastEditedField]
QuotedInv ==
    ~overtaken =>
        /\ debounce => waiting = {}
        /\ \A q \in waiting : waiting = {q} /\ Current(q)
        /\ waiting = {} /\ ~Due /\ BothFull => ShowsQuote

LEMMA OtherField ==
    /\ Other("input") = "output" /\ Other("output") = "input"
    /\ \A f \in Field : Other(f) \in Field /\ Other(f) # f
  BY DEF Other, Field

LEMMA FormTypesKept == FormTypes /\ [FormNext]_formVars => FormTypes'
<1> SUFFICES ASSUME FormTypes, [FormNext]_formVars PROVE FormTypes'
  OBVIOUS
<1> USE DEF FormTypes
<1>1. ASSUME NEW f \in Field, NEW v \in Amount \union {Empty}, handleChange(f, v) PROVE FormTypes'
  BY <1>1 DEF handleChange, AskAfresh, Ask
<1>2. ASSUME NEW f \in Field, NEW v \in Amount \union {Empty}, handleMaxClick(f, v) PROVE FormTypes'
  BY <1>2 DEF handleMaxClick, AskAfresh, Ask
<1>3. CASE handleSwapTokens
  BY <1>3, OtherField DEF handleSwapTokens, AskAfresh, Ask
<1>4. CASE handleRefreshQuote
  BY <1>4 DEF handleRefreshQuote, AskAfresh, Ask, fields
<1>5. CASE ChangeTerms
  BY <1>5 DEF ChangeTerms, AskUnmarked, Ask
<1>6. CASE ClearForm
  BY <1>6 DEF ClearForm, AskUnmarked, Ask
<1>7. CASE fetchQuote
  BY <1>7 DEF fetchQuote, Skip, ClearQuote, NothingToAsk, getQuote, fields, quoting
<1>8. ASSUME NEW q \in waiting, NEW v \in Amount, Quoted(q, v) PROVE FormTypes'
  BY <1>8 DEF Quoted, Answered, FillOther
<1>9. ASSUME NEW q \in waiting, NoRoute(q) PROVE FormTypes'
  BY <1>9 DEF NoRoute, Answered, FillOther
<1>10. CASE UNCHANGED formVars
  BY <1>10 DEF formVars
<1>11. CASE UserActs
  <2>1. amount["input"] \in Amount \union {Empty} /\ {"input", "output"} \subseteq Field
    BY DEF Field
  <2> QED
    BY <1>1, <1>2, <1>3, <1>4, <1>5, <1>6, <1>11, <2>1 DEF UserActs
<1> QED
  BY <1>7, <1>8, <1>9, <1>10, <1>11 DEF FormNext

LEMMA CascadeKept == FormTypes /\ CascadeInv /\ [FormNext]_formVars => CascadeInv'
<1> SUFFICES ASSUME FormTypes, CascadeInv, [FormNext]_formVars PROVE CascadeInv'
  OBVIOUS
<1> USE DEF FormTypes, CascadeInv, Due
<1>1. ASSUME Ask PROVE CascadeInv'
  BY <1>1 DEF Ask
<1>2. CASE UserActs
  BY <1>1, <1>2 DEF UserActs, handleChange, handleMaxClick, handleSwapTokens, ChangeTerms,
                    handleRefreshQuote, ClearForm, AskAfresh, AskUnmarked
<1>3. CASE fetchQuote
  BY <1>3 DEF fetchQuote, Skip, ClearQuote, NothingToAsk, getQuote, quoting
<1>4. ASSUME NEW q \in waiting, Answered(q), NEW v, FillOther(q, v) PROVE CascadeInv'
  BY <1>4 DEF Answered, FillOther
<1>5. CASE UNCHANGED formVars
  BY <1>5 DEF formVars
<1> QED
  BY <1>2, <1>3, <1>4, <1>5 DEF FormNext, Quoted, NoRoute

(* "prevent cascading quote fetches" (swap.tsx:2216), however many changes *)
(* there are and however the answers interleave with them.                 *)
THEOREM FormNoCascade == FormSpec => []NoCascade
<1>1. FormInit => FormTypes /\ CascadeInv
  BY DEF FormInit, FormTypes, CascadeInv, Due, Field
<1>2. CascadeInv => NoCascade
  BY DEF CascadeInv, NoCascade
<1> QED
  BY <1>1, <1>2, FormTypesKept, CascadeKept, PTL DEF FormSpec

-----------------------------------------------------------------------------
(* A change by the user or a timer.                                        *)
LEMMA AskedAlone ==
    ASSUME Ask, debounce' = TRUE, ~overtaken' => ~overtaken /\ Settled,
           ~isProgrammaticUpdate' \/ \A f \in Field : amount'[f] = Empty
    PROVE  QuotedInv'
<1>1. waiting' = waiting
  BY DEF Ask
<1>2. Due' \/ ~BothFull'
  BY DEF Due, BothFull, Field
<1> QED
  BY <1>1, <1>2 DEF QuotedInv, Settled

LEMMA UserKeepsQuoted ==
    ASSUME FormTypes, QuotedInv, UserActs
    PROVE  QuotedInv'
<1>1. ASSUME NEW f \in Field, NEW v \in Amount \union {Empty}, handleChange(f, v) PROVE QuotedInv'
  <2>1. v = Empty => \A g \in Field : amount'[g] = Empty
    BY <1>1 DEF handleChange
  <2> QED
    BY <1>1, <2>1, AskedAlone DEF handleChange, AskAfresh, EffectRuns
<1>2. ASSUME NEW f \in Field, NEW v \in Amount \union {Empty}, handleMaxClick(f, v) PROVE QuotedInv'
  <2>1. CASE v # amount[f] \/ f # lastEditedField
    BY <1>2, <2>1, AskedAlone DEF handleMaxClick, AskAfresh, EffectRunsIf, EffectRuns
  <2>2. CASE v = amount[f] /\ f = lastEditedField
    <3>1. /\ amount' = amount /\ lastEditedField' = lastEditedField
          /\ UNCHANGED <<terms, currentQuote, waiting, debounce>>
          /\ ~overtaken' => ~overtaken /\ Settled
      BY <1>2, <2>2 DEF handleMaxClick, AskAfresh, Ask, EffectRunsIf, FormTypes
    <3>2. BothFull' <=> BothFull
      BY <3>1 DEF BothFull
    <3>3. ShowsQuote' <=> ShowsQuote
      BY <3>1 DEF ShowsQuote
    <3> QED
      BY <3>1, <3>2, <3>3 DEF QuotedInv, Settled, Due
  <2> QED
    BY <2>1, <2>2
<1>3. CASE handleSwapTokens \/ handleRefreshQuote
  BY <1>3, AskedAlone DEF handleSwapTokens, handleRefreshQuote, AskAfresh, EffectRuns
<1>4. CASE ChangeTerms \/ ClearForm
  <2>1. /\ Ask /\ debounce' = TRUE /\ isProgrammaticUpdate' = isProgrammaticUpdate
        /\ ~overtaken' => ~overtaken /\ Settled /\ ~isProgrammaticUpdate
    BY <1>4 DEF ChangeTerms, ClearForm, AskUnmarked, EffectRuns
  <2>2. CASE overtaken'
    BY <2>2 DEF QuotedInv
  <2>3. CASE ~overtaken'
    BY <2>1, <2>3, AskedAlone
  <2> QED
    BY <2>2, <2>3
<1>5. amount["input"] \in Amount \union {Empty} /\ {"input", "output"} \subseteq Field
  BY DEF Field, FormTypes
<1> QED
  BY <1>1, <1>2, <1>3, <1>4, <1>5 DEF UserActs

LEMMA FetchKeepsQuoted ==
    ASSUME FormTypes, QuotedInv, fetchQuote
    PROVE  QuotedInv'
<1>1. debounce /\ ~debounce' /\ overtaken' = overtaken /\ ~Due'
  BY DEF fetchQuote, Due
<1>2. UNCHANGED <<amount, lastEditedField, terms>>
  BY DEF fetchQuote, Skip, ClearQuote, NothingToAsk, getQuote, fields
<1>3. BothFull' <=> BothFull
  BY <1>2 DEF BothFull
<1>4. CASE Skip
  <2>1. UNCHANGED <<waiting, currentQuote>> /\ ~Due
    BY <1>4 DEF Skip, quoting, Due
  <2>2. ShowsQuote' <=> ShowsQuote
    BY <1>2, <2>1 DEF ShowsQuote
  <2>3. \A q : Current(q)' <=> Current(q)
    BY <1>2 DEF Current
  <2> QED
    BY <1>1, <1>3, <2>1, <2>2, <2>3 DEF QuotedInv
<1>5. CASE ClearQuote \/ NothingToAsk
  <2>1. waiting' = waiting /\ ~BothFull
    BY <1>5, OtherField DEF ClearQuote, NothingToAsk, BothFull, Field, FormTypes
  <2> QED
    BY <1>1, <1>3, <2>1 DEF QuotedInv
<1>6. CASE getQuote
  <2> DEFINE q == [field |-> lastEditedField, terms |-> terms,
                   amount |-> amount[lastEditedField], nr |-> fetched + 1]
  <2>1. waiting' = waiting \union {q}
    BY <1>6 DEF getQuote
  <2>2. q.field = lastEditedField' /\ q.terms = terms' /\ q.amount = amount'[lastEditedField']
    BY <1>2
  <2> HIDE DEF q
  <2>3. ~overtaken => waiting' = {q}
    BY <1>1, <2>1 DEF QuotedInv
  <2> QED
    BY <1>1, <2>2, <2>3 DEF QuotedInv, Current
<1> QED
  BY <1>4, <1>5, <1>6 DEF fetchQuote

LEMMA AnswerKeepsQuoted ==
    ASSUME FormTypes, QuotedInv, NEW q \in waiting, Answered(q),
           NEW v \in Amount \union {Empty}, FillOther(q, v),
           v # Empty => currentQuote' = {[request |-> q, answer |-> v]}
    PROVE  QuotedInv'
<1>1. /\ UNCHANGED <<lastEditedField, terms, overtaken>> /\ ~Due'
      /\ waiting' = waiting \ {q} /\ amount' = [amount EXCEPT ![Other(q.field)] = v]
  BY DEF Answered, FillOther, Due
<1> SUFFICES ASSUME ~overtaken
             PROVE  waiting' = {} /\ (BothFull' => ShowsQuote')
  BY <1>1 DEF QuotedInv
<1>2. waiting = {q} /\ Current(q)
  BY DEF QuotedInv
<1>3. Other(q.field) \in Field /\ Other(q.field) # lastEditedField /\ lastEditedField \in Field
  BY <1>2, OtherField DEF Current, FormTypes
<1>4. amount'[Other(q.field)] = v /\ amount'[lastEditedField] = amount[lastEditedField]
  BY <1>1, <1>3 DEF FormTypes
<1>5. BothFull' => v # Empty
  BY <1>3, <1>4 DEF BothFull
<1>6. ASSUME v # Empty PROVE ShowsQuote'
  <2> DEFINE a == [request |-> q, answer |-> v]
  <2>1. a \in currentQuote' /\ a.request = q /\ a.answer = v
    BY <1>6
  <2> HIDE DEF a
  <2>2. Other(lastEditedField) = Other(q.field)
    BY <1>2 DEF Current
  <2> QED
    BY <1>1, <1>2, <1>4, <2>1, <2>2 DEF ShowsQuote, Current
<1> QED
  BY <1>1, <1>2, <1>5, <1>6

LEMMA QuotedKept == FormTypes /\ QuotedInv /\ [FormNext]_formVars => QuotedInv'
<1> SUFFICES ASSUME FormTypes, QuotedInv, [FormNext]_formVars PROVE QuotedInv'
  OBVIOUS
<1>1. ASSUME NEW q \in waiting, NEW v \in Amount, Quoted(q, v) PROVE QuotedInv'
  BY <1>1, AnswerKeepsQuoted DEF Quoted
<1>2. ASSUME NEW q \in waiting, NoRoute(q) PROVE QuotedInv'
  BY <1>2, AnswerKeepsQuoted DEF NoRoute
<1>3. CASE UNCHANGED formVars
  <2>1. UNCHANGED <<amount, lastEditedField, terms, isProgrammaticUpdate, debounce, waiting,
                    currentQuote, overtaken>>
    BY <1>3 DEF formVars
  <2> QED
    BY <2>1 DEF QuotedInv, Due, BothFull, Current, ShowsQuote
<1> QED
  BY <1>1, <1>2, <1>3, UserKeepsQuoted, FetchKeepsQuoted DEF FormNext

(* fetchQuote (swap.tsx:2132-2285) and its effect: when every change waits *)
(* for the form to settle and finds the flag reset, two full fields at     *)
(* rest show one quote for what is selected.                               *)
THEOREM FormSettledQuoted == FormSpec => []SettledFormQuoted
<1>1. FormInit => FormTypes /\ QuotedInv
  <2> SUFFICES ASSUME FormInit PROVE FormTypes /\ QuotedInv
    OBVIOUS
  <2>1. ~BothFull /\ waiting = {} /\ "input" \in Field
    BY DEF FormInit, BothFull, Field
  <2> QED
    BY <2>1 DEF FormInit, FormTypes, QuotedInv
<1>2. QuotedInv => SettledFormQuoted
  <2>1. AtRest => waiting = {} /\ ~Due /\ BothFull
    BY DEF AtRest, Settled, Due, BothFull
  <2> QED
    BY <2>1 DEF QuotedInv, SettledFormQuoted
<1> QED
  BY <1>1, <1>2, FormTypesKept, QuotedKept, PTL DEF FormSpec
=============================================================================
