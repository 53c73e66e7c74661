----------------------------- MODULE MobileSwap -----------------------------
(* The swap page in a phone's browser, where the wallet is another app:    *)
(* PhantomMobileAdapter leaves the page with a deep link, so that nothing  *)
(* of executeSwap survives but what localStorage keeps; when the user      *)
(* comes back the page loads anew, PhantomMobileCallbackHandler sends what *)
(* was signed, and the swap page reports it.  The staking page signs       *)
(* through the same adapter and the same callback.  The steps before the   *)
(* wallet are those of SwapExecution.                                      *)
EXTENDS SwapExecution, Sequences

Stake == 0                       \* the signature of a staking transaction
Signature == Attempt \union {Stake}
AtMostOne(S) == {{}} \union {{s} : s \in S}

VARIABLES
    left,     \* presses whose handleSwap returned at the redirect sentinel
    view,     \* the route that is mounted
    store,    \* localStorage: phantom_mobile_swap_context and _swap_result,
              \* and whether a pending operation is recorded
    phantom,  \* what the wallet app asks the user to sign
    sending,  \* signed transactions in sendRawTransaction
    events,   \* phantom-mobile-tx-result events in their 100 ms delay
    logs      \* the mobile swaps reported, in order: a signature with a context

mobileVars == <<left, view, store, phantom, sending, events, logs>>
pageVars == <<swapVars, mobileVars>>

Store == [context : AtMostOne(Attempt), result : AtMostOne(Signature), pending : BOOLEAN]
EmptyStore == [context |-> {}, result |-> {}, pending |-> FALSE]

MobileInit ==
    /\ left = {} /\ view = "swap" /\ store = EmptyStore
    /\ phantom = {} /\ sending = {} /\ events = {} /\ logs = <<>>

External == <<phantom, sending, events>>

(* Without a context nothing is reported. *)
Logged(S, C) ==
    IF S = {} \/ C = {} THEN UNCHANGED logs
    ELSE \E s \in S, c \in C : logs' = Append(logs, [signature |-> s, context |-> c])

(* Mutant: the context is read and left where it is. *)
LogKeepingContext(S, st) == Logged(S, st.context) /\ store' = st

(* logMobileSwapToBackend for the signature in S, if there is one: the     *)
(* context is taken away before it is used.  st is localStorage as the     *)
(* caller leaves it.                                                       *)
LogMobileSwap(S, st) ==
    /\ Logged(S, st.context)
    /\ store' = [st EXCEPT !.context = IF S = {} THEN @ ELSE {}]

ShowResult(S, p) ==
    page' = IF S = {} THEN p ELSE [p EXCEPT !.status = "CONFIRMED", !.modal = TRUE, !.loading = FALSE]

(* A route is mounted: the swap page takes a stored result away and        *)
(* reports it.                                                             *)
Mount(v, st) ==
    LET stored == IF v = "swap" THEN st.result ELSE {} IN
    /\ view' = v
    /\ ShowResult(stored, FreshPage)
    /\ LogMobileSwap(stored, [st EXCEPT !.result = @ \ stored])

(* A document is unloaded: its promises and timers are gone. *)
Unload ==
    /\ attempt' = [a \in Attempt |->
          IF At(a, "new") THEN attempt[a] ELSE [attempt[a] EXCEPT !.step = "over"]]
    /\ left' = {} /\ events' = {}

-----------------------------------------------------------------------------
(* The context is stored in the tick that starts executeSwap. *)
MobileHandleSwap(a) ==
    /\ view = "swap" /\ HandleSwap(a)
    /\ store' = [store EXCEPT !.context = {a}]
    /\ UNCHANGED <<left, view, External, logs>>

OnForm == (FillForm \/ CloseModal) /\ view = "swap" /\ UNCHANGED mobileVars

Prepare(a) == (GetQuote(a) \/ Build(a)) /\ UNCHANGED mobileVars

(* The page is hidden, or 60 seconds pass: handleSwap returns without a    *)
(* report; executeSwap goes on.                                            *)
Leave(a) ==
    /\ Running(a) /\ a \notin left
    /\ left' = left \union {a}
    /\ page' = [page EXCEPT !.loading = FALSE]
    /\ UNCHANGED <<mode, attempt, OnChain, reports, view, store, External, logs>>

(* sendTransaction of the mobile adapter: its promise never resolves, and  *)
(* the page is hidden.  Without a session it throws.                       *)
Redirect(a) ==
    /\ At(a, "send swap")
    /\ \/ /\ store' = [store EXCEPT !.pending = TRUE]
          /\ phantom' = {a}
          /\ GoTo(a, "over")
          /\ left' = left \union {b \in Attempt : Running(b)}
          /\ page' = [page EXCEPT !.loading = FALSE]
       \/ Fail(a) /\ UNCHANGED <<left, store, phantom>>
    /\ UNCHANGED <<mode, OnChain, reports, view, sending, events, logs>>

(* A failure after handleSwap returned is shown and not reported. *)
MobileReport(a) ==
    /\ \/ a \notin left /\ ReportFailure(a)
       \/ a \in left /\ At(a, "failed") /\ GoTo(a, "over")
             /\ UNCHANGED <<mode, page, OnChain, reports>>
    /\ UNCHANGED mobileVars

(* The staking page asks for a signature. *)
StakeRedirect ==
    /\ view = "stake"
    /\ store' = [store EXCEPT !.pending = TRUE]
    /\ phantom' = {Stake}
    /\ UNCHANGED <<swapVars, left, view, sending, events, logs>>

Route(s) == IF s = Stake THEN "stake" ELSE "swap"

(* The user signs, and the app returns to the page it came from; what was  *)
(* signed is sent from there.                                              *)
Approve ==
    /\ store.pending
    /\ \E s \in phantom : Mount(Route(s), [store EXCEPT !.pending = FALSE])
    /\ sending' = phantom /\ phantom' = {}
    /\ Unload
    /\ UNCHANGED <<mode, OnChain, reports>>

(* The answer is taken for one of signAndSendTransaction when the pending  *)
(* operation has expired: a result without a signature is stored, and      *)
(* formatting the missing signature throws in an effect, which unmounts    *)
(* the app.                                                                *)
ApproveLate ==
    /\ ~store.pending /\ phantom # {}
    /\ view' = "blank" /\ page' = FreshPage
    /\ store' = [store EXCEPT !.result = {}]
    /\ sending' = {} /\ phantom' = {}
    /\ Unload
    /\ UNCHANGED <<mode, OnChain, reports, logs>>

(* The error callback clears the pending operation only. *)
Reject ==
    /\ \E s \in phantom : Mount(Route(s), [store EXCEPT !.pending = FALSE])
    /\ phantom' = {} /\ sending' = {}
    /\ Unload
    /\ UNCHANGED <<mode, OnChain, reports>>

(* Five minutes after the redirect. *)
PendingExpires ==
    /\ store.pending
    /\ store' = [store EXCEPT !.pending = FALSE]
    /\ UNCHANGED <<swapVars, left, view, External, logs>>

Handed(s) == IF s = Stake THEN UNCHANGED OnChain ELSE Broadcast(s, "swap")

(* Mutant: the result is stored before the transaction is sent. *)
SubmitStoringFirst(s) ==
    /\ s \in sending /\ sending' = sending \ {s}
    /\ Handed(s) \/ UNCHANGED OnChain
    /\ store' = [store EXCEPT !.result = {s}]
    /\ events' = events \union {s}
    /\ UNCHANGED <<mode, attempt, page, reports, left, view, phantom, logs>>

(* sendRawTransaction fails, or its answer is lost, or the signature is    *)
(* stored (which may fail unnoticed) and an event scheduled.               *)
Submit(s) ==
    /\ s \in sending /\ sending' = sending \ {s}
    /\ \/ UNCHANGED <<OnChain, store, events>>
       \/ Handed(s) /\ UNCHANGED <<store, events>>
       \/ /\ Handed(s)
          /\ store' \in {store, [store EXCEPT !.result = {s}]}
          /\ events' = events \union {s}
    /\ UNCHANGED <<mode, attempt, page, reports, left, view, phantom, logs>>

(* The event finds the listener of a mounted swap page, or nobody. *)
Dispatch(s) ==
    /\ s \in events
    /\ events' = events \ {s}
    /\ IF view = "swap"
         THEN ShowResult({s}, page) /\ LogMobileSwap({s}, store)
         ELSE UNCHANGED <<page, logs, store>>
    /\ UNCHANGED <<mode, attempt, OnChain, reports, left, view, phantom, sending>>

(* The user goes to the other page of the app (bound: not while a press is *)
(* under way), or reloads this one.                                        *)
Navigate ==
    /\ view # "blank" /\ \A a \in Attempt : attempt[a].step \in {"new", "over"}
    /\ \E v \in {"swap", "stake"} \ {view} : Mount(v, store)
    /\ UNCHANGED <<mode, attempt, OnChain, reports, left, External>>

Reload ==
    /\ \E v \in {"swap", "stake"} : view \in {v, "blank"} /\ Mount(v, store)
    /\ Unload /\ sending' = {}
    /\ UNCHANGED <<mode, OnChain, reports, phantom>>

-----------------------------------------------------------------------------
MobileNext ==
    \/ OnForm \/ StakeRedirect \/ Approve \/ ApproveLate \/ Reject
    \/ PendingExpires \/ Navigate \/ Reload
    \/ \E a \in Attempt : \/ MobileHandleSwap(a) \/ Prepare(a) \/ Leave(a)
                          \/ Redirect(a) \/ MobileReport(a)
                          \/ Settle(a, "swap") /\ UNCHANGED mobileVars
    \/ \E s \in Signature : Submit(s) \/ Dispatch(s)

(* The page on a desktop or on a phone. *)
PageInit == SwapInit /\ MobileInit
PageNext ==
    \/ mode # "mobile" /\ SwapNext /\ UNCHANGED mobileVars
    \/ mode = "mobile" /\ MobileNext

PageSpec ==
    /\ PageInit /\ [][PageNext]_pageVars
    /\ \A a \in Attempt : WF_pageVars(mode # "mobile" /\ Proceed(a) /\ UNCHANGED mobileVars)

-----------------------------------------------------------------------------
(* Properties *)

MobileTypeOK ==
    /\ SwapTypeOK
    /\ left \subseteq Attempt
    /\ view \in {"swap", "stake", "blank"}
    /\ store \in Store
    /\ phantom \in AtMostOne(Signature)
    /\ sending \in AtMostOne(Signature)
    /\ events \subseteq Signature
    /\ logs \in Seq([signature : Signature, context : Attempt])

(* However a result comes back, stored, as an event or both, and however   *)
(* often, the swap the user prepared is reported at most once: no two      *)
(* reports carry its context, not even under one signature.                *)
ContextLoggedOnce ==
    \A i, j \in DOMAIN logs : logs[i].context = logs[j].context => i = j

(* "When user returns from Phantom, log the swap ... so points are awarded *)
(* (same as desktop flow)" (swap.tsx:1638): what is logged under a         *)
(* signature is the swap that was signed.                                  *)
OwnSignature == \A i \in DOMAIN logs : logs[i].signature = logs[i].context

(* A reported mobile swap has been handed to the chain. *)
LoggedWasSent ==
    \A i \in DOMAIN logs :
        logs[i].signature # Stake => sent[logs[i].signature]["swap"] > 0
=============================================================================
