----------------------------- MODULE QuoteForm -----------------------------
(* The swap form (swap.tsx): the user fills in one amount, an effect asks  *)
(* for a quote half a second later and the answer fills in the other       *)
(* amount.  That changes what the effect depends on, so it runs again; a   *)
(* flag tells it that the change was its own.  Requests are not cancelled  *)
(* and may be answered in any order.                                       *)
EXTENDS Naturals, FiniteSets

CONSTANTS
    Amount,      \* amounts of either token
    Terms,       \* the tokens, the slippage and the token list
    MaxAsked     \* bound: changes by the user, and refreshes

ASSUME FormAssumption ==
    /\ Amount \subseteq Nat \ {0} /\ Amount # {} /\ Terms # {} /\ MaxAsked \in Nat

Field == {"input", "output"}
Other(f) == CHOOSE g \in Field : g # f
Empty == 0

VARIABLES
    amount,                \* what the two fields hold
    lastEditedField,
    terms,
    isProgrammaticUpdate,  \* the flag
    debounce,              \* the effect's timer runs
    autoRefresh,           \* the timer of 30 seconds runs
    waiting,               \* getQuote calls not answered yet
    currentQuote,          \* the last answer, with what was asked; or none
    isLoadingQuote,
    asked,                 \* history: changes the user made, and refreshes
    fetched,               \* history: quotes asked for
    overtaken              \* history: a change came before an earlier one was
                           \* dealt with, or with the flag set and left so

formVars == <<amount, lastEditedField, terms, isProgrammaticUpdate, debounce, autoRefresh,
              waiting, currentQuote, isLoadingQuote, asked, fetched, overtaken>>
fields == <<amount, lastEditedField, terms>>
quoting == <<waiting, currentQuote, isLoadingQuote, fetched>>

FormInit ==
    /\ amount = [f \in Field |-> Empty]
    /\ lastEditedField = "input"
    /\ terms \in Terms
    /\ isProgrammaticUpdate = FALSE
    /\ debounce = FALSE /\ autoRefresh = FALSE
    /\ waiting = {} /\ currentQuote = {} /\ isLoadingQuote = FALSE
    /\ asked = 0 /\ fetched = 0 /\ overtaken = FALSE

(* The effect runs again when something it depends on has changed: its     *)
(* cleanup stops both timers.                                              *)
EffectRuns == debounce' = TRUE /\ autoRefresh' = FALSE
EffectRunsIf(changed) ==
    IF changed THEN EffectRuns ELSE UNCHANGED <<debounce, autoRefresh>>

Settled == ~debounce /\ waiting = {}

(* The user acts, or a timer does for him. *)
Ask ==
    /\ asked < MaxAsked
    /\ asked' = asked + 1
    /\ UNCHANGED <<waiting, isLoadingQuote, fetched>>

(* He changes an amount: the flag is reset. *)
AskAfresh ==
    /\ Ask
    /\ overtaken' = (overtaken \/ ~Settled)

(* He changes something else: the flag stays as it is, so when it is still *)
(* set the change counts as the effect's own.                              *)
AskUnmarked ==
    /\ Ask
    /\ overtaken' = (overtaken \/ ~Settled \/ isProgrammaticUpdate)
    /\ UNCHANGED isProgrammaticUpdate

-----------------------------------------------------------------------------
(* handleInputChange; handleOutputChange for the other field, which is not *)
(* shown while a quote is asked for.                                       *)
handleChange(f, v) ==
    /\ AskAfresh /\ v # amount[f]
    /\ f = "input" \/ ~isLoadingQuote \/ amount[lastEditedField] = Empty
    /\ isProgrammaticUpdate' = (v = Empty)
    /\ amount' = [g \in Field |-> IF g = f THEN v ELSE IF v = Empty THEN Empty ELSE amount[g]]
    /\ lastEditedField' = f
    /\ EffectRuns
    /\ UNCHANGED <<terms, currentQuote>>

(* Mutant: the flag is not reset. *)
MaxClickUnmarked(f, v) ==
    /\ AskAfresh /\ ~isLoadingQuote
    /\ amount' = [amount EXCEPT ![f] = v]
    /\ lastEditedField' = f
    /\ EffectRunsIf(v # amount[f] \/ f # lastEditedField)
    /\ UNCHANGED <<terms, currentQuote, isProgrammaticUpdate>>

(* The button of each field that fills in the balance: the second field    *)
(* has it while it is the edited one; the first is left alone at balance 0 *)
handleMaxClick(f, v) ==
    /\ AskAfresh /\ ~isLoadingQuote
    /\ f = "output" => lastEditedField = "output" /\ amount["output"] # Empty
    /\ isProgrammaticUpdate' = FALSE
    /\ amount' = [amount EXCEPT ![f] = v]
    /\ lastEditedField' = f
    /\ EffectRunsIf(v # amount[f] \/ f # lastEditedField)
    /\ UNCHANGED <<terms, currentQuote>>

(* Both tokens and both amounts change places; the edited field does not. *)
handleSwapTokens ==
    /\ AskAfresh
    /\ isProgrammaticUpdate' = FALSE
    /\ terms' \in Terms \ {terms}
    /\ amount' = [f \in Field |-> amount[Other(f)]]
    /\ EffectRuns
    /\ UNCHANGED <<lastEditedField, currentQuote>>

(* handleRefreshQuote, by its button or by the timer. *)
handleRefreshQuote ==
    /\ AskAfresh
    /\ \/ autoRefresh
       \/ ~isLoadingQuote /\ currentQuote # {} /\ \A f \in Field : amount[f] # Empty
    /\ isProgrammaticUpdate' = FALSE
    /\ EffectRuns
    /\ UNCHANGED <<fields, currentQuote>>

(* Another token or slippage is chosen, or the token list arrives. *)
ChangeTerms ==
    /\ AskUnmarked
    /\ terms' \in Terms \ {terms}
    /\ EffectRuns
    /\ UNCHANGED <<amount, lastEditedField, currentQuote>>

(* A swap, which needs a quote to begin, has succeeded. *)
ClearForm ==
    /\ AskUnmarked /\ fetched > 0
    /\ amount' = [f \in Field |-> Empty]
    /\ currentQuote' = {}
    /\ EffectRuns
    /\ UNCHANGED <<lastEditedField, terms>>

-----------------------------------------------------------------------------
(* fetchQuote up to its await. *)
Skip ==
    /\ isProgrammaticUpdate /\ isProgrammaticUpdate' = FALSE
    /\ UNCHANGED <<fields, autoRefresh, quoting>>

ClearQuote ==
    /\ ~isProgrammaticUpdate /\ \A f \in Field : amount[f] = Empty
    /\ currentQuote' = {} /\ autoRefresh' = FALSE
    /\ UNCHANGED <<fields, isProgrammaticUpdate, waiting, isLoadingQuote, fetched>>

(* Only the field that was not edited last holds an amount. *)
NothingToAsk ==
    /\ ~isProgrammaticUpdate
    /\ amount[lastEditedField] = Empty /\ amount[Other(lastEditedField)] # Empty
    /\ autoRefresh' = TRUE /\ isLoadingQuote' = FALSE
    /\ UNCHANGED <<fields, isProgrammaticUpdate, waiting, currentQuote, fetched>>

getQuote ==
    /\ ~isProgrammaticUpdate /\ amount[lastEditedField] # Empty
    /\ waiting' = waiting \union {[field |-> lastEditedField, terms |-> terms,
                                   amount |-> amount[lastEditedField], nr |-> fetched + 1]}
    /\ fetched' = fetched + 1 /\ isLoadingQuote' = TRUE
    /\ UNCHANGED <<fields, isProgrammaticUpdate, autoRefresh, currentQuote>>

fetchQuote ==
    /\ debounce /\ debounce' = FALSE
    /\ Skip \/ ClearQuote \/ NothingToAsk \/ getQuote
    /\ UNCHANGED <<asked, overtaken>>

-----------------------------------------------------------------------------
(* Mutant: the change is not marked as the effect's own. *)
FillOtherUnmarked(q, v) ==
    /\ amount' = [amount EXCEPT ![Other(q.field)] = v]
    /\ UNCHANGED isProgrammaticUpdate

(* The rest of fetchQuote: the answer to q fills in the other field, or an *)
(* error empties it.                                                       *)
FillOther(q, v) ==
    /\ amount' = [amount EXCEPT ![Other(q.field)] = v]
    /\ isProgrammaticUpdate' = TRUE

Answered(q) ==
    /\ waiting' = waiting \ {q}
    /\ isLoadingQuote' = FALSE
    /\ UNCHANGED <<lastEditedField, terms, asked, fetched, overtaken>>

(* The timer is set and, if the other field changes, stopped again. *)
Quoted(q, v) ==
    /\ q \in waiting /\ Answered(q)
    /\ FillOther(q, v)
    /\ currentQuote' = {[request |-> q, answer |-> v]}
    /\ IF v # amount[Other(q.field)] THEN EffectRuns ELSE autoRefresh' = TRUE /\ UNCHANGED debounce

NoRoute(q) ==
    /\ q \in waiting /\ Answered(q)
    /\ FillOther(q, Empty)
    /\ currentQuote' = {}
    /\ EffectRunsIf(amount[Other(q.field)] # Empty)

UserActs ==
    \/ \E f \in Field, v \in Amount \union {Empty} : handleChange(f, v)
    \/ \E v \in Amount \union {amount["input"]} : handleMaxClick("input", v)
    \/ \E v \in Amount : handleMaxClick("output", v)
    \/ handleSwapTokens \/ ChangeTerms \/ handleRefreshQuote \/ ClearForm

FormNext ==
    \/ UserActs \/ fetchQuote
    \/ \E q \in waiting : NoRoute(q) \/ \E v \in Amount : Quoted(q, v)

FormSpec == FormInit /\ [][FormNext]_formVars

-----------------------------------------------------------------------------
(* Properties *)

(* "prevent cascading quote fetches" (swap.tsx:2216): however answers and  *)
(* changes interleave, no more quotes are asked for than changes made.     *)
NoCascade == fetched <= asked

(* What two full fields show at rest is a quote.  *)
ShowsQuote ==
    \E q \in currentQuote :
        /\ q.request.field = lastEditedField /\ q.request.terms = terms
        /\ q.request.amount = amount[lastEditedField]
        /\ q.answer = amount[Other(lastEditedField)]

AtRest == Settled /\ \A f \in Field : amount[f] # Empty

(* When every change waits for the form to settle, and those that leave the *)
(* flag alone find it reset, two full fields at rest always show one quote  *)
(* for what is selected (fetchQuote, swap.tsx:2132-2285).                   *)
SettledFormQuoted == AtRest /\ ~overtaken => ShowsQuote

(* The same without waiting: what the code does not achieve.  The answer to *)
(* an earlier request sets the flag and restarts the timer of the later     *)
(* change, which is then skipped as if it were the effect's own.            *)
AlwaysQuoted == AtRest => ShowsQuote
=============================================================================
