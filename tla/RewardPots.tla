----------------------------- MODULE RewardPots -----------------------------
(***************************************************************************)
(* What the rewards side promises, without deadlines, admins, roots or     *)
(* accounts: a pot per epoch that opens once with a budget in it, pays     *)
(* each wallet at most once and never more than it holds, and is emptied   *)
(* when it ends.  Pots never touch each other.                             *)
(***************************************************************************)
EXTENDS Integers

CONSTANTS EpochId, Wallet

VARIABLES phase, pot, paid

potVars == <<phase, pot, paid>>

PotInit ==
    /\ phase = [e \in EpochId |-> "None"]
    /\ pot = [e \in EpochId |-> 0]
    /\ paid = [e \in EpochId |-> [w \in Wallet |-> 0]]

MovePhase(e, from, to) ==
    phase[e] = from /\ phase' = [phase EXCEPT ![e] = to]

Announce(e) ==
    /\ MovePhase(e, "None", "Pending")
    /\ UNCHANGED <<pot, paid>>

Open(e, budget) ==
    /\ MovePhase(e, "Pending", "Active")
    /\ budget > 0
    /\ pot' = [pot EXCEPT ![e] = @ + budget]
    /\ UNCHANGED paid

(* Anybody may add to a pot, also before it opens and after it ends.       *)
Gift(e, amount) ==
    /\ phase[e] # "None"
    /\ amount >= 0
    /\ pot' = [pot EXCEPT ![e] = @ + amount]
    /\ UNCHANGED <<phase, paid>>

Pay(e, w, amount) ==
    /\ phase[e] = "Active"
    /\ paid[e][w] = 0
    /\ 0 < amount /\ amount <= pot[e]
    /\ paid' = [paid EXCEPT ![e][w] = amount]
    /\ pot' = [pot EXCEPT ![e] = @ - amount]
    /\ UNCHANGED phase

Finish(e) ==
    /\ MovePhase(e, "Active", "Closed")
    /\ pot' = [pot EXCEPT ![e] = 0]
    /\ UNCHANGED paid

(* The amounts are read off the step, so that no set of them is needed.    *)
PotNext ==
    \E e \in EpochId :
        \/ Announce(e)
        \/ Open(e, pot'[e] - pot[e])
        \/ Gift(e, pot'[e] - pot[e])
        \/ \E w \in Wallet : Pay(e, w, pot[e] - pot'[e])
        \/ Finish(e)

PotSpec == PotInit /\ [][PotNext]_potVars
=============================================================================
