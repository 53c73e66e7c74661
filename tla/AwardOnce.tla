----------------------------- MODULE AwardOnce -----------------------------
(***************************************************************************)
(* What the daily distribution promises, without replicas, runs or tables: *)
(* the award of a wallet and a day is open until it is recorded, and only  *)
(* a recorded award is paid, once.  An award that could not be computed is *)
(* given up.  Awards of one day are settled together or apart.             *)
(***************************************************************************)
CONSTANTS Wallet, Day

VARIABLE award

AwardInit == award = [w \in Wallet |-> [d \in Day |-> "open"]]

Settle(d, from, to) ==
    \E S \in SUBSET Wallet :
        /\ \A w \in S : award[w][d] = from
        /\ award' = [w \in Wallet |->
                        IF w \in S THEN [award[w] EXCEPT ![d] = to] ELSE award[w]]

Record(d) == Settle(d, "open", "recorded")
GiveUp(d) == Settle(d, "open", "given up")
Pay(d) == Settle(d, "recorded", "paid")

AwardNext == \E d \in Day : Record(d) \/ GiveUp(d) \/ Pay(d)

AwardSpec == AwardInit /\ [][AwardNext]_award
=============================================================================
