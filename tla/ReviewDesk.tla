----------------------------- MODULE ReviewDesk -----------------------------
(***************************************************************************)
(* What community contributions promise, without requests, limits, caps or *)
(* days: a submission waits for one verdict, which is final; an approval   *)
(* owes the wallet its award, and what is owed is paid once and in full,   *)
(* or forfeited when a call fails.  The wallet is paid nothing else.       *)
(***************************************************************************)
EXTENDS Integers, Sequences

CONSTANT Points

VARIABLES desk, owed, paid

deskVars == <<desk, owed, paid>>

Waiting == [verdict |-> "pending", award |-> 0]

DeskInit ==
    /\ desk = [i \in 1 .. Len(desk) |-> Waiting]
    /\ owed = {} /\ paid = 0

Hand ==
    /\ desk' = Append(desk, Waiting)
    /\ UNCHANGED <<owed, paid>>

(* The awards owed from now on are set aside with the verdict.             *)
Decide(i, verdict, award, owing) ==
    /\ desk[i] = Waiting /\ owed = {}
    /\ desk' = [desk EXCEPT ![i] = [verdict |-> verdict, award |-> award]]
    /\ owed' = owing
    /\ UNCHANGED paid

Refuse(i) == Decide(i, "rejected", 0, {})
Accept(i, p) == Decide(i, "approved", p, {p})

Pay ==
    /\ \E p \in owed : paid' = paid + p
    /\ owed' = {}
    /\ UNCHANGED desk

Forfeit ==
    /\ owed # {} /\ owed' = {}
    /\ UNCHANGED <<desk, paid>>

DeskNext ==
    \/ Hand \/ Pay \/ Forfeit
    \/ \E i \in DOMAIN desk : Refuse(i) \/ \E p \in Points : Accept(i, p)

DeskSpec == DeskInit /\ [][DeskNext]_deskVars
=============================================================================
