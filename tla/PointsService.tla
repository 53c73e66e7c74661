---------------------------- MODULE PointsService ----------------------------
(* points.service.ts for one wallet: logSwapCompletion and                  *)
(* awardCommunityPoints on any number of replicas, the two scheduled resets *)
(* and, from KnsDistribution, the daily UPDATE of the KNS points; and what  *)
(* the approval of a contribution does to the same row (its submission is   *)
(* the matter of Contributions).  A swap is logged when its client asks for *)
(* it, again after an error or from a second tab; the input of LogSwap is a *)
(* swap the chain has confirmed to be the wallet's.  Every await is the end *)
(* of a step.                                                               *)
EXTENDS PointsLedger, FiniteSets, Functions

CONSTANTS
    Signature,                   \* swaps of the wallet
    Cents,                       \* the verified value of each in cents
    Confirmed,                   \* those that did not fail on chain
    SWAP_POINTS_MIN_CENTS,
    SWAP_POINTS_DAILY_CAP,
    COMMUNITY_POINTS_WEEKLY_CAP,
    CommunityPoints,             \* awards an administrator may ask for
    ContributionPoints,          \* points a contribution may be approved with
    KnsPoints                    \* daily points of the wallet's tier

ASSUME ServiceAssumption ==
    /\ Signature # {}
    /\ Cents \in [Signature -> Nat]
    /\ Confirmed \subseteq Signature
    /\ SWAP_POINTS_MIN_CENTS \in Nat
    /\ SWAP_POINTS_DAILY_CAP \in Nat
    /\ COMMUNITY_POINTS_WEEKLY_CAP \in Nat
    /\ CommunityPoints \subseteq Nat \ {0}
    /\ ContributionPoints \subseteq Nat \ {0}
    /\ KnsPoints \subseteq Nat \ {0}

(* Up to any state only finitely many requests have been made and swaps    *)
(* logged; sums over them are what they are meant to be.                   *)
ASSUME FinitelyMany == IsFiniteSet(Call) /\ IsFiniteSet(Signature)

VARIABLES
    request,  \* the requests: where they are, the swap they log, what the
              \* SELECT found of it, the points they are about to add
    swaps,    \* swap_transactions; pointsAwarded says points > 0
    clock,    \* the minute in which a scheduled job may run, or neither
    knsPaid   \* how often the distribution credited the wallet

timeVars == <<clock, knsPaid>>
pointsVars == <<ledgerVars, request, swaps, timeVars>>

Step == {"new", "find", "store", "quota", "add", "stats", "flag",
         "check", "grant", "review", "credit", "over"}
Clock == {"00:00", "day", "23:59"}
Swap == [stored : BOOLEAN, points : Nat]
NoSwap == [stored |-> FALSE, points |-> 0]
JustStored == [stored |-> TRUE, points |-> 0]
Request == [step : Step, sig : Signature, seen : Swap, want : Nat]
Idle(step) == [step |-> step, sig |-> CHOOSE s \in Signature : TRUE,
               seen |-> NoSwap, want |-> 0]

PointsInit ==
    /\ LedgerInit
    /\ request = [c \in Call |-> Idle("new")]
    /\ swaps = [s \in Signature |-> NoSwap]
    /\ clock = "00:00"
    /\ knsPaid = 0

At(c, step) == request[c].step = step
Quiet == \A c \in Call : request[c].step \in {"new", "over"}

Lesser(m, n) == IF m < n THEN m ELSE n
Goto(c, step) == request' = [request EXCEPT ![c].step = step]
End(c) ==
    /\ request' = [request EXCEPT ![c] = Idle("over")]
    /\ Leave(c)

-----------------------------------------------------------------------------
(* POST swaps/log.                                                          *)
LogSwap(c) ==
    /\ At(c, "new")
    /\ \E s \in Signature :
          request' = [request EXCEPT ![c].step = "find", ![c].sig = s]
    /\ UNCHANGED <<ledgerVars, swaps, timeVars>>

(* save, given the primary key, first selects the row.                      *)
FindSwap(c) ==
    /\ At(c, "find")
    /\ request' = [request EXCEPT ![c].step = "store",
                                  ![c].seen = swaps[request[c].sig]]
    /\ UNCHANGED <<ledgerVars, swaps, timeVars>>

calculateSwapPoints(s) ==
    IF Cents[s] < SWAP_POINTS_MIN_CENTS THEN 0 ELSE Cents[s] \div 100

Eligible(s) ==
    /\ s \in Confirmed
    /\ Cents[s] >= SWAP_POINTS_MIN_CENTS
    /\ calculateSwapPoints(s) > 0

(* A row found is updated in the columns that differ from the fresh record: *)
(* an award it shows is reset to none.                                      *)
StoreRow(c) ==
    swaps' = [swaps EXCEPT ![request[c].sig] =
                 IF request[c].seen = JustStored THEN @ ELSE JustStored]

StoreSwap(c) ==
    /\ At(c, "store")
    /\ request[c].seen.stored = swaps[request[c].sig].stored
    /\ StoreRow(c)
    /\ \/ /\ Eligible(request[c].sig)
          /\ Goto(c, "quota")
          /\ GetOrCreate(c)
       \/ /\ ~Eligible(request[c].sig)
          /\ End(c)
    /\ UNCHANGED <<day, rows, due, timeVars>>

(* A row stored since the SELECT has the primary key of the INSERT.         *)
StoreConflict(c) ==
    /\ At(c, "store")
    /\ request[c].seen.stored # swaps[request[c].sig].stored
    /\ End(c)
    /\ UNCHANGED <<day, rows, due, swaps, timeVars>>

CanAward(c) ==
    Lesser(calculateSwapPoints(request[c].sig),
           SWAP_POINTS_DAILY_CAP - access[c].record.swapPointsToday)

WillAward(c, n) ==
    /\ request' = [request EXCEPT ![c].step = "add", ![c].want = n]
    /\ Add(c, SwapGain(n))

(* Mutant: the flag is set before the points are added. *)
QuotaFlagsFirst(c) ==
    /\ At(c, "quota")
    /\ Returned(c)
    /\ CanAward(c) > 0
    /\ WillAward(c, CanAward(c))
    /\ swaps' = [swaps EXCEPT ![request[c].sig].points = CanAward(c)]
    /\ UNCHANGED <<day, rows, due, timeVars>>

Quota(c) ==
    /\ At(c, "quota")
    /\ Returned(c)
    /\ \/ /\ CanAward(c) > 0
          /\ WillAward(c, CanAward(c))
       \/ /\ CanAward(c) <= 0
          /\ End(c)
    /\ UNCHANGED <<day, rows, due, swaps, timeVars>>

Added(c) ==
    /\ At(c, "add")
    /\ Returned(c)
    /\ Goto(c, "stats")
    /\ Add(c, StatsGain)
    /\ UNCHANGED <<day, rows, due, swaps, timeVars>>

Counted(c) ==
    /\ At(c, "stats")
    /\ Returned(c)
    /\ Goto(c, "flag")
    /\ Leave(c)
    /\ UNCHANGED <<day, rows, due, swaps, timeVars>>

updatePointsAwarded(c) ==
    /\ At(c, "flag")
    /\ End(c)
    /\ swaps' = [swaps EXCEPT ![request[c].sig].points = request[c].want]
    /\ UNCHANGED <<day, rows, due, timeVars>>

-----------------------------------------------------------------------------
(* POST points/award by an administrator.                                   *)
AwardCommunity(c) ==
    /\ At(c, "new")
    /\ \E p \in CommunityPoints :
          request' = [request EXCEPT ![c].step = "check", ![c].want = p]
    /\ GetOrCreate(c)
    /\ UNCHANGED <<day, rows, due, swaps, timeVars>>

(* Mutant: what was awarded this week is not counted. *)
AwardUnderWeeklyCap(c) == request[c].want <= COMMUNITY_POINTS_WEEKLY_CAP

UnderWeeklyCap(c) ==
    access[c].record.communityPointsThisWeek + request[c].want
      <= COMMUNITY_POINTS_WEEKLY_CAP

Check(c) ==
    /\ At(c, "check")
    /\ Returned(c)
    /\ \/ /\ UnderWeeklyCap(c)
          /\ Goto(c, "grant")
          /\ Add(c, CommunityGain(request[c].want))
       \/ /\ ~UnderWeeklyCap(c)
          /\ End(c)
    /\ UNCHANGED <<day, rows, due, swaps, timeVars>>

(* POST admin/contributions/:id/approve: the row is read for the share of   *)
(* community points, and created if there is none.                          *)
Approve(c) ==
    /\ At(c, "new")
    /\ \E p \in ContributionPoints :
          request' = [request EXCEPT ![c].step = "review", ![c].want = p]
    /\ GetOrCreate(c)
    /\ UNCHANGED <<day, rows, due, swaps, timeVars>>

(* The caps of Contributions allow the points or not.  They count approved  *)
(* submissions; communityPointsThisWeek is added to and not looked at.      *)
Approved(c) ==
    /\ At(c, "review")
    /\ Returned(c)
    /\ \/ /\ Goto(c, "credit")
          /\ Add(c, CommunityGain(request[c].want))
       \/ End(c)
    /\ UNCHANGED <<day, rows, due, swaps, timeVars>>

Granted(c) ==
    /\ request[c].step \in {"grant", "credit"}
    /\ Returned(c)
    /\ End(c)
    /\ UNCHANGED <<day, rows, due, swaps, timeVars>>

-----------------------------------------------------------------------------
(* Any await of a request may throw, and its replica may stop.              *)
Fail(c) ==
    /\ request[c].step \notin {"new", "over"}
    /\ End(c)
    /\ UNCHANGED <<day, rows, due, swaps, timeVars>>

Table(c) == LedgerStep(c) /\ UNCHANGED <<request, swaps, timeVars>>

(* At most one UPDATE for each day reaches the wallet, and it has a row     *)
(* then (AtMostOncePerDay and CreditsHaveRows of KnsDistribution).          *)
CreditKns ==
    /\ knsPaid < day
    /\ \E n \in KnsPoints : BulkAddKns(n)
    /\ knsPaid' = knsPaid + 1
    /\ UNCHANGED <<request, swaps, clock>>

(* Each replica runs the resets.                                            *)
resetDailyCounters ==
    /\ clock = "23:59"
    /\ batchResetDailySwapCounters
    /\ UNCHANGED <<request, swaps, timeVars>>

resetWeeklyCounters ==
    /\ clock = "00:00"
    /\ IsMonday(day)
    /\ batchResetWeeklyCounters
    /\ UNCHANGED <<request, swaps, timeVars>>

Tick ==
    /\ \/ clock = "00:00" /\ clock' = "day" /\ UNCHANGED ledgerVars
       \/ clock = "day" /\ clock' = "23:59" /\ UNCHANGED ledgerVars
       \/ clock = "23:59" /\ clock' = "00:00" /\ Midnight
    /\ UNCHANGED <<request, swaps, knsPaid>>

-----------------------------------------------------------------------------
Arrive(c) == LogSwap(c) \/ AwardCommunity(c) \/ Approve(c)

Proceed(c) ==
    \/ FindSwap(c) \/ StoreSwap(c) \/ StoreConflict(c) \/ Quota(c) \/ Added(c)
    \/ Counted(c) \/ updatePointsAwarded(c) \/ Check(c) \/ Approved(c) \/ Granted(c)
    \/ Table(c)

Statement == CreditKns \/ resetDailyCounters \/ resetWeeklyCounters

PointsNext ==
    \/ \E c \in Call : Arrive(c) \/ Proceed(c) \/ Fail(c)
    \/ Statement
    \/ Tick

PointsSpec == PointsInit /\ [][PointsNext]_pointsVars

(* One request at a time, none of which fails; a scheduled statement waits  *)
(* for it: what the code does when nothing interferes.                      *)
SerialNext ==
    \/ Quiet /\ \E c \in Call : Arrive(c)
    \/ \E c \in Call : Proceed(c)
    \/ Quiet /\ Statement
    \/ Tick

SerialSpec == PointsInit /\ [][SerialNext]_pointsVars

-----------------------------------------------------------------------------
PointsTypeOK ==
    /\ LedgerTypeOK
    /\ request \in [Call -> Request]
    /\ swaps \in [Signature -> Swap]
    /\ clock \in Clock
    /\ knsPaid \in 0 .. day

Flagged == {s \in Signature : swaps[s].points > 0}
FlaggedPoints == SumFunctionOnSet([s \in Signature |-> swaps[s].points], Signature)

(* What swap_transactions says was awarded has been: the points of all      *)
(* flagged swaps were written to user_points, and each swap was counted     *)
(* there (points.service.ts:225), though any call may fail between the four *)
(* writes and a swap may be logged by several requests at once.             *)
FlaggedSwapsSettled ==
    /\ FlaggedPoints <= due.swapPoints
    /\ Cardinality(Flagged) <= due.totalSwapsCount

(* Without interference the read-modify-save updates and the UPDATE of the  *)
(* distribution are exact over resets and midnights: one row, its lifetime  *)
(* columns the sums of what was granted, and its total the sum of its parts *)
(* (user-points.entity.ts:78).                                              *)
LedgerExact ==
    /\ Len(rows) <= 1
    /\ \A i \in DOMAIN rows :
          /\ \A f \in Lifetime : rows[i][f] = due[f]
          /\ rows[i].totalPoints = rows[i].swapPoints + rows[i].communityPoints
                                     + rows[i].knsPoints

(* A wallet earns at most twice the daily cap in a UTC day, however often   *)
(* the replicas run the job at 23:59: once before the reset and once in the *)
(* minute after it, which lastSwapDayReset keeps from being repeated        *)
(* (user-points.repository.ts:192).                                         *)
DayWithinTwoCaps == due.swapPointsToday <= 2 * SWAP_POINTS_DAILY_CAP

(* The daily cap is kept by what the counter shows, which enforces it       *)
(* (user-points.entity.ts:87), and by what was granted.                     *)
CapsKept ==
    /\ \A i \in DOMAIN rows : rows[i].swapPointsToday <= SWAP_POINTS_DAILY_CAP
    /\ DayWithinTwoCaps

(* Where requests come one at a time, what an administrator awards never    *)
(* takes communityPointsThisWeek over the weekly cap                        *)
(* (points.service.ts:413): the row checked awaits earlier is the row the   *)
(* save writes, whatever awards, approvals and resets came before.          *)
AwardKeepsWeeklyCap ==
    [][\A c \in Call : At(c, "grant") /\ SaveUpdate(c) =>
          rows'[access[c].id].communityPointsThisWeek <= COMMUNITY_POINTS_WEEKLY_CAP
      ]_pointsVars

-----------------------------------------------------------------------------
(* What the documentation says and the code does not do.                    *)

(* "Prevents race conditions on concurrent point awards": no grant is lost  *)
(* from a wallet's only row (user-points.entity.ts:166).                    *)
NothingLost ==
    Len(rows) = 1 => \A f \in Lifetime : rows[1][f] = due[f]

(* "Weekly cap: 2,000 community points per wallet per week"                 *)
(* (contribution-submission.entity.ts:48; points.service.ts:416): the       *)
(* counter of the week stays within it.                                     *)
WeeklyCounterWithinCap ==
    \A i \in DOMAIN rows : rows[i].communityPointsThisWeek <= COMMUNITY_POINTS_WEEKLY_CAP

(* "Points awarded for this swap / Formula: 1 point = $1 USD": no more is   *)
(* given than the logged swaps are worth (swap-transaction.entity.ts:167).  *)
SwapsPaidOnce ==
    due.swapPoints <= SumFunctionOnSet([s \in Signature |-> calculateSwapPoints(s)],
                                       {s \in Confirmed : swaps[s].stored})

(* "Reset weekly community points counters", every Monday                   *)
(* (points.service.ts:634): the job clears the counter of a wallet that has *)
(* not been granted anything this week.                                     *)
WeeklyResetResets ==
    clock = "00:00" /\ IsMonday(day) /\ due.communityPointsThisWeek = 0 =>
        \A i \in DOMAIN rows :
            ResetRow(rows[i], "communityPointsThisWeek", "lastWeekReset", day - WEEK)
                .communityPointsThisWeek = 0
=============================================================================
