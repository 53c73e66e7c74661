---------------------------- MODULE PointsProofs ----------------------------
(* However many requests, days and swaps there are: the points service is  *)
(* type correct, and no row of user_points ever shows more than was        *)
(* granted.  A save writes what was read once plus its own grant, so the   *)
(* invariant bounds the entities in memory as well as the rows.            *)
EXTENDS PointsService, LedgerProofs, SumTheorems

PointsInv == PointsTypeOK /\ NeverMoreThanDue /\ SavesWithinDue

(* What a request has its repository call do while it waits for it.        *)
Errand(c) ==
    /\ request[c].step \in {"new", "find", "store", "flag", "over"} => access[c].step = "none"
    /\ request[c].step \in {"quota", "check", "review"} =>
          ~access[c].saves /\ access[c].gain = Blank
            /\ access[c].step \in {"read", "create", "done"}
    /\ request[c].step = "add" /\ ~Returned(c) =>
          access[c].saves /\ access[c].gain = SwapGain(request[c].want)
    /\ request[c].step = "stats" /\ ~Returned(c) =>
          access[c].saves /\ access[c].gain = StatsGain
    /\ request[c].step \in {"grant", "credit"} /\ ~Returned(c) =>
          access[c].saves /\ access[c].gain = CommunityGain(request[c].want)

(* Points a request has added and not flagged yet, and the same for the    *)
(* swap it has counted.                                                    *)
AwaitsFlag(c) == request[c].step \in {"stats", "flag"} \/ (request[c].step = "add" /\ Returned(c))
Unflagged == [c \in Call |-> IF AwaitsFlag(c) THEN request[c].want ELSE 0]
HasCounted(c) == request[c].step = "flag" \/ (request[c].step = "stats" /\ Returned(c))
CountedOnly == {c \in Call : HasCounted(c)}

(* Whatever is not flagged yet is settled already: this is what a flag     *)
(* that is set later relies on.                                            *)
SettledInv ==
    /\ \A c \in Call : Errand(c)
    /\ FlaggedPoints + SumFunctionOnSet(Unflagged, Call) <= due.swapPoints
    /\ Cardinality(Flagged) + Cardinality(CountedOnly) <= due.totalSwapsCount

(* One request at a time.                                                  *)
Busy(c) == request[c].step \notin {"new", "over"}
OneAtATime == \A b, c \in Call : Busy(b) /\ Busy(c) => b = c

(* What a request has read still holds, and its award fits under the cap.  *)
(* An approval of a contribution relies on nothing it has read.            *)
Current(c) ==
    /\ request[c].step \in {"quota", "check"} /\ Returned(c) =>
          rows # <<>> /\ access[c].record = rows[1]
    /\ request[c].step = "add" /\ ~Returned(c) =>
          rows # <<>> /\ rows[1].swapPointsToday + request[c].want <= SWAP_POINTS_DAILY_CAP
    /\ request[c].step = "grant" /\ ~Returned(c) =>
          rows # <<>> /\ rows[1].communityPointsThisWeek + request[c].want
                            <= COMMUNITY_POINTS_WEEKLY_CAP

AddsUp(d) == d.totalPoints = d.swapPoints + d.communityPoints + d.knsPoints

(* A row says what is due.  What a day gave is in its counter, but for one *)
(* cap if the counter was reset on that day.                               *)
Faithful(row, d, today) ==
    /\ \A f \in Lifetime : row[f] = d[f]
    /\ row.swapPointsToday <= SWAP_POINTS_DAILY_CAP
    /\ row.lastSwapDayReset <= today
    /\ d.swapPointsToday <= row.swapPointsToday
          + (IF row.lastSwapDayReset = today THEN SWAP_POINTS_DAILY_CAP ELSE 0)

(* Before there is a row nothing was granted.                              *)
TableInv ==
    /\ AddsUp(due)
    /\ rows = <<>> => \A f \in Lifetime \union Counter : due[f] = 0
    /\ rows # <<>> => Faithful(rows[1], due, day)

SerialInv ==
    /\ OneAtATime /\ Undisturbed /\ TableInv
    /\ \A c \in Call : Current(c)

-----------------------------------------------------------------------------
(* The requests.                                                           *)
LEMMA RequestTypes ==
    /\ NoSwap \in Swap /\ JustStored \in Swap
    /\ \A step \in Step : Idle(step) \in Request
    /\ \A s \in Signature : calculateSwapPoints(s) \in Nat
<1>1. NoSwap \in Swap /\ JustStored \in Swap
  BY DEF NoSwap, JustStored, Swap
<1>2. (CHOOSE s \in Signature : TRUE) \in Signature
  BY ServiceAssumption
<1>3. \A step \in Step : Idle(step) \in Request
  BY <1>1, <1>2 DEF Idle, Request
<1>4. ASSUME NEW s \in Signature PROVE calculateSwapPoints(s) \in Nat
  <2>1. Cents[s] \in Nat
    BY ServiceAssumption
  <2>2. Cents[s] \div 100 \in Nat
    BY <2>1
  <2> QED
    BY <2>2 DEF calculateSwapPoints
<1> QED
  BY <1>1, <1>3, <1>4

(* All of the invariant but the ledger's part.                             *)
ServiceTypeOK ==
    /\ request \in [Call -> Request]
    /\ swaps \in [Signature -> Swap]
    /\ clock \in Clock
    /\ knsPaid \in 0 .. day

LEMMA TwoParts == PointsInv <=> Ledger /\ ServiceTypeOK
  BY DEF PointsInv, PointsTypeOK, Ledger, ServiceTypeOK

LEMMA RequestMoves ==
    ASSUME request \in [Call -> Request], NEW c \in Call
    PROVE  /\ request[c] \in Request
           /\ \A step \in Step : Goto(c, step) => request' \in [Call -> Request]
           /\ \A step \in Step, n \in Nat :
                 request' = [request EXCEPT ![c].step = step, ![c].want = n]
                   => request' \in [Call -> Request]
           /\ End(c) => request' \in [Call -> Request]
<1>1. request[c] \in Request
  OBVIOUS
<1>2. ASSUME NEW step \in Step, Goto(c, step) PROVE request' \in [Call -> Request]
  <2>1. [request[c] EXCEPT !.step = step] \in Request
    BY <1>1 DEF Request
  <2> QED
    BY <1>2, <2>1 DEF Goto
<1>3. ASSUME NEW step \in Step, NEW n \in Nat,
             request' = [request EXCEPT ![c].step = step, ![c].want = n]
      PROVE  request' \in [Call -> Request]
  <2>1. [request[c] EXCEPT !.step = step, !.want = n] \in Request
    BY <1>1 DEF Request
  <2> QED
    BY <1>3, <2>1
<1>4. ASSUME End(c) PROVE request' \in [Call -> Request]
  <2>1. Idle("over") \in Request
    BY RequestTypes DEF Step
  <2> QED
    BY <1>4, <2>1 DEF End
<1> QED
  BY <1>1, <1>2, <1>3, <1>4

LEMMA SwapWrites ==
    ASSUME swaps \in [Signature -> Swap], request \in [Call -> Request], NEW c \in Call
    PROVE  /\ StoreRow(c) => swaps' \in [Signature -> Swap]
           /\ updatePointsAwarded(c) => swaps' \in [Signature -> Swap]
<1>1. request[c].sig \in Signature /\ request[c].want \in Nat
  BY DEF Request
<1>2. ASSUME StoreRow(c) PROVE swaps' \in [Signature -> Swap]
  BY <1>1, <1>2, RequestTypes DEF StoreRow
<1>3. ASSUME updatePointsAwarded(c) PROVE swaps' \in [Signature -> Swap]
  <2>1. [swaps[request[c].sig] EXCEPT !.points = request[c].want] \in Swap
    BY <1>1 DEF Swap
  <2> QED
    BY <1>1, <1>3, <2>1 DEF updatePointsAwarded
<1> QED
  BY <1>2, <1>3

LEMMA StoreSwapKeeps ==
    ASSUME Ledger, ServiceTypeOK, NEW c \in Call, StoreSwap(c)
    PROVE  Ledger' /\ ServiceTypeOK'
<1>1. UNCHANGED <<day, rows, due, clock, knsPaid>>
  BY DEF StoreSwap, timeVars
<1>2. (GetOrCreate(c) /\ Goto(c, "quota")) \/ End(c)
  BY DEF StoreSwap
<1>3. swaps' \in [Signature -> Swap]
  BY SwapWrites DEF StoreSwap, ServiceTypeOK
<1>4. request' \in [Call -> Request]
  BY <1>2, RequestMoves DEF ServiceTypeOK, Step
<1>5. LedgerTypeOK' /\ SavesWithinDue'
  BY <1>1, <1>2, BeginKeeps, LeaveKeeps, Gains DEF GetOrCreate, End, Ledger
<1> QED
  BY <1>1, <1>3, <1>4, <1>5 DEF Ledger, ServiceTypeOK, NeverMoreThanDue

LEMMA QuotaKeeps ==
    ASSUME Ledger, ServiceTypeOK, NEW c \in Call, Quota(c)
    PROVE  Ledger' /\ ServiceTypeOK'
<1>1. UNCHANGED <<day, rows, due, swaps, clock, knsPaid>>
  BY DEF Quota, timeVars
<1>2. CASE CanAward(c) > 0 /\ WillAward(c, CanAward(c))
  <2>1. /\ request[c].sig \in Signature
        /\ access[c].record["swapPointsToday"] \in Nat
    BY Columns DEF Ledger, LedgerTypeOK, Access, ServiceTypeOK, Request
  <2>2. CanAward(c) \in Int
    BY <2>1, RequestTypes, ServiceAssumption DEF CanAward, Lesser
  <2> DEFINE n == CanAward(c)
  <2>3. n \in Nat /\ WillAward(c, n)
    BY <1>2, <2>2
  <2> HIDE DEF n
  <2>4. SwapGain(n) \in Row /\ "add" \in Step
    BY <2>3, Gains DEF Step
  <2>5. LedgerTypeOK' /\ SavesWithinDue'
    BY <1>1, <2>3, <2>4, BeginKeeps DEF WillAward, Add, Ledger
  <2>6. request' \in [Call -> Request]
    BY <2>3, <2>4, RequestMoves DEF WillAward, ServiceTypeOK
  <2> QED
    BY <1>1, <2>5, <2>6 DEF Ledger, ServiceTypeOK, NeverMoreThanDue
<1>3. CASE End(c)
  <2>1. LedgerTypeOK' /\ SavesWithinDue'
    BY <1>1, <1>3, LeaveKeeps DEF End, Ledger
  <2>2. request' \in [Call -> Request]
    BY <1>3, RequestMoves DEF ServiceTypeOK
  <2> QED
    BY <1>1, <2>1, <2>2 DEF Ledger, ServiceTypeOK, NeverMoreThanDue
<1> QED
  BY <1>2, <1>3 DEF Quota

LEMMA CheckKeeps ==
    ASSUME Ledger, ServiceTypeOK, NEW c \in Call, Check(c)
    PROVE  Ledger' /\ ServiceTypeOK'
<1>1. UNCHANGED <<day, rows, due, swaps, clock, knsPaid>>
  BY DEF Check, timeVars
<1>2. \/ Goto(c, "grant") /\ Add(c, CommunityGain(request[c].want))
      \/ End(c)
  BY DEF Check
<1>3. CommunityGain(request[c].want) \in Row
  BY Gains DEF ServiceTypeOK, Request
<1>4. LedgerTypeOK' /\ SavesWithinDue'
  BY <1>1, <1>2, <1>3, BeginKeeps, LeaveKeeps DEF Add, End, Ledger
<1>5. request' \in [Call -> Request]
  BY <1>2, RequestMoves DEF ServiceTypeOK, Step
<1> QED
  BY <1>1, <1>4, <1>5 DEF Ledger, ServiceTypeOK, NeverMoreThanDue

LEMMA ApprovedKeeps ==
    ASSUME Ledger, ServiceTypeOK, NEW c \in Call, Approved(c)
    PROVE  Ledger' /\ ServiceTypeOK'
<1>1. UNCHANGED <<day, rows, due, swaps, clock, knsPaid>>
  BY DEF Approved, timeVars
<1>2. \/ Goto(c, "credit") /\ Add(c, CommunityGain(request[c].want))
      \/ End(c)
  BY DEF Approved
<1>3. CommunityGain(request[c].want) \in Row
  BY Gains DEF ServiceTypeOK, Request
<1>4. LedgerTypeOK' /\ SavesWithinDue'
  BY <1>1, <1>2, <1>3, BeginKeeps, LeaveKeeps DEF Add, End, Ledger
<1>5. request' \in [Call -> Request]
  BY <1>2, RequestMoves DEF ServiceTypeOK, Step
<1> QED
  BY <1>1, <1>4, <1>5 DEF Ledger, ServiceTypeOK, NeverMoreThanDue

(* A request that starts by reading the row for the points it asks for.    *)
LEMMA AskingKeeps ==
    ASSUME Ledger, ServiceTypeOK, NEW c \in Call, AwardCommunity(c) \/ Approve(c)
    PROVE  Ledger' /\ ServiceTypeOK'
<1>1. PICK step \in {"check", "review"}, p \in Nat :
         request' = [request EXCEPT ![c].step = step, ![c].want = p]
  BY ServiceAssumption DEF AwardCommunity, Approve
<1>2. step \in Step
  BY DEF Step
<1>3. request' \in [Call -> Request]
  BY <1>1, <1>2, RequestMoves DEF ServiceTypeOK
<1>4. UNCHANGED <<day, rows, due, swaps, clock, knsPaid>> /\ GetOrCreate(c)
  BY DEF AwardCommunity, Approve, timeVars
<1>5. LedgerTypeOK' /\ SavesWithinDue'
  BY <1>4, BeginKeeps, Gains DEF GetOrCreate, Ledger
<1> QED
  BY <1>3, <1>4, <1>5 DEF Ledger, ServiceTypeOK, NeverMoreThanDue

(* The steps of a request and of its replica.                              *)
LEMMA RequestKeeps ==
    ASSUME Ledger, ServiceTypeOK, NEW c \in Call, Arrive(c) \/ Proceed(c) \/ Fail(c)
    PROVE  Ledger' /\ ServiceTypeOK'
<1>1. CASE LogSwap(c)
  <2>1. PICK s \in Signature :
           request' = [request EXCEPT ![c].step = "find", ![c].sig = s]
    BY <1>1 DEF LogSwap
  <2>2. request[c] \in Request
    BY DEF ServiceTypeOK
  <2>3. [request[c] EXCEPT !.step = "find", !.sig = s] \in Request
    BY <2>2 DEF Request, Step
  <2>4. request' \in [Call -> Request]
    BY <2>1, <2>3 DEF ServiceTypeOK
  <2>5. UNCHANGED <<day, rows, access, due, swaps, clock, knsPaid>>
    BY <1>1 DEF LogSwap, ledgerVars, timeVars
  <2> QED
    BY <2>4, <2>5 DEF Ledger, ServiceTypeOK, LedgerTypeOK, NeverMoreThanDue, SavesWithinDue
<1>2. CASE FindSwap(c)
  <2>1. request[c] \in Request /\ swaps[request[c].sig] \in Swap
    BY DEF ServiceTypeOK, Request
  <2>2. [request[c] EXCEPT !.step = "store", !.seen = swaps[request[c].sig]] \in Request
    BY <2>1 DEF Request, Step
  <2>3. request' \in [Call -> Request]
    BY <1>2, <2>2 DEF FindSwap, ServiceTypeOK
  <2>4. UNCHANGED <<day, rows, access, due, swaps, clock, knsPaid>>
    BY <1>2 DEF FindSwap, ledgerVars, timeVars
  <2> QED
    BY <2>3, <2>4 DEF Ledger, ServiceTypeOK, LedgerTypeOK, NeverMoreThanDue, SavesWithinDue
<1>3. CASE StoreSwap(c)
  BY <1>3, StoreSwapKeeps
<1>4. CASE Quota(c)
  BY <1>4, QuotaKeeps
<1>5. CASE Check(c) \/ Approved(c)
  BY <1>5, CheckKeeps, ApprovedKeeps
<1>6. CASE AwardCommunity(c) \/ Approve(c)
  BY <1>6, AskingKeeps
<1>7. CASE Added(c)
  <2>1. /\ UNCHANGED <<day, rows, due, swaps, clock, knsPaid>>
        /\ Goto(c, "stats") /\ Add(c, StatsGain)
    BY <1>7 DEF Added, timeVars
  <2>2. LedgerTypeOK' /\ SavesWithinDue'
    BY <2>1, BeginKeeps, Gains DEF Add, Ledger
  <2>3. request' \in [Call -> Request]
    BY <2>1, RequestMoves DEF ServiceTypeOK, Step
  <2> QED
    BY <2>1, <2>2, <2>3 DEF Ledger, ServiceTypeOK, NeverMoreThanDue
<1>8. CASE Counted(c)
  <2>1. /\ UNCHANGED <<day, rows, due, swaps, clock, knsPaid>>
        /\ Goto(c, "flag") /\ Leave(c)
    BY <1>8 DEF Counted, timeVars
  <2>2. LedgerTypeOK' /\ SavesWithinDue'
    BY <2>1, LeaveKeeps DEF Ledger
  <2>3. request' \in [Call -> Request]
    BY <2>1, RequestMoves DEF ServiceTypeOK, Step
  <2> QED
    BY <2>1, <2>2, <2>3 DEF Ledger, ServiceTypeOK, NeverMoreThanDue
<1>9. CASE Table(c)
  <2>1. LedgerStep(c) /\ UNCHANGED <<request, swaps, clock, knsPaid>>
    BY <1>9 DEF Table, timeVars
  <2>2. UNCHANGED day
    BY <2>1 DEF LedgerStep, FindOne, InsertRow, SaveSelect, SaveUpdate
  <2> QED
    BY <2>1, <2>2, LedgerStepKeeps DEF Ledger, ServiceTypeOK
<1>10. CASE StoreConflict(c) \/ Granted(c) \/ Fail(c) \/ updatePointsAwarded(c)
  <2>1. UNCHANGED <<day, rows, due, clock, knsPaid>> /\ End(c)
    BY <1>10 DEF StoreConflict, Granted, Fail, updatePointsAwarded, timeVars
  <2>2. swaps' \in [Signature -> Swap]
    BY <1>10, SwapWrites DEF ServiceTypeOK, StoreConflict, Granted, Fail
  <2>3. LedgerTypeOK' /\ SavesWithinDue'
    BY <2>1, LeaveKeeps DEF End, Ledger
  <2>4. request' \in [Call -> Request]
    BY <2>1, RequestMoves DEF ServiceTypeOK
  <2> QED
    BY <2>1, <2>2, <2>3, <2>4 DEF Ledger, ServiceTypeOK, NeverMoreThanDue
<1> QED
  BY <1>1, <1>2, <1>3, <1>4, <1>5, <1>6, <1>7, <1>8, <1>9, <1>10 DEF Arrive, Proceed

LEMMA StatementKeeps ==
    ASSUME Ledger, ServiceTypeOK, Statement
    PROVE  Ledger' /\ ServiceTypeOK'
<1>1. CASE CreditKns
  <2>1. PICK n \in KnsPoints : BulkAddKns(n)
    BY <1>1 DEF CreditKns
  <2>2. n \in Nat
    BY ServiceAssumption
  <2>3. Ledger'
    BY <2>1, <2>2, BulkAddKnsKeeps DEF Ledger
  <2>4. UNCHANGED <<day, request, swaps, clock>> /\ knsPaid' = knsPaid + 1 /\ knsPaid < day
    BY <1>1, <2>1 DEF CreditKns, BulkAddKns
  <2>5. day \in Nat
    BY LedgerAssumption DEF Ledger, LedgerTypeOK
  <2> QED
    BY <2>3, <2>4, <2>5 DEF ServiceTypeOK
<1>2. CASE resetDailyCounters
  <2>1. /\ BatchReset("swapPointsToday", "lastSwapDayReset", day)
        /\ UNCHANGED <<request, swaps, clock, knsPaid>>
    BY <1>2 DEF resetDailyCounters, batchResetDailySwapCounters, timeVars
  <2>2. "swapPointsToday" \in Counter /\ "lastSwapDayReset" \in ResetDate
    BY DEF Counter, ResetDate
  <2>3. Ledger'
    BY <2>1, <2>2, BatchResetKeeps DEF Ledger
  <2> QED
    BY <2>1, <2>3 DEF ServiceTypeOK, BatchReset
<1>3. CASE resetWeeklyCounters
  <2>1. /\ BatchReset("communityPointsThisWeek", "lastWeekReset", day - WEEK)
        /\ UNCHANGED <<request, swaps, clock, knsPaid>>
    BY <1>3 DEF resetWeeklyCounters, batchResetWeeklyCounters, timeVars
  <2>2. "communityPointsThisWeek" \in Counter /\ "lastWeekReset" \in ResetDate
    BY DEF Counter, ResetDate
  <2>3. Ledger'
    BY <2>1, <2>2, BatchResetKeeps DEF Ledger
  <2> QED
    BY <2>1, <2>3 DEF ServiceTypeOK, BatchReset
<1> QED
  BY <1>1, <1>2, <1>3 DEF Statement

LEMMA TickKeeps ==
    ASSUME Ledger, ServiceTypeOK, Tick
    PROVE  Ledger' /\ ServiceTypeOK'
<1>1. UNCHANGED <<request, swaps, knsPaid>> /\ clock' \in Clock
  BY DEF Tick, Clock
<1>2. CASE UNCHANGED ledgerVars
  BY <1>1, <1>2 DEF ledgerVars, Ledger, LedgerTypeOK, NeverMoreThanDue, SavesWithinDue,
                    ServiceTypeOK
<1>3. CASE Midnight
  <2>1. Ledger' /\ day' = day + 1
    BY <1>3, MidnightKeeps DEF Ledger
  <2>2. knsPaid' \in 0 .. day'
    BY <1>1, <2>1, LedgerAssumption DEF ServiceTypeOK, Ledger, LedgerTypeOK
  <2> QED
    BY <1>1, <2>1, <2>2 DEF ServiceTypeOK
<1> QED
  BY <1>2, <1>3 DEF Tick

-----------------------------------------------------------------------------
(* The invariant of the points service.                                    *)
LEMMA PointsInvInductive == PointsSpec => []PointsInv
<1>1. PointsInit => PointsInv
  <2> SUFFICES ASSUME PointsInit PROVE Ledger /\ ServiceTypeOK
    BY TwoParts
  <2>1. Ledger /\ day = 1
    BY LedgerInitOK DEF PointsInit, LedgerInit
  <2>2. ServiceTypeOK
    <3>1. Idle("new") \in Request /\ NoSwap \in Swap
      BY RequestTypes DEF Step
    <3>2. request \in [Call -> Request] /\ swaps \in [Signature -> Swap]
      BY <3>1 DEF PointsInit
    <3>3. clock \in Clock /\ knsPaid \in 0 .. day
      BY <2>1 DEF PointsInit, Clock
    <3> QED
      BY <3>2, <3>3 DEF ServiceTypeOK
  <2> QED
    BY <2>1, <2>2
<1>2. PointsInv /\ [PointsNext]_pointsVars => PointsInv'
  <2> SUFFICES ASSUME Ledger, ServiceTypeOK, [PointsNext]_pointsVars
               PROVE  Ledger' /\ ServiceTypeOK'
    BY TwoParts DEF PointsInv, PointsTypeOK, Ledger, ServiceTypeOK
  <2>1. CASE \E c \in Call : Arrive(c) \/ Proceed(c) \/ Fail(c)
    BY <2>1, RequestKeeps
  <2>2. CASE Statement
    BY <2>2, StatementKeeps
  <2>3. CASE Tick
    BY <2>3, TickKeeps
  <2>4. CASE UNCHANGED pointsVars
    BY <2>4 DEF pointsVars, ledgerVars, timeVars, Ledger, LedgerTypeOK, NeverMoreThanDue,
                SavesWithinDue, ServiceTypeOK
  <2> QED
    BY <2>1, <2>2, <2>3, <2>4 DEF PointsNext
<1> QED
  BY <1>1, <1>2, PTL DEF PointsSpec

(* Every reachable state of the points service is well typed               *)
(* (points.service.ts, user-points.repository.ts).                         *)
THEOREM PointsTypes == PointsSpec => []PointsTypeOK
  BY PointsInvInductive, PTL DEF PointsInv

(* No row of user_points ever shows more points of a kind, a larger total  *)
(* or more swaps than requests and the distribution granted, whatever      *)
(* races, failures and duplicate rows there are                            *)
(* (user-points.repository.ts:51).                                         *)
THEOREM NeverMore == PointsSpec => []NeverMoreThanDue
  BY PointsInvInductive, PTL DEF PointsInv

-----------------------------------------------------------------------------
(* The points of flagged swaps.                                            *)
LEMMA DueTypes ==
    ASSUME LedgerTypeOK
    PROVE  /\ due.swapPoints \in Nat /\ due.totalSwapsCount \in Nat
           /\ due.communityPoints \in Nat /\ due.knsPoints \in Nat
           /\ due.totalPoints \in Nat /\ due.swapPointsToday \in Nat
           /\ due.communityPointsThisWeek \in Nat
  BY DEF LedgerTypeOK, Column, Lifetime, Part, Counter, ResetDate

LEMMA PlusDue ==
    ASSUME LedgerTypeOK, NEW g \in Row, due' = Plus(due, g)
    PROVE  /\ due'.swapPoints = due.swapPoints + g["swapPoints"]
           /\ due'.totalSwapsCount = due.totalSwapsCount + g["totalSwapsCount"]
           /\ g["swapPoints"] \in Nat /\ g["totalSwapsCount"] \in Nat
  BY DEF LedgerTypeOK, Row, Plus, Column, Lifetime, Part, Counter, ResetDate

LEMMA FlagTypes ==
    ASSUME swaps \in [Signature -> Swap]
    PROVE  /\ FlaggedPoints \in Int
           /\ IsFiniteSet(Flagged) /\ Cardinality(Flagged) \in Nat
<1> DEFINE f == [s \in Signature |-> swaps[s].points]
<1>1. \A s \in Signature : f[s] \in Int
  BY DEF Swap
<1>2. SumFunctionOnSet(f, Signature) \in Int
  <2> HIDE DEF f
  <2> QED
    BY <1>1, FinitelyMany, SumType
<1>3. Flagged \subseteq Signature
  BY DEF Flagged
<1>4. IsFiniteSet(Flagged)
  BY <1>3, FinitelyMany, FS_Subset
<1> QED
  BY <1>2, <1>4, FS_CardinalityType DEF FlaggedPoints

(* One swap's flag is written.                                             *)
LEMMA FlagOne ==
    ASSUME swaps \in [Signature -> Swap], swaps' \in [Signature -> Swap],
           NEW s \in Signature,
           \A t \in Signature : t # s => swaps'[t] = swaps[t]
    PROVE  /\ FlaggedPoints' = FlaggedPoints + (swaps'[s].points - swaps[s].points)
           /\ Cardinality(Flagged') <= Cardinality(Flagged) + 1
           /\ swaps'[s].points <= swaps[s].points =>
                 Cardinality(Flagged') <= Cardinality(Flagged)
<1> DEFINE f == [t \in Signature |-> swaps[t].points]
           g == [t \in Signature |-> swaps'[t].points]
<1>1. \A t \in Signature : f[t] \in Int /\ g[t] \in Int /\ (t = s \/ g[t] = f[t])
  BY DEF Swap
<1>2. SumFunctionOnSet(g, Signature) = SumFunctionOnSet(f, Signature) + (g[s] - f[s])
  <2> HIDE DEF f, g
  <2> QED
    BY <1>1, FinitelyMany, SumUpdate
<1>3. FlaggedPoints' = FlaggedPoints + (swaps'[s].points - swaps[s].points)
  BY <1>2 DEF FlaggedPoints
<1>4. Flagged' \subseteq Flagged \union {s}
  BY DEF Flagged
<1>5. IsFiniteSet(Flagged)
  BY FlagTypes
<1>6. /\ IsFiniteSet(Flagged \union {s})
      /\ Cardinality(Flagged \union {s}) <= Cardinality(Flagged) + 1
  <2>1. /\ IsFiniteSet(Flagged \union {s})
        /\ Cardinality(Flagged \union {s})
             = IF s \in Flagged THEN Cardinality(Flagged) ELSE Cardinality(Flagged) + 1
    BY <1>5, FS_AddElement
  <2>2. Cardinality(Flagged) \in Nat
    BY <1>5, FS_CardinalityType
  <2> HIDE DEF f, g
  <2> QED
    BY <2>1, <2>2
<1>7. Cardinality(Flagged') <= Cardinality(Flagged) + 1
  <2>1. /\ Cardinality(Flagged') \in Nat /\ Cardinality(Flagged) \in Nat
        /\ Cardinality(Flagged \union {s}) \in Nat
        /\ Cardinality(Flagged') <= Cardinality(Flagged \union {s})
    BY <1>4, <1>5, <1>6, FS_Subset, FS_CardinalityType
  <2> QED
    BY <1>6, <2>1
<1>8. ASSUME swaps'[s].points <= swaps[s].points
      PROVE  Cardinality(Flagged') <= Cardinality(Flagged)
  <2>1. Flagged' \subseteq Flagged
    BY <1>8 DEF Flagged, Swap
  <2> QED
    BY <1>5, <2>1, FS_Subset
<1> QED
  BY <1>3, <1>7, <1>8

(* What is unflagged and counted, when one request moves.                  *)
LEMMA OthersWait ==
    ASSUME NEW b \in Call, request'[b] = request[b], access'[b] = access[b]
    PROVE  /\ Errand(b)' <=> Errand(b)
           /\ Unflagged'[b] = Unflagged[b]
           /\ HasCounted(b)' <=> HasCounted(b)
  BY DEF Errand, Unflagged, AwaitsFlag, HasCounted, Returned

LEMMA UnflaggedTypes ==
    ASSUME request \in [Call -> Request]
    PROVE  /\ \A b \in Call : Unflagged[b] \in Nat
           /\ SumFunctionOnSet(Unflagged, Call) \in Int
           /\ IsFiniteSet(CountedOnly) /\ Cardinality(CountedOnly) \in Nat
<1>1. \A b \in Call : Unflagged[b] \in Nat
  BY DEF Unflagged, Request
<1>2. SumFunctionOnSet(Unflagged, Call) \in Int
  BY <1>1, FinitelyMany, SumType
<1>3. CountedOnly \subseteq Call
  BY DEF CountedOnly
<1>4. IsFiniteSet(CountedOnly)
  BY <1>3, FinitelyMany, FS_Subset
<1> QED
  BY <1>1, <1>2, <1>4, FS_CardinalityType

LEMMA WaitingTypesNext ==
    (request \in [Call -> Request])' =>
       (/\ \A b \in Call : Unflagged[b] \in Nat
        /\ SumFunctionOnSet(Unflagged, Call) \in Int
        /\ IsFiniteSet(CountedOnly) /\ Cardinality(CountedOnly) \in Nat)'
<1>1. request \in [Call -> Request] =>
         /\ \A b \in Call : Unflagged[b] \in Nat
         /\ SumFunctionOnSet(Unflagged, Call) \in Int
         /\ IsFiniteSet(CountedOnly) /\ Cardinality(CountedOnly) \in Nat
  BY UnflaggedTypes
<1> QED
  BY <1>1, PTL

LEMMA FlagTypesNext ==
    (swaps \in [Signature -> Swap])' =>
       (/\ FlaggedPoints \in Int
        /\ IsFiniteSet(Flagged) /\ Cardinality(Flagged) \in Nat)'
<1>1. swaps \in [Signature -> Swap] =>
         /\ FlaggedPoints \in Int
         /\ IsFiniteSet(Flagged) /\ Cardinality(Flagged) \in Nat
  BY FlagTypes
<1> QED
  BY <1>1, PTL

Bit(c) == IF HasCounted(c) THEN 1 ELSE 0

LEMMA CountOne ==
    ASSUME request \in [Call -> Request], request' \in [Call -> Request], NEW c \in Call,
           \A b \in Call : b # c => (HasCounted(b)' <=> HasCounted(b))
    PROVE  Cardinality(CountedOnly') + Bit(c) = Cardinality(CountedOnly) + Bit(c)'
<1> DEFINE R == CountedOnly \ {c}
<1>1. IsFiniteSet(CountedOnly) /\ IsFiniteSet(R) /\ c \notin R
  BY UnflaggedTypes, FS_Subset
<1>2. IsFiniteSet(R \union {c}) /\ Cardinality(R \union {c}) = Cardinality(R) + 1
  BY <1>1, FS_AddElement
<1>3. CountedOnly = IF HasCounted(c) THEN R \union {c} ELSE R
  BY DEF CountedOnly
<1>4. CountedOnly' = IF HasCounted(c)' THEN R \union {c} ELSE R
  BY DEF CountedOnly
<1>5. Cardinality(R) \in Nat
  BY <1>1, FS_CardinalityType
<1> HIDE DEF R
<1>6. Cardinality(CountedOnly) = Cardinality(R) + Bit(c)
  BY <1>2, <1>3, <1>5 DEF Bit
<1>7. Cardinality(CountedOnly') = Cardinality(R) + Bit(c)'
  BY <1>2, <1>4, <1>5 DEF Bit
<1>8. Bit(c) \in Nat /\ Bit(c)' \in Nat
  BY DEF Bit
<1> QED
  BY <1>5, <1>6, <1>7, <1>8

(* The account of one step of a request.                                   *)
LEMMA SettledStep ==
    ASSUME LedgerTypeOK, LedgerTypeOK', ServiceTypeOK, ServiceTypeOK', SettledInv,
           NEW c \in Call, Errand(c)',
           \A b \in Call : b # c => request'[b] = request[b] /\ access'[b] = access[b],
           FlaggedPoints' + Unflagged'[c] - due'.swapPoints
             <= FlaggedPoints + Unflagged[c] - due.swapPoints,
           Cardinality(Flagged') + Bit(c)' - due'.totalSwapsCount
             <= Cardinality(Flagged) + Bit(c) - due.totalSwapsCount
    PROVE  SettledInv'
<1>1. \A b \in Call : b # c =>
         (Errand(b)' <=> Errand(b)) /\ Unflagged'[b] = Unflagged[b]
           /\ (HasCounted(b)' <=> HasCounted(b))
  BY OthersWait
<1>2. \A b \in Call : Errand(b)'
  BY <1>1 DEF SettledInv
<1>3. /\ \A b \in Call : Unflagged[b] \in Nat
      /\ SumFunctionOnSet(Unflagged, Call) \in Int /\ Cardinality(CountedOnly) \in Nat
  BY UnflaggedTypes DEF ServiceTypeOK
<1>4. (/\ \A b \in Call : Unflagged[b] \in Nat
       /\ SumFunctionOnSet(Unflagged, Call) \in Int /\ Cardinality(CountedOnly) \in Nat)'
  BY WaitingTypesNext DEF ServiceTypeOK
<1>5. SumFunctionOnSet(Unflagged', Call)
        = SumFunctionOnSet(Unflagged, Call) + (Unflagged'[c] - Unflagged[c])
  <2>1. /\ \A b \in Call : Unflagged[b] \in Int /\ Unflagged'[b] \in Int
        /\ \A b \in Call : b = c \/ Unflagged'[b] = Unflagged[b]
    BY <1>1, <1>3, <1>4
  <2> QED
    BY <2>1, FinitelyMany, SumUpdate
<1>6. Cardinality(CountedOnly') + Bit(c) = Cardinality(CountedOnly) + Bit(c)'
  BY <1>1, CountOne DEF ServiceTypeOK
<1>7. /\ FlaggedPoints \in Int /\ Cardinality(Flagged) \in Nat
      /\ (FlaggedPoints \in Int /\ Cardinality(Flagged) \in Nat)'
  BY FlagTypes, FlagTypesNext DEF ServiceTypeOK
<1>8. /\ due.swapPoints \in Nat /\ due.totalSwapsCount \in Nat
      /\ due'.swapPoints \in Nat /\ due'.totalSwapsCount \in Nat
  BY DEF LedgerTypeOK, Column, Lifetime, Part
<1>9. FlaggedPoints' + SumFunctionOnSet(Unflagged', Call) <= due'.swapPoints
  BY <1>3, <1>4, <1>5, <1>7, <1>8 DEF SettledInv
<1>10. Cardinality(Flagged') + Cardinality(CountedOnly') <= due'.totalSwapsCount
  <2>1. Bit(c) \in Nat /\ Bit(c)' \in Nat
    BY DEF Bit
  <2> QED
    BY <1>3, <1>4, <1>6, <1>7, <1>8, <2>1 DEF SettledInv
<1> QED
  BY <1>2, <1>9, <1>10 DEF SettledInv

(* A step that writes neither a flag nor a grant.                          *)
LEMMA SettledQuiet ==
    ASSUME LedgerTypeOK, LedgerTypeOK', ServiceTypeOK, ServiceTypeOK', SettledInv,
           NEW c \in Call, Errand(c)',
           \A b \in Call : b # c => request'[b] = request[b] /\ access'[b] = access[b],
           UNCHANGED <<swaps, due>>,
           Unflagged'[c] <= Unflagged[c], HasCounted(c)' => HasCounted(c)
    PROVE  SettledInv'
<1>1. FlaggedPoints' = FlaggedPoints /\ Flagged' = Flagged
  BY DEF FlaggedPoints, Flagged
<1>2. /\ FlaggedPoints \in Int /\ Cardinality(Flagged) \in Nat
      /\ due.swapPoints \in Nat /\ due.totalSwapsCount \in Nat
      /\ Unflagged[c] \in Nat
  BY FlagTypes, DueTypes, UnflaggedTypes DEF ServiceTypeOK
<1>3. Unflagged'[c] \in Nat
  BY WaitingTypesNext DEF ServiceTypeOK
<1>4. Bit(c) \in Nat /\ Bit(c)' \in Nat /\ Bit(c)' <= Bit(c)
  BY DEF Bit
<1>5. FlaggedPoints' + Unflagged'[c] - due'.swapPoints
        <= FlaggedPoints + Unflagged[c] - due.swapPoints
  BY <1>1, <1>2, <1>3
<1>6. Cardinality(Flagged') + Bit(c)' - due'.totalSwapsCount
        <= Cardinality(Flagged) + Bit(c) - due.totalSwapsCount
  BY <1>1, <1>2, <1>4
<1> QED
  BY <1>5, <1>6, SettledStep

(* Where a request goes, what it and its repository call are then.         *)
LEMMA MovesTo ==
    ASSUME LedgerTypeOK, ServiceTypeOK, NEW c \in Call
    PROVE  /\ \A step \in Step : Goto(c, step) =>
                 /\ request'[c] = [request[c] EXCEPT !.step = step]
                 /\ \A b \in Call : b # c => request'[b] = request[b]
           /\ End(c) =>
                 /\ request'[c] = Idle("over") /\ access'[c] = NoAccess
                 /\ \A b \in Call : b # c => request'[b] = request[b] /\ access'[b] = access[b]
           /\ \A saves \in BOOLEAN, gain \in Row : Begin(c, saves, gain) =>
                 /\ access'[c] = [NoAccess EXCEPT !.step = "read", !.saves = saves, !.gain = gain]
                 /\ \A b \in Call : b # c => access'[b] = access[b]
           /\ Leave(c) =>
                 /\ access'[c] = NoAccess
                 /\ \A b \in Call : b # c => access'[b] = access[b]
  BY DEF Goto, End, Begin, Leave, LedgerTypeOK, ServiceTypeOK

(* A request that ends leaves no errand and nothing to flag.               *)
LEMMA EndSettles ==
    ASSUME LedgerTypeOK, ServiceTypeOK, NEW c \in Call, End(c)
    PROVE  Errand(c)' /\ Unflagged'[c] = 0 /\ ~HasCounted(c)'
<1>1. request'[c].step = "over" /\ access'[c].step = "none"
  <2>1. request'[c] = Idle("over") /\ access'[c] = NoAccess
    BY MovesTo
  <2> QED
    BY <2>1 DEF Idle, NoAccess
<1> QED
  BY <1>1 DEF Errand, Unflagged, AwaitsFlag, HasCounted, Returned

LEMMA EndKeepsSettled ==
    ASSUME LedgerTypeOK, LedgerTypeOK', ServiceTypeOK, ServiceTypeOK', SettledInv,
           NEW c \in Call, End(c), UNCHANGED <<swaps, due>>
    PROVE  SettledInv'
<1>1. Errand(c)' /\ Unflagged'[c] = 0 /\ ~HasCounted(c)'
  BY EndSettles
<1>2. \A b \in Call : b # c => request'[b] = request[b] /\ access'[b] = access[b]
  BY MovesTo
<1>3. Unflagged[c] \in Nat
  BY UnflaggedTypes DEF ServiceTypeOK
<1> QED
  BY <1>1, <1>2, <1>3, SettledQuiet

(* A request begins a repository call and waits for it.                    *)
LEMMA WaitKeepsSettled ==
    ASSUME LedgerTypeOK, LedgerTypeOK', ServiceTypeOK, ServiceTypeOK', SettledInv,
           NEW c \in Call, NEW step \in {"quota", "add", "check", "grant", "review", "credit"},
           \A b \in Call : b # c => request'[b] = request[b],
           request'[c].step = step,
           \/ step \in {"quota", "check", "review"} /\ GetOrCreate(c)
           \/ step = "add" /\ Add(c, SwapGain(request'[c].want))
           \/ step \in {"grant", "credit"} /\ Add(c, CommunityGain(request'[c].want)),
           UNCHANGED <<swaps, due>>
    PROVE  SettledInv'
<1>1. request'[c].want \in Nat /\ Unflagged[c] \in Nat
  BY UnflaggedTypes DEF ServiceTypeOK, Request
<1>2. /\ SwapGain(request'[c].want) \in Row /\ CommunityGain(request'[c].want) \in Row
      /\ Blank \in Row
  BY <1>1, Gains
<1>3. /\ access'[c].step = "read"
      /\ \A b \in Call : b # c => access'[b] = access[b]
      /\ step \in {"quota", "check", "review"} => ~access'[c].saves /\ access'[c].gain = Blank
      /\ step = "add" => access'[c].saves /\ access'[c].gain = SwapGain(request'[c].want)
      /\ step \in {"grant", "credit"} => access'[c].saves /\ access'[c].gain = CommunityGain(request'[c].want)
  <2>1. CASE step \in {"quota", "check", "review"} /\ GetOrCreate(c)
    <3>1. Begin(c, FALSE, Blank)
      BY <2>1 DEF GetOrCreate
    <3>2. /\ access'[c] = [NoAccess EXCEPT !.step = "read", !.saves = FALSE, !.gain = Blank]
          /\ \A b \in Call : b # c => access'[b] = access[b]
      BY <1>2, <3>1, MovesTo
    <3> QED
      BY <2>1, <3>2 DEF NoAccess
  <2>2. CASE step = "add" /\ Add(c, SwapGain(request'[c].want))
    <3>1. Begin(c, TRUE, SwapGain(request'[c].want))
      BY <2>2 DEF Add
    <3>2. /\ access'[c] = [NoAccess EXCEPT !.step = "read", !.saves = TRUE,
                                           !.gain = SwapGain(request'[c].want)]
          /\ \A b \in Call : b # c => access'[b] = access[b]
      BY <1>2, <3>1 DEF Begin, LedgerTypeOK
    <3> QED
      BY <2>2, <3>2 DEF NoAccess
  <2>3. CASE step \in {"grant", "credit"} /\ Add(c, CommunityGain(request'[c].want))
    <3>1. Begin(c, TRUE, CommunityGain(request'[c].want))
      BY <2>3 DEF Add
    <3>2. /\ access'[c] = [NoAccess EXCEPT !.step = "read", !.saves = TRUE,
                                           !.gain = CommunityGain(request'[c].want)]
          /\ \A b \in Call : b # c => access'[b] = access[b]
      BY <1>2, <3>1 DEF Begin, LedgerTypeOK
    <3> QED
      BY <2>3, <3>2 DEF NoAccess
  <2> QED
    BY <2>1, <2>2, <2>3
<1>4. Errand(c)' /\ Unflagged'[c] = 0 /\ ~HasCounted(c)'
  BY <1>3 DEF Errand, Unflagged, AwaitsFlag, HasCounted, Returned
<1> QED
  BY <1>1, <1>3, <1>4, SettledQuiet

(* A swap that is stored again loses the flag it had.                      *)
LEMMA StoreSwapKeepsSettled ==
    ASSUME LedgerTypeOK, LedgerTypeOK', ServiceTypeOK, ServiceTypeOK', SettledInv,
           NEW c \in Call, StoreSwap(c)
    PROVE  SettledInv'
<1> DEFINE s == request[c].sig
<1>1. s \in Signature /\ due' = due
  BY DEF ServiceTypeOK, Request, StoreSwap
<1>2. /\ \A t \in Signature : t # s => swaps'[t] = swaps[t]
      /\ swaps'[s] = swaps[s] \/ swaps'[s] = JustStored
  BY <1>1 DEF StoreSwap, StoreRow, ServiceTypeOK
<1>3. swaps \in [Signature -> Swap] /\ swaps' \in [Signature -> Swap]
  BY DEF ServiceTypeOK
<1>4. /\ swaps'[s].points <= swaps[s].points
      /\ swaps[s].points \in Nat /\ swaps'[s].points \in Nat
  BY <1>1, <1>2, <1>3 DEF Swap, JustStored
<1> HIDE DEF s
<1>5. /\ FlaggedPoints' = FlaggedPoints + (swaps'[s].points - swaps[s].points)
      /\ Cardinality(Flagged') <= Cardinality(Flagged)
  BY <1>1, <1>2, <1>3, <1>4, FlagOne
<1>6. /\ FlaggedPoints \in Int /\ Cardinality(Flagged) \in Nat
      /\ (FlaggedPoints \in Int /\ Cardinality(Flagged) \in Nat)'
      /\ due.swapPoints \in Nat /\ due.totalSwapsCount \in Nat
      /\ Unflagged[c] \in Nat
  BY FlagTypes, FlagTypesNext, DueTypes, UnflaggedTypes DEF ServiceTypeOK
<1>7. /\ Errand(c)' /\ Unflagged'[c] = 0 /\ ~HasCounted(c)'
      /\ \A b \in Call : b # c => request'[b] = request[b] /\ access'[b] = access[b]
  <2>1. CASE End(c)
    BY <2>1, EndSettles, MovesTo
  <2>2. CASE Goto(c, "quota") /\ GetOrCreate(c)
    <3>1. Begin(c, FALSE, Blank) /\ Blank \in Row /\ "quota" \in Step
      BY <2>2, Gains DEF GetOrCreate, Step
    <3>2. /\ access'[c] = [NoAccess EXCEPT !.step = "read", !.saves = FALSE, !.gain = Blank]
          /\ \A b \in Call : b # c => access'[b] = access[b]
      BY <3>1, MovesTo
    <3>3. /\ request'[c] = [request[c] EXCEPT !.step = "quota"]
          /\ \A b \in Call : b # c => request'[b] = request[b]
      BY <2>2, <3>1, MovesTo
    <3>4. /\ request'[c].step = "quota" /\ access'[c].step = "read"
          /\ ~access'[c].saves /\ access'[c].gain = Blank
      BY <3>2, <3>3 DEF NoAccess, ServiceTypeOK, Request
    <3> QED
      BY <3>2, <3>3, <3>4 DEF Errand, Unflagged, AwaitsFlag, HasCounted, Returned
  <2> QED
    BY <2>1, <2>2 DEF StoreSwap
<1>8. FlaggedPoints' + Unflagged'[c] - due'.swapPoints
        <= FlaggedPoints + Unflagged[c] - due.swapPoints
  BY <1>1, <1>4, <1>5, <1>6, <1>7
<1>9. Cardinality(Flagged') + Bit(c)' - due'.totalSwapsCount
        <= Cardinality(Flagged) + Bit(c) - due.totalSwapsCount
  <2>1. Bit(c) \in Nat /\ Bit(c)' = 0
    BY <1>7 DEF Bit
  <2> QED
    BY <1>1, <1>5, <1>6, <2>1
<1> QED
  BY <1>7, <1>8, <1>9, SettledStep

(* The flag takes over the points and the swap which the request has       *)
(* added and counted.                                                      *)
LEMMA FlagKeepsSettled ==
    ASSUME LedgerTypeOK, LedgerTypeOK', ServiceTypeOK, ServiceTypeOK', SettledInv,
           NEW c \in Call, updatePointsAwarded(c)
    PROVE  SettledInv'
<1> DEFINE s == request[c].sig
           n == request[c].want
<1>1. s \in Signature /\ n \in Nat /\ due' = due
  BY DEF ServiceTypeOK, Request, updatePointsAwarded
<1>2. /\ \A t \in Signature : t # s => swaps'[t] = swaps[t]
      /\ swaps'[s].points = n
  BY <1>1 DEF updatePointsAwarded, ServiceTypeOK, Swap
<1>3. swaps \in [Signature -> Swap] /\ swaps' \in [Signature -> Swap]
  BY DEF ServiceTypeOK
<1>4. swaps[s].points \in Nat
  BY <1>1, <1>3 DEF Swap
<1>5. Unflagged[c] = n /\ HasCounted(c)
  BY DEF updatePointsAwarded, At, Unflagged, AwaitsFlag, HasCounted
<1> HIDE DEF s, n
<1>6. /\ FlaggedPoints' = FlaggedPoints + (swaps'[s].points - swaps[s].points)
      /\ Cardinality(Flagged') <= Cardinality(Flagged) + 1
  BY <1>1, <1>2, <1>3, FlagOne
<1>7. /\ FlaggedPoints \in Int /\ Cardinality(Flagged) \in Nat
      /\ (FlaggedPoints \in Int /\ Cardinality(Flagged) \in Nat)'
      /\ due.swapPoints \in Nat /\ due.totalSwapsCount \in Nat
  BY FlagTypes, FlagTypesNext, DueTypes DEF ServiceTypeOK
<1>8. End(c)
  BY DEF updatePointsAwarded
<1>9. /\ Errand(c)' /\ Unflagged'[c] = 0 /\ ~HasCounted(c)'
      /\ \A b \in Call : b # c => request'[b] = request[b] /\ access'[b] = access[b]
  BY <1>8, EndSettles, MovesTo
<1>10. FlaggedPoints' + Unflagged'[c] - due'.swapPoints
         <= FlaggedPoints + Unflagged[c] - due.swapPoints
  BY <1>1, <1>2, <1>4, <1>5, <1>6, <1>7, <1>9
<1>11. Cardinality(Flagged') + Bit(c)' - due'.totalSwapsCount
         <= Cardinality(Flagged) + Bit(c) - due.totalSwapsCount
  BY <1>1, <1>5, <1>6, <1>7, <1>9 DEF Bit
<1> QED
  BY <1>9, <1>10, <1>11, SettledStep

(* The statements of the repository calls: the UPDATE that adds the points *)
(* and the one that counts the swap are where something awaits its flag.   *)
LEMMA TableKeepsSettled ==
    ASSUME LedgerTypeOK, LedgerTypeOK', ServiceTypeOK, ServiceTypeOK', SettledInv,
           NEW c \in Call, Table(c)
    PROVE  SettledInv'
<1> DEFINE g == access[c].gain
           n == request[c].want
<1>1. /\ LedgerStep(c) /\ UNCHANGED <<request, swaps>> /\ Errand(c)
      /\ FlaggedPoints' = FlaggedPoints /\ Flagged' = Flagged
  BY DEF Table, SettledInv, FlaggedPoints, Flagged
<1>2. /\ g \in Row /\ n \in Nat /\ request[c].step \in Step
  BY DEF LedgerTypeOK, Access, Row, ServiceTypeOK, Request
<1>3. \A b \in Call : b # c => request'[b] = request[b] /\ access'[b] = access[b]
  BY <1>1, LedgerMoves
<1>4. /\ FlaggedPoints \in Int /\ Cardinality(Flagged) \in Nat
      /\ due.swapPoints \in Nat /\ due.totalSwapsCount \in Nat
      /\ Unflagged[c] \in Nat
  BY FlagTypes, DueTypes, UnflaggedTypes DEF ServiceTypeOK
<1>5. access[c].step \in {"read", "create", "reload", "write"}
  BY <1>1, LedgerMoves
<1>6. request[c].step \in {"quota", "check", "review", "add", "stats", "grant", "credit"}
  BY <1>1, <1>2, <1>5 DEF Errand, Step
<1>7. CASE access[c].step # "write"
  <2>1. /\ due' = due
        /\ access'[c].saves = access[c].saves
        /\ access'[c].gain = access[c].gain
        /\ access[c].saves => access'[c].step \in {"create", "reload", "write"}
        /\ ~access[c].saves /\ access[c].step # "reload" =>
              access'[c].step \in {"create", "done"}
    BY <1>1, <1>7, LedgerMoves
  <2>2. Errand(c)'
    BY <1>1, <1>5, <1>6, <2>1 DEF Errand, Returned
  <2>3. Unflagged'[c] = Unflagged[c] /\ (HasCounted(c)' <=> HasCounted(c))
    BY <1>1, <1>5, <1>6, <2>1 DEF Errand, Returned, Unflagged, AwaitsFlag, HasCounted
  <2> QED
    BY <1>1, <1>3, <1>4, <2>1, <2>2, <2>3, SettledQuiet
<1>8. CASE access[c].step = "write"
  <2>1. due' = Plus(due, g) /\ access'[c].step = "done" /\ ~Returned(c) /\ Returned(c)'
    BY <1>1, <1>8, LedgerMoves DEF Returned
  <2>2. /\ due'.swapPoints = due.swapPoints + g["swapPoints"]
        /\ due'.totalSwapsCount = due.totalSwapsCount + g["totalSwapsCount"]
        /\ g["swapPoints"] \in Nat /\ g["totalSwapsCount"] \in Nat
    BY <1>2, <2>1, PlusDue
  <2>3. request[c].step \in {"add", "stats", "grant", "credit"}
    BY <1>1, <1>6, <1>8 DEF Errand
  <2>4. Errand(c)'
    BY <1>1, <2>1, <2>3 DEF Errand
  <2>5. Unflagged'[c] <= Unflagged[c] + g["swapPoints"]
    <3>1. CASE request[c].step = "add"
      <4>1. g["swapPoints"] = n
        BY <1>1, <2>1, <3>1 DEF Errand, SwapGain, Gain, Column, Lifetime, Part
      <4>2. Unflagged'[c] = n
        BY <1>1, <2>1, <3>1 DEF Unflagged, AwaitsFlag
      <4> HIDE DEF g, n
      <4> QED
        BY <1>2, <1>4, <4>1, <4>2
    <3>2. CASE request[c].step # "add"
      <4>1. Unflagged'[c] = Unflagged[c]
        BY <1>1, <3>2 DEF Unflagged, AwaitsFlag
      <4> HIDE DEF g, n
      <4> QED
        BY <1>4, <2>2, <4>1
    <3> QED
      BY <3>1, <3>2
  <2>6. Bit(c) \in Nat /\ Bit(c)' \in Nat /\ Bit(c)' <= Bit(c) + g["totalSwapsCount"]
    <3>1. CASE request[c].step = "stats"
      <4>1. g["totalSwapsCount"] = 1
        BY <1>1, <2>1, <3>1 DEF Errand, StatsGain, Gain, Column, Lifetime
      <4> QED
        BY <4>1 DEF Bit
    <3>2. CASE request[c].step # "stats"
      <4>1. ~HasCounted(c)'
        BY <1>1, <2>3, <3>2 DEF HasCounted
      <4> HIDE DEF g
      <4> QED
        BY <2>2, <4>1 DEF Bit
    <3> QED
      BY <3>1, <3>2
  <2>7. Unflagged'[c] \in Nat
    BY WaitingTypesNext DEF ServiceTypeOK
  <2> HIDE DEF g, n
  <2>8. FlaggedPoints' + Unflagged'[c] - due'.swapPoints
          <= FlaggedPoints + Unflagged[c] - due.swapPoints
    BY <1>1, <1>4, <2>2, <2>5, <2>7
  <2>9. Cardinality(Flagged') + Bit(c)' - due'.totalSwapsCount
          <= Cardinality(Flagged) + Bit(c) - due.totalSwapsCount
    BY <1>1, <1>4, <2>2, <2>6
  <2> QED
    BY <1>3, <2>4, <2>8, <2>9, SettledStep
<1> QED
  BY <1>7, <1>8

LEMMA RequestKeepsSettled ==
    ASSUME LedgerTypeOK, LedgerTypeOK', ServiceTypeOK, ServiceTypeOK', SettledInv,
           NEW c \in Call, Arrive(c) \/ Proceed(c) \/ Fail(c)
    PROVE  SettledInv'
<1>0. /\ Errand(c) /\ request[c] \in Request /\ Unflagged[c] \in Nat
      /\ \A b \in Call : request[b] \in Request
  BY UnflaggedTypes DEF SettledInv, ServiceTypeOK
<1>1. CASE LogSwap(c) \/ FindSwap(c)
  <2>1. /\ \A b \in Call : b # c => request'[b] = request[b]
        /\ request'[c].step \in {"find", "store"}
        /\ request[c].step \in {"new", "find"}
    BY <1>0, <1>1 DEF LogSwap, FindSwap, At, ServiceTypeOK, Request
  <2>2. UNCHANGED <<access, due, swaps>>
    BY <1>1 DEF LogSwap, FindSwap, ledgerVars
  <2>3. Errand(c)' /\ Unflagged'[c] = 0 /\ ~HasCounted(c)'
    BY <1>0, <2>1, <2>2 DEF Errand, Unflagged, AwaitsFlag, HasCounted
  <2> QED
    BY <1>0, <2>1, <2>2, <2>3, SettledQuiet
<1>2. CASE StoreSwap(c)
  BY <1>2, StoreSwapKeepsSettled
<1>3. CASE Quota(c)
  <2>1. UNCHANGED <<swaps, due>>
    BY <1>3 DEF Quota
  <2>2. CASE WillAward(c, CanAward(c))
    <3>1. /\ request'[c].step = "add" /\ request'[c].want = CanAward(c)
          /\ \A b \in Call : b # c => request'[b] = request[b]
      BY <1>0, <2>2 DEF WillAward, ServiceTypeOK, Request
    <3>2. Add(c, SwapGain(request'[c].want))
      BY <2>2, <3>1 DEF WillAward
    <3> QED
      BY <2>1, <3>1, <3>2, WaitKeepsSettled
  <2>3. CASE End(c)
    BY <2>1, <2>3, EndKeepsSettled
  <2> QED
    BY <1>3, <2>2, <2>3 DEF Quota
<1>4. CASE Check(c) \/ Approved(c)
  <2>1. UNCHANGED <<swaps, due>>
    BY <1>4 DEF Check, Approved
  <2>2. ASSUME NEW step \in {"grant", "credit"},
               Goto(c, step), Add(c, CommunityGain(request[c].want))
        PROVE  SettledInv'
    <3>1. /\ request'[c].step = step /\ request'[c].want = request[c].want
          /\ \A b \in Call : b # c => request'[b] = request[b]
      BY <1>0, <2>2 DEF Goto, ServiceTypeOK, Request
    <3>2. Add(c, CommunityGain(request'[c].want))
      BY <2>2, <3>1
    <3> QED
      BY <2>1, <3>1, <3>2, WaitKeepsSettled
  <2>3. CASE End(c)
    BY <2>1, <2>3, EndKeepsSettled
  <2> QED
    BY <1>4, <2>2, <2>3 DEF Check, Approved
<1>5. CASE AwardCommunity(c) \/ Approve(c)
  <2>1. /\ request'[c].step \in {"check", "review"}
        /\ \A b \in Call : b # c => request'[b] = request[b]
    BY <1>0, <1>5 DEF AwardCommunity, Approve, ServiceTypeOK, Request
  <2>2. GetOrCreate(c) /\ UNCHANGED <<swaps, due>>
    BY <1>5 DEF AwardCommunity, Approve
  <2> QED
    BY <2>1, <2>2, WaitKeepsSettled
<1>6. CASE Added(c)
  <2>1. /\ At(c, "add") /\ Returned(c) /\ Begin(c, TRUE, StatsGain) /\ UNCHANGED <<swaps, due>>
        /\ request'[c] = [request[c] EXCEPT !.step = "stats"]
        /\ \A b \in Call : b # c => request'[b] = request[b]
    BY <1>6 DEF Added, Add, Goto, ServiceTypeOK
  <2>2. /\ access'[c] = [NoAccess EXCEPT !.step = "read", !.saves = TRUE, !.gain = StatsGain]
        /\ \A b \in Call : b # c => access'[b] = access[b]
    BY <2>1 DEF Begin, LedgerTypeOK
  <2>3. access'[c].step = "read" /\ access'[c].saves /\ access'[c].gain = StatsGain
    BY <2>2 DEF NoAccess
  <2>4. request'[c].step = "stats" /\ request'[c].want = request[c].want
    BY <1>0, <2>1 DEF Request
  <2>5. Errand(c)' /\ ~HasCounted(c)'
    BY <2>3, <2>4 DEF Errand, HasCounted, Returned
  <2>6. Unflagged'[c] = Unflagged[c]
    BY <2>1, <2>4 DEF Unflagged, AwaitsFlag, At
  <2> QED
    BY <1>0, <2>1, <2>2, <2>5, <2>6, SettledQuiet
<1>7. CASE Counted(c)
  <2>1. /\ At(c, "stats") /\ Returned(c) /\ Leave(c) /\ UNCHANGED <<swaps, due>>
        /\ request'[c] = [request[c] EXCEPT !.step = "flag"]
        /\ \A b \in Call : b # c => request'[b] = request[b]
    BY <1>7 DEF Counted, Goto, ServiceTypeOK
  <2>2. access'[c].step = "none" /\ \A b \in Call : b # c => access'[b] = access[b]
    BY <2>1 DEF Leave, LedgerTypeOK, NoAccess
  <2>3. request'[c].step = "flag" /\ request'[c].want = request[c].want
    BY <1>0, <2>1 DEF Request
  <2>4. Errand(c)'
    BY <2>2, <2>3 DEF Errand
  <2>5. Unflagged'[c] = Unflagged[c] /\ HasCounted(c)
    BY <2>1, <2>3 DEF Unflagged, AwaitsFlag, At, HasCounted
  <2> QED
    BY <1>0, <2>1, <2>2, <2>4, <2>5, SettledQuiet
<1>8. CASE updatePointsAwarded(c)
  BY <1>8, FlagKeepsSettled
<1>9. CASE Table(c)
  BY <1>9, TableKeepsSettled
<1>10. CASE StoreConflict(c) \/ Granted(c) \/ Fail(c)
  <2>1. End(c) /\ UNCHANGED <<swaps, due>>
    BY <1>10 DEF StoreConflict, Granted, Fail
  <2> QED
    BY <2>1, EndKeepsSettled
<1> QED
  BY <1>1, <1>2, <1>3, <1>4, <1>5, <1>6, <1>7, <1>8, <1>9, <1>10 DEF Arrive, Proceed

(* What is due of the lifetime columns never shrinks.                      *)
LEMMA GrowingDueKeepsSettled ==
    ASSUME LedgerTypeOK, LedgerTypeOK', ServiceTypeOK, SettledInv,
           UNCHANGED <<request, access, swaps>>,
           due.swapPoints <= due'.swapPoints, due.totalSwapsCount <= due'.totalSwapsCount
    PROVE  SettledInv'
<1>1. /\ \A c \in Call : Errand(c)' <=> Errand(c)
      /\ Unflagged' = Unflagged /\ CountedOnly' = CountedOnly
      /\ FlaggedPoints' = FlaggedPoints /\ Flagged' = Flagged
  BY DEF Errand, Returned, Unflagged, AwaitsFlag, CountedOnly, HasCounted, FlaggedPoints, Flagged
<1>2. /\ FlaggedPoints \in Int /\ Cardinality(Flagged) \in Nat
      /\ SumFunctionOnSet(Unflagged, Call) \in Int /\ Cardinality(CountedOnly) \in Nat
      /\ due.swapPoints \in Nat /\ due.totalSwapsCount \in Nat
  BY FlagTypes, UnflaggedTypes, DueTypes DEF ServiceTypeOK
<1>3. due'.swapPoints \in Nat /\ due'.totalSwapsCount \in Nat
  BY DEF LedgerTypeOK, Column, Lifetime, Part
<1> QED
  BY <1>1, <1>2, <1>3 DEF SettledInv

LEMMA SettledInductive == PointsSpec => [](PointsInv /\ SettledInv)
<1>1. PointsInit /\ PointsInv => SettledInv
  <2> SUFFICES ASSUME PointsInit, PointsInv PROVE SettledInv
    OBVIOUS
  <2>1. LedgerTypeOK /\ ServiceTypeOK
    BY TwoParts DEF Ledger
  <2>2. \A c \in Call : request[c].step = "new" /\ access[c].step = "none"
    BY DEF PointsInit, LedgerInit, Idle, NoAccess
  <2>3. \A c \in Call : Errand(c)
    BY <2>2 DEF Errand
  <2>4. Flagged = {} /\ CountedOnly = {} /\ \A c \in Call : Unflagged[c] = 0
    BY <2>2 DEF PointsInit, NoSwap, Flagged, CountedOnly, HasCounted, Unflagged, AwaitsFlag
  <2>5. SumFunctionOnSet(Unflagged, Call) = 0
    BY <2>4, FinitelyMany, SumZero
  <2>6. FlaggedPoints = 0
    <3> DEFINE f == [s \in Signature |-> swaps[s].points]
    <3>1. \A s \in Signature : f[s] = 0
      BY DEF PointsInit, NoSwap
    <3>2. SumFunctionOnSet(f, Signature) = 0
      <4> HIDE DEF f
      <4> QED
        BY <3>1, FinitelyMany, SumZero
    <3> QED
      BY <3>2 DEF FlaggedPoints
  <2>7. Cardinality({}) = 0
    BY FS_EmptySet
  <2>8. due.swapPoints \in Nat /\ due.totalSwapsCount \in Nat
    BY <2>1, DueTypes
  <2> QED
    BY <2>3, <2>4, <2>5, <2>6, <2>7, <2>8 DEF SettledInv
<1>2. PointsInv /\ PointsInv' /\ SettledInv /\ [PointsNext]_pointsVars => SettledInv'
  <2> SUFFICES ASSUME PointsInv, PointsInv', SettledInv, [PointsNext]_pointsVars
               PROVE  SettledInv'
    OBVIOUS
  <2>1. LedgerTypeOK /\ ServiceTypeOK /\ LedgerTypeOK' /\ ServiceTypeOK'
    BY DEF PointsInv, PointsTypeOK, ServiceTypeOK
  <2>2. CASE \E c \in Call : Arrive(c) \/ Proceed(c) \/ Fail(c)
    BY <2>1, <2>2, RequestKeepsSettled
  <2>3. CASE Statement
    <3>1. UNCHANGED <<request, access, swaps>>
      BY <2>3 DEF Statement, CreditKns, BulkAddKns, resetDailyCounters, resetWeeklyCounters,
                  batchResetDailySwapCounters, batchResetWeeklyCounters, BatchReset
    <3>2. due.swapPoints <= due'.swapPoints /\ due.totalSwapsCount <= due'.totalSwapsCount
      <4>1. CASE CreditKns
        <5>1. PICK n \in KnsPoints : due' = Plus(due, KnsGain(n))
          BY <4>1 DEF CreditKns, BulkAddKns
        <5>2. KnsGain(n) \in Row
          BY ServiceAssumption, Gains
        <5> DEFINE g == KnsGain(n)
        <5>3. g \in Row /\ due' = Plus(due, g)
          BY <5>1, <5>2
        <5> HIDE DEF g
        <5> QED
          BY <2>1, <5>3, PlusDue, DueTypes
      <4>2. CASE UNCHANGED due
        BY <2>1, <4>2, DueTypes
      <4> QED
        BY <2>3, <4>1, <4>2 DEF Statement, resetDailyCounters, resetWeeklyCounters,
                  batchResetDailySwapCounters, batchResetWeeklyCounters, BatchReset
    <3> QED
      BY <2>1, <3>1, <3>2, GrowingDueKeepsSettled
  <2>4. CASE Tick
    <3>1. UNCHANGED <<request, access, swaps>>
      BY <2>4 DEF Tick, Midnight, ledgerVars
    <3>2. due'.swapPoints = due.swapPoints /\ due'.totalSwapsCount = due.totalSwapsCount
      BY <2>1, <2>4 DEF Tick, Midnight, ledgerVars, LedgerTypeOK, Column, Lifetime, Part, Counter
    <3> QED
      BY <2>1, <3>1, <3>2, DueTypes, GrowingDueKeepsSettled
  <2>5. CASE UNCHANGED pointsVars
    BY <2>1, <2>5, DueTypes, GrowingDueKeepsSettled DEF pointsVars, ledgerVars
  <2> QED
    BY <2>2, <2>3, <2>4, <2>5 DEF PointsNext
<1> QED
  BY <1>1, <1>2, PointsInvInductive, PTL DEF PointsSpec

(* What swap_transactions says was awarded has been, however requests      *)
(* interleave and wherever they fail: the flag comes last, so its points   *)
(* and its swap were written to user_points before (points.service.ts:225). *)
THEOREM FlagsSettled == PointsSpec => []FlaggedSwapsSettled
<1>1. PointsInv /\ SettledInv => FlaggedSwapsSettled
  <2> SUFFICES ASSUME PointsInv, SettledInv PROVE FlaggedSwapsSettled
    OBVIOUS
  <2>1. LedgerTypeOK /\ ServiceTypeOK
    BY DEF PointsInv, PointsTypeOK, ServiceTypeOK
  <2>2. /\ FlaggedPoints \in Int /\ Cardinality(Flagged) \in Nat
        /\ Cardinality(CountedOnly) \in Nat
        /\ due.swapPoints \in Nat /\ due.totalSwapsCount \in Nat
        /\ \A c \in Call : Unflagged[c] \in Nat
    BY <2>1, FlagTypes, UnflaggedTypes, DueTypes DEF ServiceTypeOK
  <2>3. SumFunctionOnSet(Unflagged, Call) \in Nat
    BY <2>2, FinitelyMany, SumNat
  <2> QED
    BY <2>2, <2>3 DEF SettledInv, FlaggedSwapsSettled
<1> QED
  BY <1>1, SettledInductive, PTL

-----------------------------------------------------------------------------
(* One request at a time.                                                  *)
LEMMA FaithfulPlus ==
    ASSUME NEW r \in Row, NEW d \in Row, NEW g \in Row, NEW today \in Nat,
           Faithful(r, d, today), g["lastSwapDayReset"] = 0,
           r["swapPointsToday"] + g["swapPointsToday"] <= SWAP_POINTS_DAILY_CAP
    PROVE  Faithful(Plus(r, g), Plus(d, g), today)
<1> DEFINE p == Plus(r, g)
           e == Plus(d, g)
<1>1. \A f \in Column : /\ p[f] = r[f] + g[f] /\ e[f] = d[f] + g[f]
                        /\ r[f] \in Nat /\ d[f] \in Nat /\ g[f] \in Nat
  BY RowSums DEF Row
<1> HIDE DEF p, e
<1>2. \A f \in Lifetime : p[f] = e[f]
  BY <1>1, Columns DEF Faithful
<1>3. /\ p["swapPointsToday"] <= SWAP_POINTS_DAILY_CAP
      /\ p["lastSwapDayReset"] = r["lastSwapDayReset"]
  BY <1>1, Columns
<1>4. e["swapPointsToday"]
        <= p["swapPointsToday"]
             + (IF p["lastSwapDayReset"] = today THEN SWAP_POINTS_DAILY_CAP ELSE 0)
  <2>1. d["swapPointsToday"]
          <= r["swapPointsToday"]
               + (IF r["lastSwapDayReset"] = today THEN SWAP_POINTS_DAILY_CAP ELSE 0)
    BY DEF Faithful
  <2> QED
    BY <1>1, <1>3, <2>1, Columns, ServiceAssumption
<1>5. p["lastSwapDayReset"] <= today
  BY <1>3 DEF Faithful
<1> QED
  BY <1>2, <1>3, <1>4, <1>5 DEF Faithful, p, e

LEMMA GainColumns ==
    ASSUME NEW n \in Nat
    PROVE  /\ AddsUp(SwapGain(n)) /\ AddsUp(CommunityGain(n)) /\ AddsUp(KnsGain(n))
           /\ AddsUp(StatsGain)
           /\ \A g \in {SwapGain(n), CommunityGain(n), KnsGain(n), StatsGain} :
                 g["lastSwapDayReset"] = 0
           /\ SwapGain(n)["swapPointsToday"] = n
           /\ CommunityGain(n)["swapPointsToday"] = 0
           /\ CommunityGain(n)["communityPointsThisWeek"] = n
           /\ \A g \in {KnsGain(n), StatsGain} : g["swapPointsToday"] = 0
  BY DEF AddsUp, SwapGain, CommunityGain, KnsGain, StatsGain, Gain,
         Column, Lifetime, Part, Counter, ResetDate

LEMMA AddsUpPlus ==
    ASSUME NEW d \in Row, NEW g \in Row, AddsUp(d), AddsUp(g)
    PROVE  AddsUp(Plus(d, g))
<1> DEFINE e == Plus(d, g)
<1>1. \A f \in Column : e[f] = d[f] + g[f] /\ d[f] \in Nat /\ g[f] \in Nat
  BY RowSums DEF Row
<1> HIDE DEF e
<1>2. {"totalPoints", "swapPoints", "communityPoints", "knsPoints"} \subseteq Column
  BY DEF Column, Lifetime, Part
<1>3. e["totalPoints"] = e["swapPoints"] + e["communityPoints"] + e["knsPoints"]
  BY <1>1, <1>2 DEF AddsUp
<1> QED
  BY <1>3 DEF AddsUp, e

(* A grant that fits reaches the row and what is due alike.                *)
LEMMA GrantKeepsTable ==
    ASSUME LedgerTypeOK, Undisturbed, TableInv, rows # <<>>,
           NEW g \in Row, AddsUp(g), g["lastSwapDayReset"] = 0,
           rows[1]["swapPointsToday"] + g["swapPointsToday"] <= SWAP_POINTS_DAILY_CAP,
           Len(rows') = 1, rows'[1] = Plus(rows[1], g), due' = Plus(due, g), day' = day
    PROVE  TableInv'
<1>1. rows \in Seq(Row) /\ Len(rows) <= 1 /\ due \in Row /\ day \in Nat
  BY LedgerAssumption DEF LedgerTypeOK, Row, Undisturbed
<1>2. rows[1] \in Row
  BY <1>1, OneRow
<1>3. Faithful(rows[1], due, day) /\ AddsUp(due)
  BY DEF TableInv
<1>4. Faithful(rows'[1], due', day')
  BY <1>1, <1>2, <1>3, FaithfulPlus
<1>5. AddsUp(due')
  BY <1>1, <1>3, AddsUpPlus
<1>6. rows' # <<>>
  BY NotEmpty
<1> QED
  BY <1>4, <1>5, <1>6 DEF TableInv

(* The reset of the day is accounted for by one cap.                       *)
LEMMA ResetFaithful ==
    ASSUME NEW r \in Row, NEW d \in Row, day \in Nat \ {0}, Faithful(r, d, day), NEW oldest \in Int
    PROVE  /\ Faithful(ResetRow(r, "swapPointsToday", "lastSwapDayReset", day), d, day)
           /\ Faithful(ResetRow(r, "communityPointsThisWeek", "lastWeekReset", oldest), d, day)
<1>1. \A f \in Column : r[f] \in Nat /\ d[f] \in Nat
  BY DEF Row
<1>2. Faithful(ResetRow(r, "swapPointsToday", "lastSwapDayReset", day), d, day)
  <2> DEFINE q == [r EXCEPT !["swapPointsToday"] = 0, !["lastSwapDayReset"] = day]
  <2>1. /\ \A f \in Column : q[f] = IF f = "swapPointsToday" THEN 0
                                    ELSE IF f = "lastSwapDayReset" THEN day ELSE r[f]
    BY DEF Row
  <2> HIDE DEF q
  <2>2. CASE \/ r["lastSwapDayReset"] > 0 /\ r["lastSwapDayReset"] < day
             \/ r["lastSwapDayReset"] = 0 /\ r["swapPointsToday"] > 0
    <3>1. ResetRow(r, "swapPointsToday", "lastSwapDayReset", day) = q
      BY <2>2 DEF ResetRow, q
    <3>2. \A f \in Lifetime : q[f] = d[f]
      BY <2>1, Columns DEF Faithful
    <3>3. q["swapPointsToday"] = 0 /\ q["lastSwapDayReset"] = day
      BY <2>1, Columns DEF Column, Counter, ResetDate
    <3>4. d["swapPointsToday"] <= SWAP_POINTS_DAILY_CAP
      <4>1. r["lastSwapDayReset"] # day
        BY <1>1, <2>2, Columns
      <4>2. /\ d["swapPointsToday"] <= r["swapPointsToday"] + 0
            /\ r["swapPointsToday"] <= SWAP_POINTS_DAILY_CAP
        BY <4>1 DEF Faithful
      <4> QED
        BY <1>1, <4>2, Columns, ServiceAssumption
    <3>5. Faithful(q, d, day)
      BY <3>2, <3>3, <3>4, ServiceAssumption DEF Faithful
    <3> QED
      BY <3>1, <3>5
  <2>3. CASE ~ \/ r["lastSwapDayReset"] > 0 /\ r["lastSwapDayReset"] < day
               \/ r["lastSwapDayReset"] = 0 /\ r["swapPointsToday"] > 0
    BY <2>3 DEF ResetRow
  <2> QED
    BY <2>2, <2>3
<1>3. Faithful(ResetRow(r, "communityPointsThisWeek", "lastWeekReset", oldest), d, day)
  <2> DEFINE q == [r EXCEPT !["communityPointsThisWeek"] = 0, !["lastWeekReset"] = day]
  <2>1. \A f \in Column : q[f] = IF f = "communityPointsThisWeek" THEN 0
                                 ELSE IF f = "lastWeekReset" THEN day ELSE r[f]
    BY DEF Row
  <2> HIDE DEF q
  <2>2. Faithful(q, d, day)
    <3>1. \A f \in Lifetime : q[f] = d[f]
      BY <2>1, Columns DEF Faithful
    <3>2. /\ q["swapPointsToday"] = r["swapPointsToday"]
          /\ q["lastSwapDayReset"] = r["lastSwapDayReset"]
      BY <2>1, Columns
    <3> QED
      BY <3>1, <3>2, ServiceAssumption DEF Faithful
  <2> QED
    BY <2>2 DEF ResetRow, q
<1> QED
  BY <1>2, <1>3

(* Nobody but the request that moves is in the middle of anything.         *)
LEMMA Alone ==
    ASSUME ServiceTypeOK, OneAtATime, \A b \in Call : Errand(b),
           NEW c \in Call, Busy(c)
    PROVE  \A b \in Call : b # c => ~Busy(b) /\ access[b].step = "none"
<1>1. \A b \in Call : b # c => ~Busy(b)
  BY DEF OneAtATime
<1>2. \A b \in Call : ~Busy(b) => access[b].step = "none"
  BY DEF Busy, Errand
<1> QED
  BY <1>1, <1>2

LEMMA IdleIsCurrent ==
    ASSUME NEW b \in Call, ~Busy(b)
    PROVE  Current(b)
  BY DEF Busy, Current

LEMMA IdleIsCurrentNext ==
    ASSUME NEW b \in Call, ~Busy(b)'
    PROVE  Current(b)'
  BY DEF Busy, Current

(* A step of one request that leaves the table alone.                      *)
LEMMA SerialStep ==
    ASSUME OneAtATime, Undisturbed, TableInv, NEW c \in Call,
           \A b \in Call : b # c =>
              ~Busy(b) /\ request'[b] = request[b]
                /\ access[b].step = "none" /\ access'[b] = access[b],
           access'[c].step \in {"none", "read"} \/ access'[c] = access[c],
           UNCHANGED <<day, rows, due>>, Current(c)'
    PROVE  SerialInv'
<1>1. \A b \in Call : b # c => ~Busy(b)'
  BY DEF Busy
<1>2. OneAtATime'
  BY <1>1 DEF OneAtATime
<1>3. \A b \in Call : Current(b)'
  BY <1>1, IdleIsCurrentNext
<1>4. Undisturbed'
  BY DEF Undisturbed
<1>5. TableInv'
  BY DEF TableInv
<1> QED
  BY <1>2, <1>3, <1>4, <1>5 DEF SerialInv

(* The award that quota and check are about to ask for fits.               *)
LEMMA QuotaSerial ==
    ASSUME LedgerTypeOK, LedgerTypeOK', ServiceTypeOK, SerialInv, \A b \in Call : Errand(b),
           NEW c \in Call, Quota(c)
    PROVE  SerialInv'
<1> USE DEF SerialInv
<1>1. Busy(c) /\ request[c].step = "quota" /\ Returned(c) /\ request[c] \in Request
  BY DEF Quota, At, Busy, ServiceTypeOK
<1>2. rows # <<>> /\ access[c].record = rows[1]
  BY <1>1 DEF Current
<1>3. \A b \in Call : b # c => ~Busy(b) /\ access[b].step = "none"
  BY <1>1, Alone
<1>4. UNCHANGED <<day, rows, due>>
  BY DEF Quota
<1>5. CASE WillAward(c, CanAward(c)) /\ CanAward(c) > 0
  <2> DEFINE n == CanAward(c)
  <2>1. rows \in Seq(Row) /\ Len(rows) <= 1
    BY DEF LedgerTypeOK, Row, Undisturbed
  <2>2. rows[1]["swapPointsToday"] \in Nat /\ request[c].sig \in Signature
    BY <1>1, <1>2, <2>1, OneRow, Columns DEF Row, Request
  <2>3. calculateSwapPoints(request[c].sig) \in Nat
    BY <2>2, RequestTypes
  <2>4. n \in Nat /\ rows[1]["swapPointsToday"] + n <= SWAP_POINTS_DAILY_CAP
    BY <1>2, <1>5, <2>2, <2>3, ServiceAssumption DEF CanAward, Lesser
  <2>5. WillAward(c, n)
    BY <1>5
  <2> HIDE DEF n
  <2>6. /\ request'[c].step = "add" /\ request'[c].want = n
        /\ \A b \in Call : b # c => request'[b] = request[b]
    BY <1>1, <2>5 DEF WillAward, ServiceTypeOK, Request
  <2>7. /\ access'[c].step = "read"
        /\ \A b \in Call : b # c => access'[b] = access[b]
    BY <2>5 DEF WillAward, Add, Begin, NoAccess, LedgerTypeOK
  <2>8. Current(c)'
    BY <1>2, <1>4, <2>4, <2>6 DEF Current
  <2> QED
    BY <1>3, <1>4, <2>6, <2>7, <2>8, SerialStep
<1>6. CASE End(c)
  <2>1. /\ request'[c].step = "over" /\ access'[c].step = "none"
        /\ \A b \in Call : b # c => request'[b] = request[b] /\ access'[b] = access[b]
    <3>1. request'[c] = Idle("over") /\ access'[c] = NoAccess
      BY <1>6, MovesTo
    <3>2. request'[c].step = "over" /\ access'[c].step = "none"
      BY <3>1 DEF Idle, NoAccess
    <3> QED
      BY <1>6, <3>2, MovesTo
  <2>2. Current(c)'
    BY <2>1 DEF Current
  <2> QED
    BY <1>3, <1>4, <2>1, <2>2, SerialStep
<1> QED
  BY <1>5, <1>6 DEF Quota

LEMMA CheckSerial ==
    ASSUME LedgerTypeOK, LedgerTypeOK', ServiceTypeOK, SerialInv, \A b \in Call : Errand(b),
           NEW c \in Call, Check(c)
    PROVE  SerialInv'
<1> USE DEF SerialInv
<1>1. Busy(c) /\ request[c].step = "check" /\ Returned(c) /\ request[c] \in Request
  BY DEF Check, At, Busy, ServiceTypeOK
<1>2. rows # <<>> /\ access[c].record = rows[1]
  BY <1>1 DEF Current
<1>3. \A b \in Call : b # c => ~Busy(b) /\ access[b].step = "none"
  BY <1>1, Alone
<1>4. UNCHANGED <<day, rows, due>>
  BY DEF Check
<1>5. CASE UnderWeeklyCap(c) /\ Goto(c, "grant") /\ Add(c, CommunityGain(request[c].want))
  <2>1. /\ request'[c].step = "grant" /\ request'[c].want = request[c].want
        /\ \A b \in Call : b # c => request'[b] = request[b]
    BY <1>1, <1>5 DEF Goto, ServiceTypeOK, Request
  <2>2. /\ access'[c].step = "read"
        /\ \A b \in Call : b # c => access'[b] = access[b]
    BY <1>5 DEF Add, Begin, NoAccess, LedgerTypeOK
  <2>3. Current(c)'
    BY <1>2, <1>4, <1>5, <2>1 DEF Current, UnderWeeklyCap
  <2> QED
    BY <1>3, <1>4, <2>1, <2>2, <2>3, SerialStep
<1>6. CASE End(c)
  <2>1. /\ request'[c].step = "over" /\ access'[c].step = "none"
        /\ \A b \in Call : b # c => request'[b] = request[b] /\ access'[b] = access[b]
    <3>1. request'[c] = Idle("over") /\ access'[c] = NoAccess
      BY <1>6, MovesTo
    <3>2. request'[c].step = "over" /\ access'[c].step = "none"
      BY <3>1 DEF Idle, NoAccess
    <3> QED
      BY <1>6, <3>2, MovesTo
  <2>2. Current(c)'
    BY <2>1 DEF Current
  <2> QED
    BY <1>3, <1>4, <2>1, <2>2, SerialStep
<1> QED
  BY <1>5, <1>6 DEF Check

(* The statements of the one call in progress.                             *)
LEMMA TableSerial ==
    ASSUME LedgerTypeOK, LedgerTypeOK', ServiceTypeOK, SerialInv, \A b \in Call : Errand(b),
           NEW c \in Call, Table(c)
    PROVE  SerialInv'
<1> USE DEF SerialInv
<1> DEFINE g == access[c].gain
           n == request[c].want
<1>1. LedgerStep(c) /\ UNCHANGED request /\ Errand(c) /\ Current(c)
  BY DEF Table
<1>2. g \in Row /\ n \in Nat /\ request[c].step \in Step
  BY DEF LedgerTypeOK, Access, Row, ServiceTypeOK, Request
<1>3. /\ day' = day /\ access[c].step \in {"read", "create", "reload", "write"}
      /\ \A b \in Call : b # c => access'[b] = access[b]
  BY <1>1, LedgerMoves
<1>4. Busy(c) /\ request[c].step \in {"quota", "check", "review", "add", "stats", "grant", "credit"}
  BY <1>1, <1>2, <1>3 DEF Errand, Busy, Step
<1>5. \A b \in Call : b # c => ~Busy(b) /\ access[b].step = "none"
  BY <1>4, Alone
<1>6. /\ Undisturbed'
      /\ access[c].step # "write" =>
            /\ \/ rows' = rows
               \/ rows = <<>> /\ Len(rows') = 1 /\ rows'[1] = Blank
            /\ access'[c].step = "done" =>
                  rows' # <<>> /\ access'[c].record = Plus(rows'[1], g)
      /\ access[c].step = "write" =>
            /\ rows # <<>>
            /\ Len(rows') = 1 /\ rows'[1] = Plus(rows[1], g)
  BY <1>1, <1>5, LedgerMovesAlone
<1>7. \A b \in Call : b # c => ~Busy(b)'
  BY <1>1, <1>5 DEF Busy
<1>8. OneAtATime'
  BY <1>7 DEF OneAtATime
<1>9. \A b \in Call : b # c => Current(b)'
  BY <1>7, IdleIsCurrentNext
<1>10. CASE access[c].step # "write"
  <2>1. due' = due
    BY <1>1, <1>10, LedgerMoves
  <2>2. TableInv'
    <3>1. CASE rows' = rows
      BY <1>3, <2>1, <3>1 DEF TableInv
    <3>2. CASE rows = <<>> /\ Len(rows') = 1 /\ rows'[1] = Blank
      <4>1. \A f \in Lifetime \union Counter : due[f] = 0
        BY <3>2 DEF TableInv
      <4>2. /\ due["swapPointsToday"] = 0
            /\ \A f \in Lifetime : Blank[f] = due[f]
            /\ Blank["swapPointsToday"] = 0 /\ Blank["lastSwapDayReset"] = 0
        BY <4>1, Gains, Columns DEF Counter
      <4>3. Faithful(Blank, due, day)
        BY <4>2, ServiceAssumption DEF Faithful, LedgerTypeOK
      <4>4. rows' # <<>>
        BY <3>2, NotEmpty
      <4> QED
        BY <1>3, <2>1, <3>2, <4>3, <4>4 DEF TableInv
    <3> QED
      BY <1>6, <1>10, <3>1, <3>2
  <2>3. Current(c)'
    <3>1. ASSUME request[c].step \in {"quota", "check", "review"}, access'[c].step = "done"
          PROVE  rows' # <<>> /\ access'[c].record = rows'[1]
      <4>1. g = Blank /\ rows' # <<>> /\ access'[c].record = Plus(rows'[1], g)
        BY <1>1, <1>6, <1>10, <3>1 DEF Errand
      <4>2. rows'[1] \in Row
        <5>1. rows' \in Seq(Row) /\ Len(rows') <= 1
          BY <1>6 DEF Undisturbed, LedgerTypeOK, Row
        <5> QED
          BY <4>1, <5>1, OneRow
      <4>3. Plus(rows'[1], Blank) = rows'[1]
        BY <4>2, PlusBlank
      <4> QED
        BY <4>1, <4>3
    <3>2. ASSUME request[c].step \in {"add", "grant"}, access'[c].step # "done"
          PROVE  rows # <<>> /\ rows' = rows
      <4>1. rows # <<>>
        BY <1>1, <1>3, <3>2 DEF Current, Returned
      <4> QED
        BY <1>6, <1>10, <4>1
    <3>3. access[c].step # "done"
      BY <1>3
    <3> QED
      BY <1>1, <3>1, <3>2, <3>3 DEF Current, Returned
  <2> QED
    BY <1>6, <1>8, <1>9, <2>2, <2>3
<1>11. CASE access[c].step = "write"
  <2>1. due' = Plus(due, g) /\ access'[c].step = "done"
    BY <1>1, <1>11, LedgerMoves
  <2>2. request[c].step \in {"add", "stats", "grant", "credit"}
    BY <1>1, <1>4, <1>11 DEF Errand
  <2>3. Current(c)'
    BY <1>1, <2>1, <2>2 DEF Current, Returned
  <2>4. rows # <<>> /\ rows \in Seq(Row) /\ Len(rows) <= 1
    BY <1>6, <1>11 DEF LedgerTypeOK, Row, Undisturbed
  <2>5. rows[1] \in Row /\ Faithful(rows[1], due, day)
    BY <2>4, OneRow DEF TableInv
  <2>6. /\ AddsUp(g) /\ g["lastSwapDayReset"] = 0
        /\ rows[1]["swapPointsToday"] + g["swapPointsToday"] <= SWAP_POINTS_DAILY_CAP
    <3>0. /\ rows[1]["swapPointsToday"] \in Nat
          /\ rows[1]["swapPointsToday"] <= SWAP_POINTS_DAILY_CAP
      BY <2>5, Columns DEF Row, Faithful
    <3>1. CASE request[c].step = "add"
      <4>1. g = SwapGain(n) /\ rows[1]["swapPointsToday"] + n <= SWAP_POINTS_DAILY_CAP
        BY <1>1, <1>11, <3>1 DEF Errand, Current, Returned
      <4> HIDE DEF g, n
      <4> QED
        BY <1>2, <3>0, <4>1, GainColumns
    <3>2. CASE request[c].step = "stats"
      <4>1. g = StatsGain
        BY <1>1, <1>11, <3>2 DEF Errand, Returned
      <4> HIDE DEF g, n
      <4> QED
        BY <1>2, <3>0, <4>1, GainColumns
    <3>3. CASE request[c].step \in {"grant", "credit"}
      <4>1. g = CommunityGain(n)
        BY <1>1, <1>11, <3>3 DEF Errand, Returned
      <4> HIDE DEF g, n
      <4> QED
        BY <1>2, <3>0, <4>1, GainColumns
    <3> QED
      BY <2>2, <3>1, <3>2, <3>3
  <2>7. Len(rows') = 1 /\ rows'[1] = Plus(rows[1], g) /\ day' = day
    BY <1>3, <1>6, <1>11
  <2> HIDE DEF g, n
  <2>8. TableInv'
    BY <1>2, <2>1, <2>4, <2>6, <2>7, GrantKeepsTable
  <2> QED
    BY <1>6, <1>8, <1>9, <2>3, <2>8
<1> QED
  BY <1>10, <1>11

(* The other steps of a request.                                           *)
LEMMA ProceedSerial ==
    ASSUME LedgerTypeOK, LedgerTypeOK', ServiceTypeOK, SerialInv, \A b \in Call : Errand(b),
           NEW c \in Call, Proceed(c)
    PROVE  SerialInv'
<1> USE DEF SerialInv
<1>1. CASE Quota(c) \/ Check(c) \/ Table(c)
  BY <1>1, QuotaSerial, CheckSerial, TableSerial
<1>2. CASE \/ FindSwap(c) \/ StoreSwap(c) \/ StoreConflict(c) \/ Added(c)
           \/ Counted(c) \/ updatePointsAwarded(c) \/ Approved(c) \/ Granted(c)
  <2>1. Busy(c) /\ request[c] \in Request
    BY <1>2 DEF FindSwap, StoreSwap, StoreConflict, Added, Counted, updatePointsAwarded,
                Approved, Granted, At, Busy, ServiceTypeOK
  <2>2. \A b \in Call : b # c => ~Busy(b) /\ access[b].step = "none"
    BY <2>1, Alone
  <2>3. UNCHANGED <<day, rows, due>>
    BY <1>2 DEF FindSwap, StoreSwap, StoreConflict, Added, Counted, updatePointsAwarded,
                Approved, Granted, ledgerVars
  <2>4. /\ \A b \in Call : b # c => request'[b] = request[b] /\ access'[b] = access[b]
        /\ access'[c].step \in {"none", "read"} \/ access'[c] = access[c]
        /\ Current(c)'
    <3>1. CASE StoreConflict(c) \/ updatePointsAwarded(c) \/ Granted(c) \/ End(c)
      <4>1. End(c)
        BY <3>1 DEF StoreConflict, updatePointsAwarded, Granted
      <4>2. request'[c] = Idle("over") /\ access'[c] = NoAccess
        BY <4>1, MovesTo
      <4>3. request'[c].step = "over" /\ access'[c].step = "none"
        BY <4>2 DEF Idle, NoAccess
      <4> QED
        BY <4>1, <4>3, MovesTo DEF Current
    <3>2. CASE FindSwap(c)
      <4>1. /\ access' = access /\ request'[c].step = "store"
            /\ \A b \in Call : b # c => request'[b] = request[b]
        BY <2>1, <3>2 DEF FindSwap, ledgerVars, ServiceTypeOK, Request
      <4> QED
        BY <4>1 DEF Current
    <3>3. CASE Goto(c, "quota") /\ GetOrCreate(c)
      <4>1. /\ request'[c].step = "quota"
            /\ \A b \in Call : b # c => request'[b] = request[b]
        BY <2>1, <3>3 DEF Goto, ServiceTypeOK, Request
      <4>2. /\ access'[c].step = "read"
            /\ \A b \in Call : b # c => access'[b] = access[b]
        BY <3>3 DEF GetOrCreate, Begin, NoAccess, LedgerTypeOK
      <4> QED
        BY <4>1, <4>2 DEF Current, Returned
    <3>4. CASE Added(c)
      <4>1. /\ request'[c].step = "stats"
            /\ \A b \in Call : b # c => request'[b] = request[b]
        BY <2>1, <3>4 DEF Added, Goto, ServiceTypeOK, Request
      <4>2. /\ access'[c].step = "read"
            /\ \A b \in Call : b # c => access'[b] = access[b]
        BY <3>4 DEF Added, Add, Begin, NoAccess, LedgerTypeOK
      <4> QED
        BY <4>1, <4>2 DEF Current
    <3>5. CASE Counted(c)
      <4>1. /\ request'[c].step = "flag"
            /\ \A b \in Call : b # c => request'[b] = request[b]
        BY <2>1, <3>5 DEF Counted, Goto, ServiceTypeOK, Request
      <4>2. /\ access'[c].step = "none"
            /\ \A b \in Call : b # c => access'[b] = access[b]
        BY <3>5 DEF Counted, Leave, NoAccess, LedgerTypeOK
      <4> QED
        BY <4>1, <4>2 DEF Current
    <3>6. CASE Goto(c, "credit") /\ Add(c, CommunityGain(request[c].want))
      <4>1. /\ request'[c].step = "credit"
            /\ \A b \in Call : b # c => request'[b] = request[b]
        BY <2>1, <3>6 DEF Goto, ServiceTypeOK, Request
      <4>2. /\ access'[c].step = "read"
            /\ \A b \in Call : b # c => access'[b] = access[b]
        BY <3>6 DEF Add, Begin, NoAccess, LedgerTypeOK
      <4> QED
        BY <4>1, <4>2 DEF Current
    <3> QED
      BY <1>2, <3>1, <3>2, <3>3, <3>4, <3>5, <3>6 DEF StoreSwap, Approved
  <2> QED
    BY <2>2, <2>3, <2>4, SerialStep
<1> QED
  BY <1>1, <1>2 DEF Proceed

LEMMA ArriveSerial ==
    ASSUME LedgerTypeOK, ServiceTypeOK, SerialInv, \A b \in Call : Errand(b),
           Quiet, NEW c \in Call, Arrive(c)
    PROVE  SerialInv'
<1> USE DEF SerialInv
<1>1. request[c] \in Request /\ \A b \in Call : ~Busy(b) /\ access[b].step = "none"
  BY DEF Quiet, Busy, Errand, ServiceTypeOK
<1>2. UNCHANGED <<day, rows, due>>
  BY DEF Arrive, LogSwap, AwardCommunity, Approve, ledgerVars
<1>3. /\ \A b \in Call : b # c => request'[b] = request[b] /\ access'[b] = access[b]
      /\ access'[c].step \in {"none", "read"} \/ access'[c] = access[c]
      /\ Current(c)'
  <2>1. CASE LogSwap(c)
    <3>1. /\ access' = access /\ request'[c].step = "find"
          /\ \A b \in Call : b # c => request'[b] = request[b]
      BY <1>1, <2>1 DEF LogSwap, ledgerVars, ServiceTypeOK, Request
    <3> QED
      BY <3>1 DEF Current
  <2>2. CASE AwardCommunity(c) \/ Approve(c)
    <3>1. /\ request'[c].step \in {"check", "review"}
          /\ \A b \in Call : b # c => request'[b] = request[b]
      BY <1>1, <2>2 DEF AwardCommunity, Approve, ServiceTypeOK, Request
    <3>2. /\ access'[c].step = "read"
          /\ \A b \in Call : b # c => access'[b] = access[b]
      BY <2>2 DEF AwardCommunity, Approve, GetOrCreate, Begin, NoAccess, LedgerTypeOK
    <3> QED
      BY <3>1, <3>2 DEF Current, Returned
  <2> QED
    BY <2>1, <2>2 DEF Arrive
<1> QED
  BY <1>1, <1>2, <1>3, SerialStep

(* What changes only the table, the day and what is due, while no request  *)
(* is in progress or touching neither the rows nor their accounts.         *)
LEMMA BackgroundSerial ==
    ASSUME SerialInv, UNCHANGED <<request, access>>, TableInv',
           \/ UNCHANGED rows
           \/ Quiet /\ (\A b \in Call : Errand(b)) /\ Len(rows') <= 1
    PROVE  SerialInv'
<1>1. OneAtATime'
  BY DEF SerialInv, OneAtATime, Busy
<1>2. CASE UNCHANGED rows
  BY <1>1, <1>2 DEF SerialInv, Undisturbed, Current, Returned
<1>3. CASE Quiet /\ (\A b \in Call : Errand(b)) /\ Len(rows') <= 1
  <2>1. \A b \in Call : request'[b].step \in {"new", "over"} /\ access'[b].step = "none"
    BY <1>3 DEF Quiet, Errand
  <2>2. Undisturbed'
    BY <1>3, <2>1 DEF Undisturbed
  <2>3. \A b \in Call : Current(b)'
    BY <2>1 DEF Current
  <2> QED
    BY <1>1, <2>2, <2>3 DEF SerialInv
<1> QED
  BY <1>2, <1>3

LEMMA StatementSerial ==
    ASSUME LedgerTypeOK, LedgerTypeOK', SerialInv, \A b \in Call : Errand(b), Quiet, Statement
    PROVE  SerialInv'
<1>1. /\ rows \in Seq(Row) /\ Len(rows) <= 1 /\ due \in Row /\ day \in Nat \ {0}
      /\ rows' \in Seq(Row)
      /\ TableInv /\ Undisturbed
  BY LedgerAssumption DEF SerialInv, Undisturbed, LedgerTypeOK, Row
<1>2. UNCHANGED <<request, access, day>>
  BY DEF Statement, CreditKns, BulkAddKns, resetDailyCounters, resetWeeklyCounters,
         batchResetDailySwapCounters, batchResetWeeklyCounters, BatchReset
<1>3. Len(rows') <= 1 /\ TableInv'
  <2>1. CASE CreditKns
    <3>1. PICK n \in KnsPoints : BulkAddKns(n)
      BY <2>1 DEF CreditKns
    <3> DEFINE g == KnsGain(n)
    <3>2. n \in Nat /\ g \in Row
      BY ServiceAssumption, Gains
    <3>3. /\ rows # <<>> /\ rows' = [i \in DOMAIN rows |-> Plus(rows[i], g)]
          /\ due' = Plus(due, g) /\ day' = day
      BY <3>1 DEF BulkAddKns
    <3>4. /\ AddsUp(g) /\ g["lastSwapDayReset"] = 0
          /\ g["swapPointsToday"] = 0
      BY <3>2, GainColumns
    <3> HIDE DEF g
    <3>5. DOMAIN rows = {1} /\ rows[1] \in Row /\ Faithful(rows[1], due, day)
      BY <1>1, <3>3, OneRow DEF TableInv
    <3>6. Len(rows') = 1 /\ rows'[1] = Plus(rows[1], g)
      <4>1. DOMAIN rows' = {1} /\ rows'[1] = Plus(rows[1], g)
        BY <3>3, <3>5
      <4>2. Len(rows') = 1
        BY <1>1, <4>1, OneLong
      <4> QED
        BY <4>1, <4>2
    <3>7. rows[1]["swapPointsToday"] + g["swapPointsToday"] <= SWAP_POINTS_DAILY_CAP
      BY <3>4, <3>5, Columns DEF Faithful, Row
    <3>8. TableInv'
      BY <1>1, <3>2, <3>3, <3>4, <3>6, <3>7, GrantKeepsTable
    <3> QED
      BY <3>6, <3>8
  <2>2. CASE resetDailyCounters \/ resetWeeklyCounters
    <3> DEFINE Reset(r) == IF resetDailyCounters
                             THEN ResetRow(r, "swapPointsToday", "lastSwapDayReset", day)
                             ELSE ResetRow(r, "communityPointsThisWeek", "lastWeekReset",
                                           day - WEEK)
    <3>1. rows' = [i \in DOMAIN rows |-> Reset(rows[i])] /\ due' = due /\ day' = day
      BY <2>2 DEF resetDailyCounters, resetWeeklyCounters, batchResetDailySwapCounters,
                  batchResetWeeklyCounters, BatchReset
    <3>2. ASSUME NEW r \in Row, Faithful(r, due, day) PROVE Faithful(Reset(r), due, day)
      BY <1>1, <3>2, LedgerAssumption, ResetFaithful
    <3> HIDE DEF Reset
    <3>3. CASE rows = <<>>
      <4>1. DOMAIN rows' = {}
        BY <3>1, <3>3
      <4>2. rows' = <<>> /\ Len(rows') <= 1
        BY <1>1, <4>1
      <4> QED
        BY <1>1, <3>1, <3>3, <4>2 DEF TableInv
    <3>4. CASE rows # <<>>
      <4>1. DOMAIN rows = {1} /\ rows[1] \in Row /\ Faithful(rows[1], due, day)
        BY <1>1, <3>4, OneRow DEF TableInv
      <4>2. DOMAIN rows' = {1} /\ rows'[1] = Reset(rows[1])
        BY <3>1, <4>1
      <4>3. Len(rows') = 1 /\ rows' # <<>>
        BY <1>1, <4>2, OneLong, NotEmpty
      <4>4. Faithful(rows'[1], due, day)
        BY <3>2, <4>1, <4>2
      <4> QED
        BY <1>1, <3>1, <4>3, <4>4 DEF TableInv
    <3> QED
      BY <3>3, <3>4
  <2> QED
    BY <2>1, <2>2 DEF Statement
<1> QED
  BY <1>2, <1>3, BackgroundSerial

LEMMA TickSerial ==
    ASSUME LedgerTypeOK, SerialInv, Tick
    PROVE  SerialInv'
<1>1. /\ rows \in Seq(Row) /\ Len(rows) <= 1 /\ due \in Row /\ day \in Nat
      /\ TableInv
  BY LedgerAssumption DEF SerialInv, Undisturbed, LedgerTypeOK, Row
<1>2. UNCHANGED <<request, access, rows>>
  BY DEF Tick, Midnight, ledgerVars
<1>3. CASE UNCHANGED ledgerVars
  <2>1. TableInv'
    BY <1>1, <1>3 DEF ledgerVars, TableInv
  <2> QED
    BY <1>2, <2>1, BackgroundSerial
<1>4. CASE Midnight
  <2>1. /\ \A f \in Lifetime : due'[f] = due[f]
        /\ due'["swapPointsToday"] = 0
        /\ due'["communityPointsThisWeek"] \in {0, due["communityPointsThisWeek"]}
        /\ day' = day + 1
    BY <1>1, <1>4, Columns DEF Midnight, Row
  <2>2. AddsUp(due')
    <3>1. {"totalPoints", "swapPoints", "communityPoints", "knsPoints"} \subseteq Lifetime
      BY DEF Lifetime, Part
    <3> QED
      BY <1>1, <2>1, <3>1 DEF TableInv, AddsUp
  <2>3. rows = <<>> => \A f \in Lifetime \union Counter : due'[f] = 0
    BY <1>1, <2>1 DEF TableInv, Counter
  <2>4. ASSUME rows # <<>> PROVE Faithful(rows[1], due', day')
    <3>1. rows[1] \in Row /\ Faithful(rows[1], due, day)
      BY <1>1, <2>4, OneRow DEF TableInv
    <3>2. rows[1]["swapPointsToday"] \in Nat /\ rows[1]["lastSwapDayReset"] \in Nat
      BY <3>1, Columns DEF Row
    <3>3. /\ \A f \in Lifetime : rows[1][f] = due'[f]
          /\ rows[1]["swapPointsToday"] <= SWAP_POINTS_DAILY_CAP
          /\ rows[1]["lastSwapDayReset"] <= day'
      BY <1>1, <2>1, <3>1, <3>2 DEF Faithful
    <3> QED
      BY <2>1, <3>2, <3>3, ServiceAssumption DEF Faithful
  <2>5. TableInv'
    BY <1>2, <2>2, <2>3, <2>4 DEF TableInv
  <2> QED
    BY <1>2, <2>5, BackgroundSerial
<1> QED
  BY <1>3, <1>4 DEF Tick

LEMMA SerialIsPoints == SerialSpec => PointsSpec
<1>1. [SerialNext]_pointsVars => [PointsNext]_pointsVars
  BY DEF SerialNext, PointsNext
<1> QED
  BY <1>1, PTL DEF SerialSpec, PointsSpec

LEMMA SerialInductive == SerialSpec => [](PointsInv /\ SettledInv /\ SerialInv)
<1>1. PointsInit /\ PointsInv => SerialInv
  <2> SUFFICES ASSUME PointsInit, PointsInv PROVE SerialInv
    OBVIOUS
  <2>1. /\ \A c \in Call : request[c].step = "new" /\ access[c].step = "none"
        /\ due = Blank /\ rows \in {<<>>, <<Blank>>} /\ day = 1
    BY DEF PointsInit, LedgerInit, Idle, NoAccess
  <2>2. OneAtATime /\ \A c \in Call : Current(c)
    BY <2>1 DEF OneAtATime, Busy, Current
  <2>3. Undisturbed
    <3>1. Len(<<>>) <= 1 /\ Len(<<Blank>>) <= 1
      OBVIOUS
    <3> QED
      BY <2>1, <3>1 DEF Undisturbed
  <2>4. /\ \A f \in Lifetime \union Counter : due[f] = 0
        /\ AddsUp(due)
    BY <2>1 DEF Blank, AddsUp, Column, Lifetime, Part, Counter
  <2>5. ASSUME rows # <<>> PROVE Faithful(rows[1], due, day)
    <3>1. rows[1] = Blank /\ due = Blank
      BY <2>1, <2>5
    <3>2. Faithful(Blank, Blank, 1)
      BY Gains, Columns, ServiceAssumption DEF Faithful
    <3> QED
      BY <2>1, <3>1, <3>2
  <2> QED
    BY <2>2, <2>3, <2>4, <2>5 DEF SerialInv, TableInv
<1>2. PointsInv /\ PointsInv' /\ SettledInv /\ SerialInv /\ [SerialNext]_pointsVars
        => SerialInv'
  <2> SUFFICES ASSUME PointsInv, PointsInv', SettledInv, SerialInv, [SerialNext]_pointsVars
               PROVE  SerialInv'
    OBVIOUS
  <2>1. LedgerTypeOK /\ ServiceTypeOK /\ LedgerTypeOK' /\ \A b \in Call : Errand(b)
    BY DEF PointsInv, PointsTypeOK, ServiceTypeOK, SettledInv
  <2>2. CASE Quiet /\ \E c \in Call : Arrive(c)
    BY <2>1, <2>2, ArriveSerial
  <2>3. CASE \E c \in Call : Proceed(c)
    BY <2>1, <2>3, ProceedSerial
  <2>4. CASE Quiet /\ Statement
    BY <2>1, <2>4, StatementSerial
  <2>5. CASE Tick
    BY <2>1, <2>5, TickSerial
  <2>6. CASE UNCHANGED pointsVars
    <3>1. UNCHANGED <<request, access, rows>> /\ TableInv'
      BY <2>6 DEF pointsVars, ledgerVars, SerialInv, TableInv
    <3> QED
      BY <3>1, BackgroundSerial
  <2> QED
    BY <2>2, <2>3, <2>4, <2>5, <2>6 DEF SerialNext
<1> QED
  BY <1>1, <1>2, SerialIsPoints, SettledInductive, PTL DEF SerialSpec, PointsSpec

(* Without interference the read-modify-save updates and the UPDATE of the *)
(* distribution are exact, over resets and midnights: one row, whose       *)
(* lifetime columns are the sums of what was granted and whose total is    *)
(* the sum of its parts (user-points.entity.ts:78).                        *)
THEOREM ExactAlone == SerialSpec => []LedgerExact
<1>1. PointsInv /\ SerialInv => LedgerExact
  <2> SUFFICES ASSUME PointsInv, SerialInv PROVE LedgerExact
    OBVIOUS
  <2>1. rows \in Seq(Row) /\ Len(rows) <= 1 /\ TableInv
    BY DEF PointsInv, PointsTypeOK, LedgerTypeOK, Row, SerialInv, Undisturbed
  <2>2. ASSUME NEW i \in DOMAIN rows
        PROVE  /\ \A f \in Lifetime : rows[i][f] = due[f]
               /\ AddsUp(rows[i])
    <3>1. rows # <<>>
      BY <2>1, <2>2
    <3>2. i = 1 /\ Faithful(rows[1], due, day) /\ AddsUp(due)
      BY <2>1, <2>2, <3>1, OneRow DEF TableInv
    <3>3. {"totalPoints", "swapPoints", "communityPoints", "knsPoints"} \subseteq Lifetime
      BY DEF Lifetime, Part
    <3> QED
      BY <3>2, <3>3 DEF Faithful, AddsUp
  <2> QED
    BY <2>1, <2>2 DEF LedgerExact, AddsUp
<1> QED
  BY <1>1, SerialInductive, PTL

(* Without interference the daily cap is kept: swapPointsToday never       *)
(* exceeds it, and however often the replicas run the daily reset a wallet *)
(* is granted at most twice the cap in a UTC day                           *)
(* (user-points.entity.ts:87, user-points.repository.ts:192).              *)
THEOREM CapsKeptAlone == SerialSpec => []CapsKept
<1>1. PointsInv /\ SerialInv => CapsKept
  <2> SUFFICES ASSUME PointsInv, SerialInv PROVE CapsKept
    OBVIOUS
  <2>1. rows \in Seq(Row) /\ Len(rows) <= 1 /\ TableInv /\ due \in Row
    BY DEF PointsInv, PointsTypeOK, LedgerTypeOK, Row, SerialInv, Undisturbed
  <2>2. ASSUME NEW i \in DOMAIN rows
        PROVE  rows[i].swapPointsToday <= SWAP_POINTS_DAILY_CAP
    <3>1. rows # <<>>
      BY <2>1
    <3>2. i = 1 /\ Faithful(rows[1], due, day)
      BY <2>1, <3>1, OneRow DEF TableInv
    <3> QED
      BY <3>2 DEF Faithful
  <2>3. DayWithinTwoCaps
    <3>1. CASE rows = <<>>
      <4>1. due["swapPointsToday"] = 0
        BY <2>1, <3>1 DEF TableInv, Counter
      <4> QED
        BY <4>1, ServiceAssumption DEF DayWithinTwoCaps
    <3>2. CASE rows # <<>>
      <4>1. rows[1] \in Row /\ Faithful(rows[1], due, day)
        BY <2>1, <3>2, OneRow DEF TableInv
      <4>2. rows[1]["swapPointsToday"] \in Nat /\ due["swapPointsToday"] \in Nat
        BY <2>1, <4>1, Columns DEF Row
      <4> QED
        BY <4>1, <4>2, ServiceAssumption DEF Faithful, DayWithinTwoCaps
    <3> QED
      BY <3>1, <3>2
  <2> QED
    BY <2>2, <2>3 DEF CapsKept
<1> QED
  BY <1>1, SerialInductive, PTL

(* Without interference what points/award grants keeps the counter of the  *)
(* week within the cap, for any number of awards, approvals, swaps and     *)
(* resets before it (points.service.ts:413).                               *)
THEOREM AwardsWithinWeeklyCap == SerialSpec => AwardKeepsWeeklyCap
<1>1. PointsInv /\ PointsInv' /\ SettledInv /\ SerialInv
        => \A c \in Call : At(c, "grant") /\ SaveUpdate(c) =>
              rows'[access[c].id].communityPointsThisWeek <= COMMUNITY_POINTS_WEEKLY_CAP
  <2> SUFFICES ASSUME PointsInv, SettledInv, SerialInv,
                      NEW c \in Call, At(c, "grant"), SaveUpdate(c)
               PROVE  rows'[access[c].id].communityPointsThisWeek
                        <= COMMUNITY_POINTS_WEEKLY_CAP
    OBVIOUS
  <2> DEFINE g == access[c].gain
             n == request[c].want
  <2>1. LedgerTypeOK /\ ServiceTypeOK /\ LedgerStep(c) /\ access[c].step = "write"
    BY DEF PointsInv, PointsTypeOK, ServiceTypeOK, LedgerStep, SaveUpdate
  <2>2. /\ rows # <<>> /\ rows[1]["communityPointsThisWeek"] + n <= COMMUNITY_POINTS_WEEKLY_CAP
        /\ g = CommunityGain(n) /\ n \in Nat
    BY <2>1 DEF SerialInv, Current, SettledInv, Errand, At, Returned, ServiceTypeOK, Request
  <2>3. \A b \in Call : b # c => access[b].step = "none"
    BY <2>1, Alone DEF SerialInv, SettledInv, Busy, At
  <2>4. rows'[1] = Plus(rows[1], g) /\ access[c].id = 1
    <3>1. rows'[1] = Plus(rows[1], g)
      BY <2>1, <2>3, LedgerMovesAlone DEF SerialInv
    <3>2. rows \in Seq(Row) /\ Len(rows) <= 1 /\ access[c].id \in DOMAIN rows
      BY <2>1 DEF LedgerTypeOK, Row, SerialInv, Undisturbed
    <3> QED
      BY <2>2, <3>1, <3>2, OneRow
  <2>5. Plus(rows[1], g)["communityPointsThisWeek"]
          = rows[1]["communityPointsThisWeek"] + g["communityPointsThisWeek"]
    BY Columns DEF Plus
  <2>6. g["communityPointsThisWeek"] = n
    BY <2>2, GainColumns
  <2> QED
    BY <2>2, <2>4, <2>5, <2>6
<1> QED
  BY <1>1, SerialInductive, PTL DEF AwardKeepsWeeklyCap
=============================================================================
