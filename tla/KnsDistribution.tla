-------------------------- MODULE KnsDistribution --------------------------
(* The daily distribution of KNS holding points of the backend             *)
(* (kns-scheduler.service.ts), with the two tables it writes: the award    *)
(* history and the users' points.  Every await of executeDistribution is a *)
(* step of its own, since the other replicas run the same job at 00:05 and *)
(* an administrator may start it by hand at any time; isProcessing only    *)
(* guards one process.  There is no transaction around the job: a failing  *)
(* call or a crash leaves what was written before it.  The other writers   *)
(* of user_points (points.service.ts, the contributions controller) are    *)
(* outside this module: credited counts the UPDATEs that reached a row,    *)
(* not what a later save of another service leaves of them.                *)
EXTENDS Naturals, FiniteSets

CONSTANTS
    Wallet,     \* the KNS holders
    Replica,    \* the backend processes, each with its own scheduler
    LastDay,    \* bound: the days explored are 1 .. LastDay
    CHUNK_SIZE  \* the records one bulk statement carries

ASSUME LastDayAssumption == LastDay \in Nat \ {0}
ASSUME ChunkAssumption == CHUNK_SIZE \in Nat \ {0}

Day == 1 .. LastDay

VARIABLES
    day,        \* the current UTC day
    history,    \* kns_award_history: the status recorded for a wallet and a day
    rows,       \* user_points: how many rows a wallet has (no unique index)
    credited,   \* how often the award of a day was added to a wallet's points
    phase,      \* where the run of each replica is, "idle" when !isProcessing
    today,      \* the date of the run of each replica, 0 when it has none
    todo,       \* the wallets the current phase of the run still has to treat
    toInsert,   \* allAwardRecords not inserted yet
    toCredit    \* allPointsUpdates not applied yet

tables == <<history, rows, credited>>
locals == <<phase, today, todo, toInsert, toCredit>>
knsVars == <<day, tables, locals>>

Phase == {"idle", "fetch", "filter", "compute", "ensure", "create", "insert", "credit"}

(* The unique index on (wallet, awardDate) makes the history a function.   *)
(* A skipped wallet gets no record.                                        *)
Status == {"none", "success", "error"}

KnsInit ==
    /\ day = 1
    /\ history = [w \in Wallet |-> [d \in Day |-> "none"]]
    /\ rows \in [Wallet -> {0, 1}]
    /\ credited = [w \in Wallet |-> [d \in Day |-> 0]]
    /\ phase = [r \in Replica |-> "idle"]
    /\ today = [r \in Replica |-> 0]
    /\ todo = [r \in Replica |-> {}]
    /\ toInsert = [r \in Replica |-> {}]
    /\ toCredit = [r \in Replica |-> {}]

-----------------------------------------------------------------------------
(* The locals of a run that ends, returning or throwing, are gone; the     *)
(* finally block clears isProcessing.                                      *)
EndRun(r) ==
    /\ phase' = [phase EXCEPT ![r] = "idle"]
    /\ today' = [today EXCEPT ![r] = 0]
    /\ todo' = [todo EXCEPT ![r] = {}]
    /\ toInsert' = [toInsert EXCEPT ![r] = {}]
    /\ toCredit' = [toCredit EXCEPT ![r] = {}]

GoTo(r, p) == phase' = [phase EXCEPT ![r] = p]

(* Statements of the two tables. *)
UnprocessedToday(r) == {w \in todo[r] : history[w][today[r]] = "none"}

RecordStatus(S, d, s) ==
    history' = [w \in Wallet |-> IF w \in S THEN [history[w] EXCEPT ![d] = s] ELSE history[w]]

InsertRows(S) == rows' = [w \in Wallet |-> IF w \in S THEN rows[w] + 1 ELSE rows[w]]

(* The UPDATE reaches every row of the wallet, or none when it has none.   *)
AddPoints(S, d) ==
    credited' = [w \in Wallet |->
        IF w \in S /\ rows[w] > 0 THEN [credited[w] EXCEPT ![d] = @ + 1] ELSE credited[w]]

(* The chunks the bulk statements may cut from a list of wallets, whose    *)
(* order is that of the RPC's answer.                                      *)
Chunks(S) ==
    {C \in SUBSET S \ {{}} : /\ Cardinality(C) <= CHUNK_SIZE
                            /\ C # S => Cardinality(C) = CHUNK_SIZE}

-----------------------------------------------------------------------------
(* The cron job at 00:05 or a manual trigger; both return or throw when a  *)
(* run is in progress in this process.                                     *)
Start(r) ==
    /\ phase[r] = "idle"
    /\ GoTo(r, "fetch")
    /\ today' = [today EXCEPT ![r] = day]
    /\ UNCHANGED <<day, tables, todo, toInsert, toCredit>>

(* The holders with at least 10,000 KNS.  When the RPC fails the wallets   *)
(* come from the database without balances, so none is eligible.           *)
FetchHolders(r) ==
    /\ phase[r] = "fetch"
    /\ \E eligible \in SUBSET Wallet :
        \/ eligible = {} /\ EndRun(r)
        \/ /\ eligible # {}
           /\ GoTo(r, "filter")
           /\ todo' = [todo EXCEPT ![r] = eligible]
           /\ UNCHANGED <<today, toInsert, toCredit>>
    /\ UNCHANGED <<day, tables>>

FilterProcessed(r) ==
    /\ phase[r] = "filter"
    /\ \/ UnprocessedToday(r) = {} /\ EndRun(r)
       \/ /\ UnprocessedToday(r) # {}
          /\ GoTo(r, "compute")
          /\ todo' = [todo EXCEPT ![r] = UnprocessedToday(r)]
          /\ UNCHANGED <<today, toInsert, toCredit>>
    /\ UNCHANGED <<day, tables>>

(* One wallet's average is known: it earns points, or none, or its         *)
(* computation failed and an error record is tried, whose own failure is   *)
(* only logged.  After the last wallet the bulk statements follow, unless  *)
(* there is nothing to write.                                              *)
Collect(r, w, outcome) ==
    /\ phase[r] = "compute" /\ w \in todo[r]
    /\ IF outcome = "error" /\ history[w][today[r]] = "none"
         THEN RecordStatus({w}, today[r], "error")
         ELSE UNCHANGED history
    /\ LET awards == IF outcome = "award" THEN toCredit[r] \union {w} ELSE toCredit[r] IN
       IF todo[r] = {w} /\ awards = {}
         THEN EndRun(r)
         ELSE /\ GoTo(r, IF todo[r] = {w} THEN "ensure" ELSE "compute")
              /\ todo' = [todo EXCEPT ![r] = @ \ {w}]
              /\ toInsert' = [toInsert EXCEPT ![r] = awards]
              /\ toCredit' = [toCredit EXCEPT ![r] = awards]
              /\ UNCHANGED today
    /\ UNCHANGED <<day, rows, credited>>

(* Mutants: missing wallets are not created; all wallets are; the points   *)
(* are added before the records are inserted.                              *)
FindMissingSkips(r) ==
    /\ phase[r] = "ensure"
    /\ GoTo(r, "insert")
    /\ UNCHANGED <<day, tables, today, todo, toInsert, toCredit>>

FindMissingAll(r) ==
    /\ phase[r] = "ensure"
    /\ GoTo(r, "create")
    /\ todo' = [todo EXCEPT ![r] = toCredit[r]]
    /\ UNCHANGED <<day, tables, today, toInsert, toCredit>>

FindMissingCredits(r) ==
    /\ phase[r] = "ensure"
    /\ GoTo(r, "credit")
    /\ UNCHANGED <<day, tables, today, todo, toInsert, toCredit>>

(* ensureWalletsExist: a SELECT, then one INSERT of what was missing.      *)
FindMissing(r) ==
    /\ phase[r] = "ensure"
    /\ LET missing == {w \in toCredit[r] : rows[w] = 0} IN
       /\ GoTo(r, IF missing = {} THEN "insert" ELSE "create")
       /\ todo' = [todo EXCEPT ![r] = missing]
    /\ UNCHANGED <<day, tables, today, toInsert, toCredit>>

CreateMissing(r) ==
    /\ phase[r] = "create"
    /\ InsertRows(todo[r])
    /\ GoTo(r, "insert")
    /\ todo' = [todo EXCEPT ![r] = {}]
    /\ UNCHANGED <<day, history, credited, today, toInsert, toCredit>>

(* Mutant: ON CONFLICT (wallet, awardDate) DO UPDATE. *)
InsertChunkUpserting(r) ==
    /\ phase[r] = "insert"
    /\ RecordStatus(toInsert[r], today[r], "success")
    /\ GoTo(r, "credit")
    /\ UNCHANGED <<day, rows, credited, today, todo, toInsert, toCredit>>

(* bulkInsertAwardRecords, one INSERT per chunk: a record of the same      *)
(* wallet and day fails the whole statement, and with it the run.          *)
InsertChunk(r) ==
    /\ phase[r] = "insert"
    /\ \E chunk \in Chunks(toInsert[r]) :
        \/ /\ \E w \in chunk : history[w][today[r]] # "none"
           /\ EndRun(r)
           /\ UNCHANGED history
        \/ /\ \A w \in chunk : history[w][today[r]] = "none"
           /\ RecordStatus(chunk, today[r], "success")
           /\ toInsert' = [toInsert EXCEPT ![r] = @ \ chunk]
           /\ GoTo(r, IF chunk = toInsert[r] THEN "credit" ELSE "insert")
           /\ UNCHANGED <<today, todo, toCredit>>
    /\ UNCHANGED <<day, rows, credited>>

(* Mutant: the loop over the chunks returns after the first. *)
CreditFirstChunk(r) ==
    /\ phase[r] = "credit"
    /\ \E chunk \in Chunks(toCredit[r]) : AddPoints(chunk, today[r])
    /\ EndRun(r)
    /\ UNCHANGED <<day, history, rows>>

(* bulkAddKNSPoints, one UPDATE per chunk. *)
CreditChunk(r) ==
    /\ phase[r] = "credit"
    /\ \E chunk \in Chunks(toCredit[r]) :
        /\ AddPoints(chunk, today[r])
        /\ IF chunk = toCredit[r]
             THEN EndRun(r)
             ELSE /\ toCredit' = [toCredit EXCEPT ![r] = @ \ chunk]
                  /\ UNCHANGED <<phase, today, todo, toInsert>>
    /\ UNCHANGED <<day, history, rows>>

(* A call of the run throws, or its process dies and is restarted. *)
Abort(r) ==
    /\ phase[r] # "idle"
    /\ EndRun(r)
    /\ UNCHANGED <<day, tables>>

(* Midnight UTC, also in the middle of a run. *)
DayOver ==
    /\ day < LastDay
    /\ day' = day + 1
    /\ UNCHANGED <<tables, locals>>

Work(r) ==
    \/ Start(r) \/ FetchHolders(r) \/ FilterProcessed(r)
    \/ \E w \in Wallet, outcome \in {"award", "skip", "error"} : Collect(r, w, outcome)
    \/ FindMissing(r) \/ CreateMissing(r) \/ InsertChunk(r) \/ CreditChunk(r)

ReliableNext == DayOver \/ \E r \in Replica : Work(r)
KnsNext == ReliableNext \/ \E r \in Replica : Abort(r)

KnsSpec == KnsInit /\ [][KnsNext]_knsVars

(* No call fails and no process dies; a database call in progress answers  *)
(* and the event loop then runs its continuation.  Nothing is assumed of   *)
(* the RPC, whose requests have no timeout.                                *)
ReliableSpec ==
    /\ KnsInit /\ [][ReliableNext]_knsVars
    /\ \A r \in Replica : WF_knsVars(InsertChunk(r)) /\ WF_knsVars(CreditChunk(r))

-----------------------------------------------------------------------------
(* Properties *)

KnsTypeOK ==
    /\ day \in Day
    /\ history \in [Wallet -> [Day -> Status]]
    /\ rows \in [Wallet -> Nat]
    /\ credited \in [Wallet -> [Day -> Nat]]
    /\ phase \in [Replica -> Phase]
    /\ today \in [Replica -> 0 .. LastDay]
    /\ \A r \in Replica : phase[r] # "idle" => today[r] \in 1 .. day
    /\ todo \in [Replica -> SUBSET Wallet]
    /\ toInsert \in [Replica -> SUBSET Wallet]
    /\ toCredit \in [Replica -> SUBSET Wallet]

(* Whatever replicas run at once, fail or are started again, a wallet is   *)
(* credited at most once for a day: the class comment of                   *)
(* KnsAwardHistory, "Prevents double awards".                              *)
AtMostOncePerDay == \A w \in Wallet, d \in Day : credited[w][d] <= 1

(* The points of a wallet never exceed what the history explains, so the   *)
(* audit trail of KnsAwardHistory covers every credit.                     *)
CreditsRecorded ==
    \A w \in Wallet, d \in Day : credited[w][d] > 0 => history[w][d] = "success"

(* bulkAddKNSPoints never meets a wallet without a row, where its UPDATE   *)
(* would silently credit nothing.                                          *)
CreditsHaveRows ==
    \A r \in Replica : phase[r] \in {"insert", "credit"} =>
        \A w \in toCredit[r] : rows[w] > 0

(* Each award goes from open to recorded to paid, or is given up, and      *)
(* never back: the distribution implements AwardOnce.                      *)
awardState == [w \in Wallet |-> [d \in Day |->
    CASE history[w][d] = "none" -> "open"
      [] history[w][d] = "error" -> "given up"
      [] OTHER -> IF credited[w][d] = 0 THEN "recorded" ELSE "paid"]]

Awards == INSTANCE AwardOnce WITH award <- awardState

ImplementsAwards == Awards!AwardSpec

(* Once no run of a day is in progress, every record of that day that says *)
(* 'success', "Points awarded successfully" (kns-award-history.entity.ts), *)
(* stands for points the wallet got.                                       *)
SettledSuccessPaid ==
    \A w \in Wallet, d \in Day :
        history[w][d] = "success" /\ (\A r \in Replica : today[r] # d) => credited[w][d] = 1

(* A recorded award does reach the wallet's points. *)
SuccessEventuallyPaid ==
    \A w \in Wallet, d \in Day : history[w][d] = "success" ~> credited[w][d] = 1

(* "Each user has exactly one points record" (user.entity.ts), of the      *)
(* records this job creates.                                               *)
OneRowPerWallet == \A w \in Wallet : rows[w] <= 1
=============================================================================
