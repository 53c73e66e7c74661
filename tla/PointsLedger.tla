---------------------------- MODULE PointsLedger ----------------------------
(* The user_points table as the backend's services use it                  *)
(* (user-points.repository.ts), for one wallet: every statement addresses  *)
(* one wallet or treats all rows alike, so wallets do not interact.        *)
(*                                                                         *)
(* addSwapPoints, addCommunityPoints and updateSwapStats find the entity,  *)
(* change it in memory and save it.  TypeORM's save selects the row again, *)
(* compares it with the entity and updates the columns that differ.  Each  *)
(* of these statements is a step; other requests come in between.  The     *)
(* version column is written once and compared never.                      *)
EXTENDS Integers, Sequences

CONSTANTS
    Call,      \* the requests that use the table
    LastDay,   \* bound: the days explored are 1 .. LastDay
    WEEK       \* days of a week

ASSUME LedgerAssumption == LastDay \in Nat \ {0} /\ WEEK \in Nat \ {0}

VARIABLES
    day,       \* the current UTC day; day WEEK is a Monday
    rows,      \* the rows of the wallet; their index is the primary key
    access,    \* the repository call in progress of each request
    due        \* history: what the row would say if nothing were lost and
               \* the counters were of this UTC day and week

ledgerVars == <<day, rows, access, due>>

Part == {"swapPoints", "communityPoints", "knsPoints"}
Lifetime == Part \union {"totalPoints", "totalSwapsCount"}
Counter == {"swapPointsToday", "communityPointsThisWeek"}
ResetDate == {"lastSwapDayReset", "lastWeekReset"}   \* a day, 0 for NULL
Column == Lifetime \union Counter \union ResetDate

Blank == [f \in Column |-> 0]
Plus(a, b) == [f \in Column |-> a[f] + b[f]]
Gain(columns, n) == [f \in Column |-> IF f \in columns THEN n ELSE 0]

(* Mutant: addSwapPoints forgets the total. *)
SwapGainNoTotal(n) == Gain({"swapPoints", "swapPointsToday"}, n)

(* What addSwapPoints, addCommunityPoints, updateSwapStats and the bulk    *)
(* UPDATE of the distribution add to the columns.                          *)
SwapGain(n) == Gain({"swapPoints", "swapPointsToday", "totalPoints"}, n)
CommunityGain(n) == Gain({"communityPoints", "communityPointsThisWeek", "totalPoints"}, n)
StatsGain == Gain({"totalSwapsCount"}, 1)
KnsGain(n) == Gain({"knsPoints", "totalPoints"}, n)

Access == [step : {"none", "read", "create", "reload", "write", "done"},
           saves : BOOLEAN, gain : [Column -> Nat], id : Nat,
           record : [Column -> Nat], changed : SUBSET Column]

NoAccess == [step |-> "none", saves |-> FALSE, gain |-> Blank, id |-> 0,
             record |-> Blank, changed |-> {}]

LedgerInit ==
    /\ day = 1
    /\ rows \in {<<>>, <<Blank>>}
    /\ access = [c \in Call |-> NoAccess]
    /\ due = Blank

-----------------------------------------------------------------------------
Begin(c, saves, gain) ==
    access' = [access EXCEPT ![c] =
                  [NoAccess EXCEPT !.step = "read", !.saves = saves, !.gain = gain]]

GetOrCreate(c) == Begin(c, FALSE, Blank)
Add(c, gain) == Begin(c, TRUE, gain)
Leave(c) == access' = [access EXCEPT ![c] = NoAccess]
Returned(c) == access[c].step = "done"

(* The entity is in memory: the getter returns it, an adder changes it.    *)
Loaded(c, i, row) ==
    access' = [access EXCEPT ![c].step = IF access[c].saves THEN "reload" ELSE "done",
                             ![c].id = i,
                             ![c].record = Plus(row, access[c].gain)]

(* findOne has no ORDER BY: of several rows it may return any.             *)
FindOne(c) ==
    /\ access[c].step = "read"
    /\ IF rows = <<>>
         THEN access' = [access EXCEPT ![c].step = "create"]
         ELSE \E i \in DOMAIN rows : Loaded(c, i, rows[i])
    /\ UNCHANGED <<day, rows, due>>

(* No unique index on wallet stops a second row.                           *)
InsertRow(c) ==
    /\ access[c].step = "create"
    /\ rows' = Append(rows, Blank)
    /\ Loaded(c, Len(rows) + 1, Blank)
    /\ UNCHANGED <<day, due>>

SaveSelect(c) ==
    /\ access[c].step = "reload"
    /\ access' = [access EXCEPT ![c].step = "write",
                                ![c].changed = {f \in Column :
                                    access[c].record[f] # rows[access[c].id][f]}]
    /\ UNCHANGED <<day, rows, due>>

(* Callers use no more of what a save returns than that it did.            *)
Saved(c) == access' = [access EXCEPT ![c] = [NoAccess EXCEPT !.step = "done"]]

(* Mutant: the UPDATE adds what is in memory to what is in the row. *)
SaveUpdateAdds(c) ==
    /\ access[c].step = "write"
    /\ rows' = [rows EXCEPT ![access[c].id] = Plus(@, access[c].record)]
    /\ due' = Plus(due, access[c].gain)
    /\ Saved(c)
    /\ UNCHANGED day

SaveUpdate(c) ==
    LET a == access[c] IN
    /\ a.step = "write"
    /\ rows' = [rows EXCEPT ![a.id] =
                   [f \in Column |-> IF f \in a.changed THEN a.record[f] ELSE @[f]]]
    /\ due' = Plus(due, a.gain)
    /\ Saved(c)
    /\ UNCHANGED day

LedgerStep(c) == FindOne(c) \/ InsertRow(c) \/ SaveSelect(c) \/ SaveUpdate(c)

-----------------------------------------------------------------------------
(* Single statements, which PostgreSQL executes atomically.                *)
BulkAddKns(n) ==
    /\ rows # <<>>
    /\ rows' = [i \in DOMAIN rows |-> Plus(rows[i], KnsGain(n))]
    /\ due' = Plus(due, KnsGain(n))
    /\ UNCHANGED <<day, access>>

(* Mutant: a row is reset by every run of the job. *)
ResetAnyRow(row, counter, date, oldest) ==
    IF row[counter] > 0
      THEN [row EXCEPT ![counter] = 0, ![date] = day]
      ELSE row

(* where and andWhere are joined by AND without brackets, so the counter is *)
(* compared only where the date is NULL.  The dates are whole days.         *)
ResetRow(row, counter, date, oldest) ==
    IF (row[date] > 0 /\ row[date] < oldest) \/ (row[date] = 0 /\ row[counter] > 0)
      THEN [row EXCEPT ![counter] = 0, ![date] = day]
      ELSE row

BatchReset(counter, date, oldest) ==
    /\ rows' = [i \in DOMAIN rows |-> ResetRow(rows[i], counter, date, oldest)]
    /\ UNCHANGED <<day, access, due>>

batchResetDailySwapCounters ==
    BatchReset("swapPointsToday", "lastSwapDayReset", day)

batchResetWeeklyCounters ==
    BatchReset("communityPointsThisWeek", "lastWeekReset", day - WEEK)

IsMonday(d) == d % WEEK = 0

Midnight ==
    /\ day < LastDay
    /\ day' = day + 1
    /\ due' = [due EXCEPT !.swapPointsToday = 0,
                          !.communityPointsThisWeek = IF IsMonday(day + 1) THEN 0 ELSE @]
    /\ UNCHANGED <<rows, access>>

-----------------------------------------------------------------------------
LedgerTypeOK ==
    /\ day \in 1 .. LastDay
    /\ rows \in Seq([Column -> Nat])
    /\ access \in [Call -> Access]
    /\ \A c \in Call : access[c].step \in {"reload", "write"} =>
          access[c].id \in DOMAIN rows
    /\ due \in [Column -> Nat]

(* However the requests interleave, fail or create rows, no row ever shows *)
(* more points of a kind, a larger total or more swaps than were granted:  *)
(* stale saves lose grants (user-points.repository.ts:51), never make any. *)
NeverMoreThanDue ==
    \A i \in DOMAIN rows, f \in Lifetime : rows[i][f] <= due[f]
=============================================================================
