----------------------- MODULE KnsDistributionProofs -----------------------
(* At most one credit per wallet and day, proved for any number of         *)
(* replicas, wallets and days, any chunk size, failures and crashes.  The  *)
(* argument: a record is stored by one run only (the unique index), a run  *)
(* credits only what it stored, and it stores everything before it credits *)
(* anything; so what a run has stored and not credited is its own.         *)
EXTENDS KnsDistribution, TLAPS

(* The records the run of r has stored and not yet credited. *)
Inserted(r) ==
    CASE phase[r] = "insert" -> toCredit[r] \ toInsert[r]
      [] phase[r] = "credit" -> toCredit[r]
      [] OTHER -> {}

Owned ==
    \A r \in Replica : \A w \in Inserted(r) :
        history[w][today[r]] = "success" /\ credited[w][today[r]] = 0

Exclusive ==
    \A r, q \in Replica : r # q /\ today[r] = today[q] => Inserted(r) \cap Inserted(q) = {}

(* Until the first INSERT the two buffers of a run are equal. *)
Buffers ==
    \A r \in Replica : phase[r] \notin {"insert", "credit"} => toInsert[r] = toCredit[r]

Prepared ==
    \A r \in Replica : phase[r] = "create" => \A w \in toCredit[r] : rows[w] > 0 \/ w \in todo[r]

KnsInv ==
    /\ KnsTypeOK
    /\ CreditsRecorded /\ AtMostOncePerDay
    /\ Owned /\ Exclusive /\ Buffers
    /\ Prepared /\ CreditsHaveRows

(* The tables after a step of r: what the other runs own is untouched. *)
TablesKept(r) ==
    /\ UNCHANGED rows
    /\ history' \in [Wallet -> [Day -> Status]] /\ credited' \in [Wallet -> [Day -> Nat]]
    /\ CreditsRecorded' /\ AtMostOncePerDay'
    /\ \A q \in Replica \ {r} : \A w \in Inserted(q) :
         history'[w][today[q]] = "success" /\ credited'[w][today[q]] = 0

-----------------------------------------------------------------------------
(* The initial states satisfy the invariant. *)
LEMMA KnsInitInv == KnsInit => KnsInv
<1> SUFFICES ASSUME KnsInit PROVE KnsInv
  OBVIOUS
<1>1. 1 \in Day
  BY LastDayAssumption DEF Day
<1>2. KnsTypeOK
  BY <1>1, LastDayAssumption DEF KnsInit, KnsTypeOK, Status, Phase
<1>3. \A r \in Replica : Inserted(r) = {}
  BY DEF KnsInit, Inserted
<1>4. Owned /\ Exclusive
  BY <1>3 DEF Owned, Exclusive
<1>5. CreditsRecorded /\ AtMostOncePerDay
  BY DEF KnsInit, CreditsRecorded, AtMostOncePerDay
<1>6. Buffers /\ Prepared /\ CreditsHaveRows
  BY DEF KnsInit, Buffers, Prepared, CreditsHaveRows
<1> QED
  BY <1>2, <1>4, <1>5, <1>6 DEF KnsInv

LEMMA SameTablesKept ==
    ASSUME NEW r \in Replica, KnsInv, UNCHANGED tables
    PROVE  TablesKept(r)
<1>1. CreditsRecorded' /\ AtMostOncePerDay'
  BY DEF KnsInv, CreditsRecorded, AtMostOncePerDay, tables
<1> QED
  BY <1>1 DEF KnsInv, KnsTypeOK, Owned, TablesKept, tables

(* A run that ends gives up what it owns. *)
LEMMA EndRunKeeps ==
    ASSUME NEW r \in Replica, KnsInv, EndRun(r), UNCHANGED day, TablesKept(r)
    PROVE  KnsInv'
<1>0. KnsTypeOK /\ 0 \in 0 .. LastDay
  BY LastDayAssumption DEF KnsInv
<1>1. KnsTypeOK'
  <2>1. /\ phase' \in [Replica -> Phase] /\ today' \in [Replica -> 0 .. LastDay]
        /\ todo' \in [Replica -> SUBSET Wallet]
        /\ toInsert' \in [Replica -> SUBSET Wallet]
        /\ toCredit' \in [Replica -> SUBSET Wallet]
    BY <1>0 DEF KnsTypeOK, EndRun, Phase
  <2>2. \A q \in Replica : phase'[q] # "idle" => today'[q] \in 1 .. day
    BY <1>0 DEF KnsTypeOK, EndRun
  <2> QED
    BY <1>0, <2>1, <2>2 DEF KnsTypeOK, TablesKept
<1>2. \A q \in Replica : Inserted(q)' = IF q = r THEN {} ELSE Inserted(q)
  BY <1>0 DEF KnsTypeOK, EndRun, Inserted
<1>3. \A q \in Replica : q # r => today'[q] = today[q]
  BY <1>0 DEF KnsTypeOK, EndRun
<1>4. Owned' /\ Exclusive'
  BY <1>2, <1>3 DEF KnsInv, Owned, Exclusive, TablesKept
<1>5. Buffers' /\ Prepared' /\ CreditsHaveRows'
  BY <1>0 DEF KnsInv, KnsTypeOK, EndRun, Buffers, Prepared, CreditsHaveRows, TablesKept
<1> QED
  BY <1>1, <1>4, <1>5 DEF KnsInv, TablesKept

(* A step of a run that has not reached the tables' rows yet. *)
LEMMA EarlyStepKeeps ==
    ASSUME NEW r \in Replica, NEW p \in {"fetch", "filter", "compute", "ensure"}, KnsInv,
           phase[r] \notin {"insert", "credit"},
           KnsTypeOK', TablesKept(r), phase' = [phase EXCEPT ![r] = p],
           toInsert'[r] = toCredit'[r],
           \A q \in Replica : q # r => /\ today'[q] = today[q]
                                       /\ todo'[q] = todo[q]
                                       /\ toInsert'[q] = toInsert[q]
                                       /\ toCredit'[q] = toCredit[q]
    PROVE  KnsInv'
<1>1. \A q \in Replica : phase'[q] = IF q = r THEN p ELSE phase[q]
  BY DEF KnsInv, KnsTypeOK
<1>2. \A q \in Replica : Inserted(q)' = IF q = r THEN {} ELSE Inserted(q)
  BY <1>1 DEF Inserted
<1>3. Owned' /\ Exclusive'
  BY <1>2 DEF KnsInv, Owned, Exclusive, TablesKept
<1>4. Buffers'
  BY <1>1 DEF KnsInv, Buffers
<1>5. Prepared' /\ CreditsHaveRows'
  BY <1>1 DEF KnsInv, Prepared, CreditsHaveRows, TablesKept
<1> QED
  BY <1>3, <1>4, <1>5 DEF KnsInv, TablesKept

(* The phases up to the INSERT of missing rows. *)
LEMMA StartKeeps ==
    ASSUME NEW r \in Replica, KnsInv, Start(r)
    PROVE  KnsInv'
<1>1. KnsTypeOK'
  <2>1. day \in Nat /\ day <= LastDay /\ day \in 1 .. day /\ day \in 0 .. LastDay
    BY LastDayAssumption DEF KnsInv, KnsTypeOK, Day
  <2>2. /\ phase' \in [Replica -> Phase] /\ today' \in [Replica -> 0 .. LastDay]
        /\ \A q \in Replica : phase'[q] # "idle" => today'[q] \in 1 .. day
    BY <2>1 DEF KnsInv, KnsTypeOK, Start, GoTo, Phase
  <2> QED
    BY <2>2 DEF KnsInv, KnsTypeOK, Start, tables
<1>2. /\ phase[r] \notin {"insert", "credit"} /\ UNCHANGED tables
      /\ phase' = [phase EXCEPT ![r] = "fetch"] /\ UNCHANGED <<todo, toInsert, toCredit>>
  BY DEF Start, GoTo
<1>3. \A q \in Replica : q # r => today'[q] = today[q]
  BY DEF KnsInv, KnsTypeOK, Start
<1>4. toInsert[r] = toCredit[r]
  BY <1>2 DEF KnsInv, Buffers
<1> QED
  BY <1>1, <1>2, <1>3, <1>4, SameTablesKept, EarlyStepKeeps

LEMMA FetchKeeps ==
    ASSUME NEW r \in Replica, KnsInv, FetchHolders(r)
    PROVE  KnsInv'
<1>1. CASE EndRun(r)
  BY <1>1, SameTablesKept, EndRunKeeps DEF FetchHolders
<1>2. ASSUME NEW eligible \in SUBSET Wallet,
             GoTo(r, "filter"), todo' = [todo EXCEPT ![r] = eligible],
             UNCHANGED <<today, toInsert, toCredit>>
      PROVE  KnsInv'
  <2>1. UNCHANGED <<day, tables>> /\ phase[r] = "fetch"
    BY DEF FetchHolders
  <2>2. KnsTypeOK'
    <3>1. phase' \in [Replica -> Phase] /\ todo' \in [Replica -> SUBSET Wallet]
      BY <1>2 DEF KnsInv, KnsTypeOK, GoTo, Phase
    <3>2. \A q \in Replica : phase'[q] # "idle" => today'[q] \in 1 .. day
      BY <1>2, <2>1 DEF KnsInv, KnsTypeOK, GoTo
    <3> QED
      BY <1>2, <2>1, <3>1, <3>2 DEF KnsInv, KnsTypeOK, tables
  <2>3. toInsert[r] = toCredit[r]
    BY <2>1 DEF KnsInv, Buffers
  <2>4. \A q \in Replica : q # r => todo'[q] = todo[q]
    BY <1>2 DEF KnsInv, KnsTypeOK
  <2> QED
    BY <1>2, <2>1, <2>2, <2>3, <2>4, SameTablesKept, EarlyStepKeeps DEF GoTo
<1> QED
  BY <1>1, <1>2 DEF FetchHolders

LEMMA FilterKeeps ==
    ASSUME NEW r \in Replica, KnsInv, FilterProcessed(r)
    PROVE  KnsInv'
<1>1. CASE EndRun(r)
  BY <1>1, SameTablesKept, EndRunKeeps DEF FilterProcessed
<1>2. CASE /\ GoTo(r, "compute") /\ todo' = [todo EXCEPT ![r] = UnprocessedToday(r)]
           /\ UNCHANGED <<today, toInsert, toCredit>>
  <2>1. UNCHANGED <<day, tables>> /\ phase[r] = "filter"
    BY DEF FilterProcessed
  <2>2. KnsTypeOK'
    <3>1. UnprocessedToday(r) \in SUBSET Wallet
      BY DEF KnsInv, KnsTypeOK, UnprocessedToday
    <3>2. phase' \in [Replica -> Phase] /\ todo' \in [Replica -> SUBSET Wallet]
      BY <1>2, <3>1 DEF KnsInv, KnsTypeOK, GoTo, Phase
    <3>3. \A q \in Replica : phase'[q] # "idle" => today'[q] \in 1 .. day
      BY <1>2, <2>1 DEF KnsInv, KnsTypeOK, GoTo
    <3> QED
      BY <1>2, <2>1, <3>2, <3>3 DEF KnsInv, KnsTypeOK, tables
  <2>3. toInsert[r] = toCredit[r]
    BY <2>1 DEF KnsInv, Buffers
  <2>4. \A q \in Replica : q # r => todo'[q] = todo[q]
    BY <1>2 DEF KnsInv, KnsTypeOK
  <2> QED
    BY <1>2, <2>1, <2>2, <2>3, <2>4, SameTablesKept, EarlyStepKeeps DEF GoTo
<1> QED
  BY <1>1, <1>2 DEF FilterProcessed

LEMMA FindMissingKeeps ==
    ASSUME NEW r \in Replica, KnsInv, FindMissing(r)
    PROVE  KnsInv'
<1> DEFINE missing == {w \in toCredit[r] : rows[w] = 0}
<1>1. /\ phase[r] = "ensure" /\ UNCHANGED <<day, tables, today, toInsert, toCredit>>
      /\ \/ missing = {} /\ phase' = [phase EXCEPT ![r] = "insert"]
         \/ phase' = [phase EXCEPT ![r] = "create"]
      /\ todo' = [todo EXCEPT ![r] = missing]
  BY DEF FindMissing, GoTo
<1>2. missing \in SUBSET Wallet /\ toInsert[r] = toCredit[r]
  BY <1>1 DEF KnsInv, KnsTypeOK, Buffers
<1>3. KnsTypeOK'
  <2>1. phase' \in [Replica -> Phase] /\ todo' \in [Replica -> SUBSET Wallet]
    BY <1>1, <1>2 DEF KnsInv, KnsTypeOK, Phase
  <2>2. \A q \in Replica : phase'[q] # "idle" => today'[q] \in 1 .. day
    BY <1>1 DEF KnsInv, KnsTypeOK
  <2> QED
    BY <1>1, <2>1, <2>2 DEF KnsInv, KnsTypeOK, tables
<1>4. \A q \in Replica : Inserted(q)' = Inserted(q)
  <2>1. Inserted(r) = {} /\ toCredit[r] \ toInsert[r] = {}
    BY <1>1, <1>2 DEF Inserted
  <2>2. phase'[r] \in {"insert", "create"}
    BY <1>1 DEF KnsInv, KnsTypeOK
  <2>3. Inserted(r)' = {}
    BY <1>1, <2>1, <2>2 DEF Inserted
  <2>4. \A q \in Replica : q # r => phase'[q] = phase[q]
    BY <1>1 DEF KnsInv, KnsTypeOK
  <2> QED
    BY <1>1, <2>1, <2>3, <2>4 DEF Inserted
<1>5. Owned' /\ Exclusive'
  BY <1>1, <1>4 DEF KnsInv, Owned, Exclusive, tables
<1>6. CreditsRecorded' /\ AtMostOncePerDay'
  BY <1>1 DEF KnsInv, CreditsRecorded, AtMostOncePerDay, tables
<1>7. Buffers'
  BY <1>1, <1>2 DEF KnsInv, KnsTypeOK, Buffers
<1>8. \A w \in toCredit[r] : rows[w] > 0 \/ w \in missing
  BY DEF KnsInv, KnsTypeOK
<1>9. Prepared' /\ CreditsHaveRows'
  BY <1>1, <1>8 DEF KnsInv, KnsTypeOK, Prepared, CreditsHaveRows, tables
<1> QED
  BY <1>3, <1>5, <1>6, <1>7, <1>9 DEF KnsInv

LEMMA CreateMissingKeeps ==
    ASSUME NEW r \in Replica, KnsInv, CreateMissing(r)
    PROVE  KnsInv'
<1>1. /\ phase[r] = "create" /\ phase' = [phase EXCEPT ![r] = "insert"]
      /\ todo' = [todo EXCEPT ![r] = {}]
      /\ UNCHANGED <<day, history, credited, today, toInsert, toCredit>>
  BY DEF CreateMissing, GoTo
<1>2. rows' \in [Wallet -> Nat]
  BY DEF CreateMissing, InsertRows, KnsInv, KnsTypeOK
<1>3. \A w \in Wallet : (rows[w] > 0 \/ w \in todo[r]) => rows'[w] > 0
  BY DEF CreateMissing, InsertRows, KnsInv, KnsTypeOK
<1>4. KnsTypeOK'
  <2>1. phase' \in [Replica -> Phase] /\ todo' \in [Replica -> SUBSET Wallet]
    BY <1>1 DEF KnsInv, KnsTypeOK, Phase
  <2>2. \A q \in Replica : phase'[q] # "idle" => today'[q] \in 1 .. day
    BY <1>1 DEF KnsInv, KnsTypeOK
  <2> QED
    BY <1>1, <1>2, <2>1, <2>2 DEF KnsInv, KnsTypeOK
<1>5. \A q \in Replica : Inserted(q)' = Inserted(q)
  BY <1>1 DEF KnsInv, KnsTypeOK, Inserted, Buffers
<1>6. Owned' /\ Exclusive'
  BY <1>1, <1>5 DEF KnsInv, Owned, Exclusive
<1>7. CreditsRecorded' /\ AtMostOncePerDay'
  BY <1>1 DEF KnsInv, CreditsRecorded, AtMostOncePerDay
<1>8. Buffers'
  BY <1>1 DEF KnsInv, KnsTypeOK, Buffers
<1>9. Prepared'
  BY <1>1, <1>3 DEF KnsInv, KnsTypeOK, Prepared
<1>10. CreditsHaveRows'
  BY <1>1, <1>3 DEF KnsInv, KnsTypeOK, Prepared, CreditsHaveRows
<1> QED
  BY <1>4, <1>6, <1>7, <1>8, <1>9, <1>10 DEF KnsInv

(* The collection of one result: an error record takes a free place of the *)
(* history, everything else is local.                                      *)
LEMMA RecordFree ==
    ASSUME NEW S \in SUBSET Wallet, NEW d \in Day, NEW s \in {"success", "error"}, KnsInv,
           RecordStatus(S, d, s)
    PROVE  history' \in [Wallet -> [Day -> Status]]
<1>1. history \in [Wallet -> [Day -> Status]]
  BY DEF KnsInv, KnsTypeOK
<1>2. \A w \in Wallet : (IF w \in S THEN [history[w] EXCEPT ![d] = s] ELSE history[w])
                            \in [Day -> Status]
  BY <1>1 DEF Status
<1> QED
  BY <1>1, <1>2 DEF RecordStatus

LEMMA RunningDay ==
    ASSUME NEW r \in Replica, KnsInv, phase[r] # "idle"
    PROVE  today[r] \in Day
<1>1. today[r] \in 1 .. day /\ day \in 1 .. LastDay
  BY DEF KnsInv, KnsTypeOK, Day
<1> QED
  BY <1>1, LastDayAssumption DEF Day

LEMMA InsertedTyped ==
    ASSUME NEW r \in Replica, KnsInv
    PROVE  \A w \in Inserted(r) : w \in Wallet /\ today[r] \in Day
<1> SUFFICES ASSUME NEW w \in Inserted(r)
             PROVE  w \in Wallet /\ today[r] \in Day
  OBVIOUS
<1>1. phase[r] \in {"insert", "credit"} /\ w \in toCredit[r]
  BY DEF Inserted
<1> QED
  BY <1>1, RunningDay DEF KnsInv, KnsTypeOK

(* Filling free places of the history disturbs no run. *)
LEMMA RecordKeeps ==
    ASSUME NEW S \in SUBSET Wallet, NEW d \in Day, NEW s \in {"success", "error"}, KnsInv,
           \A w \in S : history[w][d] = "none", RecordStatus(S, d, s),
           UNCHANGED <<rows, credited>>
    PROVE  \A r \in Replica : /\ TablesKept(r)
                              /\ \A w \in Inserted(r) :
                                    /\ history'[w][today[r]] = "success"
                                    /\ credited'[w][today[r]] = 0
<1>1. history \in [Wallet -> [Day -> Status]]
  BY DEF KnsInv, KnsTypeOK
<1>2. history' \in [Wallet -> [Day -> Status]]
  BY RecordFree
<1>3. \A w \in Wallet, e \in Day :
        history'[w][e] = IF w \in S /\ e = d THEN s ELSE history[w][e]
  BY <1>1 DEF RecordStatus
<1>4. \A w \in S : ~ (credited[w][d] > 0)
  BY DEF KnsInv, CreditsRecorded
<1>5. CreditsRecorded' /\ AtMostOncePerDay'
  BY <1>3, <1>4 DEF KnsInv, CreditsRecorded, AtMostOncePerDay
<1>6. ASSUME NEW r \in Replica, NEW w \in Inserted(r)
      PROVE  history'[w][today[r]] = "success" /\ credited'[w][today[r]] = 0
  <2>1. w \in Wallet /\ today[r] \in Day
    BY InsertedTyped
  <2>2. history[w][today[r]] = "success" /\ credited[w][today[r]] = 0
    BY DEF KnsInv, Owned
  <2>3. ~ (w \in S /\ today[r] = d)
    BY <2>2
  <2> QED
    BY <1>3, <2>1, <2>2, <2>3
<1> QED
  BY <1>2, <1>5, <1>6 DEF KnsInv, KnsTypeOK, TablesKept

(* The collection of one result: an error record takes a free place of the *)
(* history, everything else is local.                                      *)
LEMMA CollectKeeps ==
    ASSUME NEW r \in Replica, NEW w \in Wallet, NEW outcome \in {"award", "skip", "error"},
           KnsInv, Collect(r, w, outcome)
    PROVE  KnsInv'
<1> DEFINE awards == IF outcome = "award" THEN toCredit[r] \union {w} ELSE toCredit[r]
           next == IF todo[r] = {w} THEN "ensure" ELSE "compute"
           failed == {w}
<1>1. phase[r] = "compute" /\ UNCHANGED <<day, rows, credited>>
  BY DEF Collect
<1>2. today[r] \in Day /\ awards \in SUBSET Wallet
  BY <1>1, RunningDay DEF KnsInv, KnsTypeOK
<1>3. TablesKept(r)
  <2>1. CASE history[w][today[r]] = "none" /\ RecordStatus(failed, today[r], "error")
    <3>1. /\ failed \in SUBSET Wallet /\ "error" \in {"success", "error"}
          /\ \A v \in failed : history[v][today[r]] = "none"
          /\ RecordStatus(failed, today[r], "error")
      BY <2>1
    <3> HIDE DEF failed
    <3> QED
      BY <1>1, <1>2, <3>1, RecordKeeps
  <2>2. CASE UNCHANGED history
    BY <1>1, <2>2, SameTablesKept DEF tables
  <2> QED
    BY <2>1, <2>2 DEF Collect
<1>4. CASE EndRun(r)
  BY <1>1, <1>3, <1>4, EndRunKeeps
<1>5. CASE /\ phase' = [phase EXCEPT ![r] = next]
           /\ todo' = [todo EXCEPT ![r] = @ \ {w}]
           /\ toInsert' = [toInsert EXCEPT ![r] = awards]
           /\ toCredit' = [toCredit EXCEPT ![r] = awards]
           /\ UNCHANGED today
  <2> HIDE DEF awards
  <2>1. next \in {"fetch", "filter", "compute", "ensure"}
    OBVIOUS
  <2> HIDE DEF next
  <2>2. KnsTypeOK'
    <3>1. /\ phase' \in [Replica -> Phase] /\ todo' \in [Replica -> SUBSET Wallet]
          /\ toInsert' \in [Replica -> SUBSET Wallet]
          /\ toCredit' \in [Replica -> SUBSET Wallet]
      BY <1>2, <1>5, <2>1 DEF KnsInv, KnsTypeOK, Phase
    <3>2. \A q \in Replica : phase'[q] # "idle" => today'[q] \in 1 .. day
      BY <1>1, <1>5, <2>1 DEF KnsInv, KnsTypeOK
    <3> QED
      BY <1>1, <1>3, <1>5, <3>1, <3>2 DEF KnsInv, KnsTypeOK, TablesKept
  <2>3. toInsert'[r] = toCredit'[r] /\ phase[r] \notin {"insert", "credit"}
    BY <1>1, <1>5 DEF KnsInv, KnsTypeOK
  <2>4. \A q \in Replica : q # r => /\ today'[q] = today[q]
                                    /\ todo'[q] = todo[q]
                                    /\ toInsert'[q] = toInsert[q]
                                    /\ toCredit'[q] = toCredit[q]
    BY <1>5 DEF KnsInv, KnsTypeOK
  <2> QED
    BY <1>3, <1>5, <2>1, <2>2, <2>3, <2>4, EarlyStepKeeps
<1> QED
  BY <1>4, <1>5 DEF Collect, GoTo

(* A stored chunk becomes the run's own: its places were free, so no other *)
(* run owns them and nothing was credited for them.                        *)
LEMMA InsertChunkKeeps ==
    ASSUME NEW r \in Replica, KnsInv, InsertChunk(r)
    PROVE  KnsInv'
<1>1. phase[r] = "insert" /\ UNCHANGED <<day, rows, credited>>
  BY DEF InsertChunk
<1>2. today[r] \in Day
  BY <1>1, RunningDay
<1>3. CASE EndRun(r) /\ UNCHANGED history
  BY <1>1, <1>3, SameTablesKept, EndRunKeeps DEF tables
<1>4. ASSUME NEW chunk \in SUBSET toInsert[r],
             \A w \in chunk : history[w][today[r]] = "none",
             RecordStatus(chunk, today[r], "success"),
             toInsert' = [toInsert EXCEPT ![r] = @ \ chunk],
             phase' = [phase EXCEPT ![r] = IF chunk = toInsert[r] THEN "credit" ELSE "insert"],
             UNCHANGED <<today, todo, toCredit>>
      PROVE  KnsInv'
  <2>1. chunk \in SUBSET Wallet /\ toInsert[r] \in SUBSET Wallet
    BY DEF KnsInv, KnsTypeOK
  <2>2. "success" \in {"success", "error"}
    OBVIOUS
  <2>3. \A q \in Replica : /\ TablesKept(q)
                           /\ \A w \in Inserted(q) :
                                 /\ history'[w][today[q]] = "success"
                                 /\ credited'[w][today[q]] = 0
    BY <1>1, <1>2, <1>4, <2>1, <2>2, RecordKeeps
  <2>4. \A w \in chunk : history'[w][today[r]] = "success" /\ credited'[w][today[r]] = 0
    BY <1>1, <1>2, <1>4, <2>1 DEF KnsInv, KnsTypeOK, RecordStatus, CreditsRecorded
  <2>5. /\ \A q \in Replica : q # r => /\ phase'[q] = phase[q] /\ toInsert'[q] = toInsert[q]
        /\ phase'[r] = IF chunk = toInsert[r] THEN "credit" ELSE "insert"
        /\ toInsert'[r] = toInsert[r] \ chunk
    BY <1>4 DEF KnsInv, KnsTypeOK
  <2>6. /\ \A q \in Replica : q # r => Inserted(q)' = Inserted(q)
        /\ Inserted(r)' \subseteq Inserted(r) \union chunk
    BY <1>1, <1>4, <2>5 DEF Inserted
  <2>7. KnsTypeOK'
    <3>1. phase' \in [Replica -> Phase] /\ toInsert' \in [Replica -> SUBSET Wallet]
      BY <1>4, <2>1 DEF KnsInv, KnsTypeOK, Phase
    <3>2. \A q \in Replica : phase'[q] # "idle" => today'[q] \in 1 .. day
      BY <1>1, <1>4, <2>5 DEF KnsInv, KnsTypeOK
    <3> QED
      BY <1>1, <1>4, <2>3, <3>1, <3>2 DEF KnsInv, KnsTypeOK, TablesKept
  <2>8. Owned'
    BY <1>4, <2>3, <2>4, <2>6 DEF Owned
  <2>9. \A q \in Replica : q # r /\ today[q] = today[r] => Inserted(q) \cap chunk = {}
    BY <1>4 DEF KnsInv, Owned
  <2>10. Exclusive'
    BY <1>4, <2>6, <2>9 DEF KnsInv, Exclusive
  <2>11. Buffers' /\ Prepared' /\ CreditsHaveRows'
    BY <1>1, <1>4, <2>5 DEF KnsInv, KnsTypeOK, Buffers, Prepared, CreditsHaveRows
  <2> QED
    BY <2>3, <2>7, <2>8, <2>10, <2>11 DEF KnsInv, TablesKept
<1> QED
  BY <1>3, <1>4 DEF InsertChunk, Chunks, GoTo

(* A credited chunk was the run's own, so it was not credited before. *)
LEMMA CreditChunkKeeps ==
    ASSUME NEW r \in Replica, KnsInv, CreditChunk(r)
    PROVE  KnsInv'
<1>1. phase[r] = "credit" /\ UNCHANGED <<day, history, rows>>
  BY DEF CreditChunk
<1>2. today[r] \in Day /\ Inserted(r) = toCredit[r] /\ toCredit[r] \in SUBSET Wallet
  BY <1>1, RunningDay DEF Inserted, KnsInv, KnsTypeOK
<1>3. PICK chunk \in SUBSET toCredit[r] :
        /\ AddPoints(chunk, today[r])
        /\ \/ EndRun(r)
           \/ /\ toCredit' = [toCredit EXCEPT ![r] = @ \ chunk]
              /\ UNCHANGED <<phase, today, todo, toInsert>>
  BY DEF CreditChunk, Chunks
<1>4. /\ credited' \in [Wallet -> [Day -> Nat]]
      /\ \A w \in Wallet, d \in Day :
           credited'[w][d] = IF w \in chunk /\ d = today[r] /\ rows[w] > 0
                               THEN credited[w][d] + 1 ELSE credited[w][d]
  <2>1. credited \in [Wallet -> [Day -> Nat]]
    BY DEF KnsInv, KnsTypeOK
  <2>2. \A w \in Wallet :
          (IF w \in chunk /\ rows[w] > 0 THEN [credited[w] EXCEPT ![today[r]] = @ + 1]
                                          ELSE credited[w]) \in [Day -> Nat]
    BY <1>2, <2>1
  <2> QED
    BY <1>2, <1>3, <2>1, <2>2 DEF AddPoints
<1>5. \A w \in chunk : history[w][today[r]] = "success" /\ credited[w][today[r]] = 0
  BY <1>2 DEF KnsInv, Owned
<1>6. TablesKept(r)
  <2>1. CreditsRecorded'
    BY <1>1, <1>4, <1>5 DEF KnsInv, KnsTypeOK, CreditsRecorded
  <2>2. AtMostOncePerDay'
    BY <1>4, <1>5 DEF KnsInv, KnsTypeOK, AtMostOncePerDay
  <2>3. ASSUME NEW q \in Replica \ {r}, NEW w \in Inserted(q)
        PROVE  history'[w][today[q]] = "success" /\ credited'[w][today[q]] = 0
    <3>1. w \in Wallet /\ today[q] \in Day
      BY InsertedTyped
    <3>2. ~ (w \in chunk /\ today[q] = today[r])
      BY <1>2 DEF KnsInv, Exclusive
    <3> QED
      BY <1>1, <1>4, <3>1, <3>2 DEF KnsInv, Owned
  <2> QED
    BY <1>1, <1>4, <2>1, <2>2, <2>3 DEF KnsInv, KnsTypeOK, TablesKept
<1>7. CASE EndRun(r)
  BY <1>1, <1>6, <1>7, EndRunKeeps
<1>8. CASE /\ toCredit' = [toCredit EXCEPT ![r] = @ \ chunk]
           /\ UNCHANGED <<phase, today, todo, toInsert>>
  <2>1. /\ toCredit'[r] = toCredit[r] \ chunk
        /\ \A q \in Replica : q # r => toCredit'[q] = toCredit[q]
    BY <1>8 DEF KnsInv, KnsTypeOK
  <2>2. /\ \A q \in Replica : q # r => Inserted(q)' = Inserted(q)
        /\ Inserted(r)' = Inserted(r) \ chunk
    BY <1>1, <1>2, <1>8, <2>1 DEF Inserted
  <2>3. KnsTypeOK'
    <3>1. toCredit' \in [Replica -> SUBSET Wallet]
      BY <1>2, <1>8 DEF KnsInv, KnsTypeOK
    <3> QED
      BY <1>1, <1>6, <1>8, <3>1 DEF KnsInv, KnsTypeOK, TablesKept
  <2>4. \A w \in Inserted(r) \ chunk : credited'[w][today[r]] = 0
    BY <1>2, <1>4 DEF KnsInv, Owned
  <2>5. Owned'
    BY <1>1, <1>6, <1>8, <2>2, <2>4 DEF KnsInv, Owned, TablesKept
  <2>6. Exclusive'
    BY <1>8, <2>2 DEF KnsInv, Exclusive
  <2>7. Buffers' /\ Prepared' /\ CreditsHaveRows'
    BY <1>1, <1>8, <2>1 DEF KnsInv, Buffers, Prepared, CreditsHaveRows
  <2> QED
    BY <1>6, <2>3, <2>5, <2>6, <2>7 DEF KnsInv, TablesKept
<1> QED
  BY <1>3, <1>7, <1>8

LEMMA KnsNextKeeps == KnsInv /\ [KnsNext]_knsVars => KnsInv'
<1> SUFFICES ASSUME KnsInv, [KnsNext]_knsVars PROVE KnsInv'
  OBVIOUS
<1>1. CASE DayOver
  <2>1. /\ UNCHANGED <<history, rows, credited, phase, today, todo, toInsert, toCredit>>
        /\ day' \in Day /\ \A d \in 1 .. day : d \in 1 .. day'
    BY <1>1, LastDayAssumption DEF KnsInv, KnsTypeOK, DayOver, Day, tables, locals
  <2>2. \A q \in Replica : Inserted(q)' = Inserted(q)
    BY <2>1 DEF Inserted
  <2> QED
    BY <2>1, <2>2 DEF KnsInv, KnsTypeOK, CreditsRecorded, AtMostOncePerDay,
                     Owned, Exclusive, Buffers, Prepared, CreditsHaveRows
<1>2. ASSUME NEW r \in Replica, Work(r) PROVE KnsInv'
  BY <1>2, StartKeeps, FetchKeeps, FilterKeeps, CollectKeeps, FindMissingKeeps,
     CreateMissingKeeps, InsertChunkKeeps, CreditChunkKeeps DEF Work
<1>3. ASSUME NEW r \in Replica, Abort(r) PROVE KnsInv'
  BY <1>3, SameTablesKept, EndRunKeeps DEF Abort
<1>4. CASE UNCHANGED knsVars
  <2>1. UNCHANGED <<day, history, rows, credited, phase, today, todo, toInsert, toCredit>>
    BY <1>4 DEF knsVars, tables, locals
  <2>2. \A q \in Replica : Inserted(q)' = Inserted(q)
    BY <2>1 DEF Inserted
  <2> QED
    BY <2>1, <2>2 DEF KnsInv, KnsTypeOK, CreditsRecorded, AtMostOncePerDay,
                     Owned, Exclusive, Buffers, Prepared, CreditsHaveRows
<1> QED
  BY <1>1, <1>2, <1>3, <1>4 DEF KnsNext, ReliableNext

LEMMA KnsInvariant == KnsSpec => []KnsInv
BY KnsInitInv, KnsNextKeeps, PTL DEF KnsSpec

-----------------------------------------------------------------------------
(* Type correctness of the scheduler's locals and of the two tables. *)
THEOREM KnsTypes == KnsSpec => []KnsTypeOK
<1>1. KnsInv => KnsTypeOK
  BY DEF KnsInv
<1> QED
  BY <1>1, KnsInvariant, PTL

(* However many replicas run the job, at any time, failing anywhere:       *)
(* bulkAddKNSPoints credits a wallet at most once for a day.               *)
THEOREM CreditedOnce == KnsSpec => []AtMostOncePerDay
<1>1. KnsInv => AtMostOncePerDay
  BY DEF KnsInv
<1> QED
  BY <1>1, KnsInvariant, PTL

(* Every credit has its success record in kns_award_history. *)
THEOREM CreditsAreRecorded == KnsSpec => []CreditsRecorded
<1>1. KnsInv => CreditsRecorded
  BY DEF KnsInv
<1> QED
  BY <1>1, KnsInvariant, PTL

(* After ensureWalletsExist every wallet to be credited keeps a row. *)
THEOREM CreditsReachRows == KnsSpec => []CreditsHaveRows
<1>1. KnsInv => CreditsHaveRows
  BY DEF KnsInv
<1> QED
  BY <1>1, KnsInvariant, PTL

-----------------------------------------------------------------------------
(* The steps as steps of AwardOnce. *)
LEMMA AwardsStart == KnsInit => Awards!AwardInit
BY DEF KnsInit, Awards!AwardInit, awardState

LEMMA AwardStateOf ==
    ASSUME NEW w \in Wallet, NEW d \in Day
    PROVE  /\ history[w][d] = "none" => awardState[w][d] = "open"
           /\ history[w][d] = "error" => awardState[w][d] = "given up"
           /\ history[w][d] = "success" /\ credited[w][d] = 0 => awardState[w][d] = "recorded"
           /\ history[w][d] = "success" /\ credited[w][d] # 0 => awardState[w][d] = "paid"
BY DEF awardState

LEMMA AwardStateNext ==
    ASSUME NEW w \in Wallet, NEW d \in Day
    PROVE  /\ history'[w][d] = "error" => awardState'[w][d] = "given up"
           /\ history'[w][d] = "success" /\ credited'[w][d] = 0 => awardState'[w][d] = "recorded"
           /\ history'[w][d] = "success" /\ credited'[w][d] # 0 => awardState'[w][d] = "paid"
           /\ history'[w][d] = history[w][d] /\ credited'[w][d] = credited[w][d]
                => awardState'[w][d] = awardState[w][d]
BY DEF awardState

LEMMA SameAwards ==
    ASSUME UNCHANGED <<history, credited>>
    PROVE  UNCHANGED awardState
BY DEF awardState

(* A step that takes some awards of a day from one state to another. *)
LEMMA SettleStep ==
    ASSUME NEW S \in SUBSET Wallet, NEW d \in Day, NEW from, NEW to,
           \A w \in S : awardState[w][d] = from,
           \A w \in S : awardState'[w][d] = to,
           \A w \in Wallet, e \in Day : ~ (w \in S /\ e = d) => awardState'[w][e] = awardState[w][e]
    PROVE  Awards!Settle(d, from, to)
<1> DEFINE row(w) == IF w \in S THEN [awardState[w] EXCEPT ![d] = to] ELSE awardState[w]
<1>1. /\ awardState = [w \in Wallet |-> [e \in Day |-> awardState[w][e]]]
      /\ awardState' = [w \in Wallet |-> [e \in Day |-> awardState'[w][e]]]
  BY DEF awardState
<1>2. ASSUME NEW w \in Wallet PROVE awardState'[w] = row(w)
  <2>1. awardState[w] = [e \in Day |-> awardState[w][e]]
    BY <1>1
  <2>2. awardState'[w] = [e \in Day |-> awardState'[w][e]]
    BY <1>1
  <2>3. row(w) = [e \in Day |-> IF w \in S /\ e = d THEN to ELSE awardState[w][e]]
    BY <2>1
  <2> QED
    BY <2>2, <2>3
<1>3. awardState' = [w \in Wallet |-> awardState'[w]]
  BY DEF awardState
<1> QED
  BY <1>2, <1>3 DEF Awards!Settle

LEMMA RecordedAwards ==
    ASSUME NEW S \in SUBSET Wallet, NEW d \in Day, NEW s \in {"success", "error"}, KnsInv,
           \A w \in S : history[w][d] = "none", RecordStatus(S, d, s), UNCHANGED credited
    PROVE  Awards!Record(d) \/ Awards!GiveUp(d)
<1> DEFINE to == IF s = "success" THEN "recorded" ELSE "given up"
<1>1. history \in [Wallet -> [Day -> Status]]
  BY DEF KnsInv, KnsTypeOK
<1>2. \A w \in Wallet, e \in Day :
        history'[w][e] = IF w \in S /\ e = d THEN s ELSE history[w][e]
  BY <1>1 DEF RecordStatus
<1>3. ASSUME NEW w \in S
      PROVE  /\ credited[w][d] = 0 /\ awardState[w][d] = "open"
             /\ awardState'[w][d] = to
  <2>1. history[w][d] = "none" /\ w \in Wallet /\ history'[w][d] = s
    BY <1>2
  <2>2. credited[w][d] \in Nat /\ ~ (credited[w][d] > 0)
    BY <2>1 DEF KnsInv, KnsTypeOK, CreditsRecorded
  <2>3. credited[w][d] = 0 /\ credited'[w][d] = 0
    BY <2>2
  <2>4. awardState[w][d] = "open"
    BY <2>1, AwardStateOf
  <2>5. /\ s = "success" => awardState'[w][d] = "recorded"
        /\ s = "error" => awardState'[w][d] = "given up"
    BY <2>1, <2>3, AwardStateNext
  <2> QED
    BY <2>3, <2>4, <2>5
<1>4. ASSUME NEW w \in Wallet, NEW e \in Day, ~ (w \in S /\ e = d)
      PROVE  awardState'[w][e] = awardState[w][e]
  <2>1. history'[w][e] = history[w][e] /\ credited'[w][e] = credited[w][e]
    BY <1>2, <1>4
  <2> QED
    BY <2>1, AwardStateNext
<1>5. Awards!Settle(d, "open", to)
  <2> HIDE DEF to
  <2> QED
    BY <1>3, <1>4, SettleStep
<1> QED
  BY <1>5 DEF Awards!Record, Awards!GiveUp

LEMMA CreditPays ==
    ASSUME NEW r \in Replica, KnsInv, CreditChunk(r)
    PROVE  Awards!Pay(today[r])
<1>1. phase[r] = "credit" /\ UNCHANGED history
  BY DEF CreditChunk
<1>2. today[r] \in Day /\ Inserted(r) = toCredit[r] /\ toCredit[r] \in SUBSET Wallet
  BY <1>1, RunningDay DEF Inserted, KnsInv, KnsTypeOK
<1>3. PICK chunk \in SUBSET toCredit[r] : AddPoints(chunk, today[r])
  BY DEF CreditChunk, Chunks
<1>4. /\ \A w \in chunk : rows[w] > 0
      /\ credited \in [Wallet -> [Day -> Nat]]
  BY <1>1 DEF KnsInv, KnsTypeOK, CreditsHaveRows
<1>5. \A w \in Wallet, e \in Day :
        credited'[w][e] = IF w \in chunk /\ e = today[r] THEN credited[w][e] + 1
                                                        ELSE credited[w][e]
  BY <1>2, <1>3, <1>4 DEF AddPoints
<1>6. \A w \in chunk : history[w][today[r]] = "success" /\ credited[w][today[r]] = 0
  BY <1>2 DEF KnsInv, Owned
<1>7. ASSUME NEW w \in chunk
      PROVE  awardState[w][today[r]] = "recorded" /\ awardState'[w][today[r]] = "paid"
  <2>1. w \in Wallet /\ history[w][today[r]] = "success" /\ credited[w][today[r]] = 0
    BY <1>2, <1>6
  <2>2. history'[w][today[r]] = "success" /\ credited'[w][today[r]] # 0
    BY <1>1, <1>2, <1>5, <2>1
  <2> QED
    BY <1>2, <2>1, <2>2, AwardStateOf, AwardStateNext
<1>8. ASSUME NEW w \in Wallet, NEW e \in Day, ~ (w \in chunk /\ e = today[r])
      PROVE  awardState'[w][e] = awardState[w][e]
  <2>1. history'[w][e] = history[w][e] /\ credited'[w][e] = credited[w][e]
    BY <1>1, <1>5, <1>8
  <2> QED
    BY <2>1, AwardStateNext
<1>9. chunk \in SUBSET Wallet
  BY <1>2
<1>10. Awards!Settle(today[r], "recorded", "paid")
  BY <1>2, <1>7, <1>8, <1>9, SettleStep
<1> QED
  BY <1>10 DEF Awards!Pay

LEMMA CollectSettles ==
    ASSUME NEW r \in Replica, NEW w \in Wallet, NEW outcome \in {"award", "skip", "error"},
           KnsInv, Collect(r, w, outcome)
    PROVE  [Awards!AwardNext]_awardState
<1> DEFINE failed == {w}
<1>1. phase[r] = "compute" /\ UNCHANGED credited
  BY DEF Collect
<1>2. today[r] \in Day
  BY <1>1, RunningDay
<1>3. CASE history[w][today[r]] = "none" /\ RecordStatus(failed, today[r], "error")
  <2>1. /\ failed \in SUBSET Wallet /\ "error" \in {"success", "error"}
        /\ \A v \in failed : history[v][today[r]] = "none"
        /\ RecordStatus(failed, today[r], "error")
    BY <1>3
  <2> HIDE DEF failed
  <2> QED
    BY <1>1, <1>2, <2>1, RecordedAwards DEF Awards!AwardNext
<1>4. CASE UNCHANGED history
  BY <1>1, <1>4, SameAwards
<1> QED
  BY <1>3, <1>4 DEF Collect

LEMMA InsertSettles ==
    ASSUME NEW r \in Replica, KnsInv, InsertChunk(r)
    PROVE  [Awards!AwardNext]_awardState
<1>1. phase[r] = "insert" /\ UNCHANGED credited
  BY DEF InsertChunk
<1>2. today[r] \in Day /\ toInsert[r] \in SUBSET Wallet
  BY <1>1, RunningDay DEF KnsInv, KnsTypeOK
<1>3. ASSUME NEW chunk \in SUBSET toInsert[r],
             \A w \in chunk : history[w][today[r]] = "none",
             RecordStatus(chunk, today[r], "success")
      PROVE  [Awards!AwardNext]_awardState
  <2>1. chunk \in SUBSET Wallet /\ "success" \in {"success", "error"}
    BY <1>2
  <2> QED
    BY <1>1, <1>2, <1>3, <2>1, RecordedAwards DEF Awards!AwardNext
<1>4. CASE UNCHANGED history
  BY <1>1, <1>4, SameAwards
<1> QED
  BY <1>3, <1>4 DEF InsertChunk, Chunks

LEMMA StepSettles ==
    KnsInv /\ [KnsNext]_knsVars => [Awards!AwardNext]_awardState
<1> SUFFICES ASSUME KnsInv, [KnsNext]_knsVars PROVE [Awards!AwardNext]_awardState
  OBVIOUS
<1>1. CASE UNCHANGED <<history, credited>>
  BY <1>1, SameAwards
<1>2. ASSUME NEW r \in Replica, CreditChunk(r) PROVE [Awards!AwardNext]_awardState
  <2>1. phase[r] # "idle"
    BY <1>2 DEF CreditChunk
  <2> QED
    BY <1>2, <2>1, CreditPays, RunningDay DEF Awards!AwardNext
<1>3. ASSUME NEW r \in Replica, Work(r) PROVE [Awards!AwardNext]_awardState
  <2>1. CASE Start(r) \/ FetchHolders(r) \/ FilterProcessed(r) \/ FindMissing(r) \/ CreateMissing(r)
    BY <1>1, <2>1 DEF Start, FetchHolders, FilterProcessed, FindMissing, CreateMissing, tables
  <2> QED
    BY <1>2, <1>3, <2>1, CollectSettles, InsertSettles DEF Work
<1>4. CASE DayOver \/ UNCHANGED knsVars \/ \E r \in Replica : Abort(r)
  BY <1>1, <1>4 DEF DayOver, knsVars, tables, Abort
<1> QED
  BY <1>3, <1>4 DEF KnsNext, ReliableNext

(* The distribution implements AwardOnce: whatever the interleaving, an    *)
(* award is recorded, then paid once, or given up, and never reopened.     *)
THEOREM DistributionImplementsAwards == KnsSpec => ImplementsAwards
BY AwardsStart, StepSettles, KnsInvariant, PTL
DEF KnsSpec, ImplementsAwards, Awards!AwardSpec

-----------------------------------------------------------------------------
(* One replica whose calls do not fail.  Then nobody else fills a place of *)
(* the history or creates a row between a run's SELECT and its INSERT, so  *)
(* a run that has recorded an award always comes to pay it.                *)
Alone == \A r, q \in Replica : r = q

(* A recorded award is paid or still in the hands of a run. *)
PaidOrHeld ==
    \A w \in Wallet, d \in Day :
        history[w][d] = "success" =>
            credited[w][d] = 1 \/ \E r \in Replica : today[r] = d /\ w \in Inserted(r)

Free(r, w) == history[w][today[r]] = "none"

(* What a run has read still holds when it writes. *)
StillFree ==
    \A r \in Replica :
        /\ toInsert[r] \subseteq toCredit[r]
        /\ phase[r] \in {"idle", "fetch", "filter", "credit"} => toInsert[r] = {}
        /\ phase[r] = "compute" => todo[r] \cap toInsert[r] = {} /\ \A w \in todo[r] : Free(r, w)
        /\ phase[r] # "credit" => \A w \in toInsert[r] : Free(r, w)
        /\ phase[r] = "create" => \A w \in todo[r] : rows[w] = 0

AloneInv == OneRowPerWallet /\ PaidOrHeld /\ StillFree

LEMMA AloneStart == KnsInit => AloneInv
BY DEF KnsInit, AloneInv, OneRowPerWallet, PaidOrHeld, StillFree, Free

(* The only run ends with nothing in its hands. *)
LEMMA AloneEnd ==
    ASSUME Alone, NEW r \in Replica, KnsInv, EndRun(r), UNCHANGED rows, OneRowPerWallet,
           \A w \in Wallet, d \in Day : history'[w][d] = "success" => credited'[w][d] = 1
    PROVE  AloneInv'
<1>1. phase'[r] = "idle" /\ toInsert'[r] = {} /\ \A q \in Replica : q = r
  BY DEF Alone, KnsInv, KnsTypeOK, EndRun
<1>2. StillFree'
  BY <1>1 DEF StillFree, Free
<1>3. OneRowPerWallet' /\ PaidOrHeld'
  BY DEF OneRowPerWallet, PaidOrHeld
<1> QED
  BY <1>2, <1>3 DEF AloneInv

(* Before its first INSERT the run holds nothing. *)
LEMMA NothingHeld ==
    ASSUME Alone, NEW r \in Replica, KnsInv, PaidOrHeld, phase[r] \notin {"insert", "credit"}
    PROVE  \A w \in Wallet, d \in Day : history[w][d] = "success" => credited[w][d] = 1
BY DEF Alone, PaidOrHeld, Inserted

LEMMA AloneEarly ==
    ASSUME Alone, NEW r \in Replica, KnsInv, AloneInv,
           Start(r) \/ FetchHolders(r) \/ FilterProcessed(r)
    PROVE  AloneInv'
<1>0. /\ phase[r] \in {"idle", "fetch", "filter"} /\ toInsert[r] = {} /\ toCredit[r] = {}
      /\ UNCHANGED <<history, rows, credited>> /\ \A q \in Replica : q = r
  BY DEF Start, FetchHolders, FilterProcessed, AloneInv, StillFree, KnsInv, Buffers, tables, Alone
<1>1. \A w \in Wallet, d \in Day : history[w][d] = "success" => credited[w][d] = 1
  BY <1>0, NothingHeld DEF AloneInv
<1>2. CASE EndRun(r)
  BY <1>0, <1>1, <1>2, AloneEnd DEF AloneInv
<1>3. OneRowPerWallet' /\ PaidOrHeld'
  BY <1>0, <1>1 DEF AloneInv, OneRowPerWallet, PaidOrHeld
<1>4. CASE phase'[r] \in {"fetch", "filter"} /\ UNCHANGED <<toInsert, toCredit>>
  BY <1>0, <1>3, <1>4 DEF AloneInv, StillFree
<1>5. CASE /\ phase'[r] = "compute" /\ todo'[r] = UnprocessedToday(r)
           /\ UNCHANGED <<today, toInsert, toCredit>>
  <2>1. \A w \in todo'[r] : history'[w][today'[r]] = "none"
    BY <1>0, <1>5 DEF UnprocessedToday
  <2> QED
    BY <1>0, <1>3, <1>5, <2>1 DEF AloneInv, StillFree, Free
<1> QED
  BY <1>2, <1>4, <1>5 DEF Start, FetchHolders, FilterProcessed, GoTo, KnsInv, KnsTypeOK

(* An error record takes the place of a wallet that is not to be awarded.  *)
LEMMA AloneCollect ==
    ASSUME Alone, NEW r \in Replica, NEW w \in Wallet, NEW outcome \in {"award", "skip", "error"},
           KnsInv, AloneInv, Collect(r, w, outcome)
    PROVE  AloneInv'
<1> DEFINE awards == IF outcome = "award" THEN toCredit[r] \union {w} ELSE toCredit[r]
<1>0. /\ phase[r] = "compute" /\ w \in todo[r] /\ UNCHANGED <<day, rows, credited>>
      /\ toInsert[r] = toCredit[r] /\ \A q \in Replica : q = r
      /\ toCredit[r] \in SUBSET Wallet /\ todo[r] \in SUBSET Wallet
  BY DEF Collect, KnsInv, KnsTypeOK, Buffers, Alone
<1>1. today[r] \in Day
  BY <1>0, RunningDay
<1>2. /\ todo[r] \cap toInsert[r] = {} /\ \A v \in todo[r] : history[v][today[r]] = "none"
      /\ \A v \in toInsert[r] : history[v][today[r]] = "none"
  BY <1>0 DEF AloneInv, StillFree, Free
<1>3. \A v \in Wallet, d \in Day : history'[v][d] = IF outcome = "error" /\ v = w /\ d = today[r]
                                                    THEN "error" ELSE history[v][d]
  BY <1>0, <1>1, <1>2 DEF Collect, RecordStatus, KnsInv, KnsTypeOK
<1>4. \A v \in Wallet, d \in Day : history'[v][d] = "success" => credited'[v][d] = 1
  BY <1>0, <1>3, NothingHeld DEF AloneInv
<1>5. CASE EndRun(r)
  BY <1>0, <1>4, <1>5, AloneEnd DEF AloneInv
<1>6. CASE /\ phase' = [phase EXCEPT ![r] = IF todo[r] = {w} THEN "ensure" ELSE "compute"]
           /\ todo' = [todo EXCEPT ![r] = @ \ {w}]
           /\ toInsert' = [toInsert EXCEPT ![r] = awards]
           /\ toCredit' = [toCredit EXCEPT ![r] = awards]
           /\ UNCHANGED today
  <2>1. /\ phase'[r] \in {"ensure", "compute"} /\ todo'[r] = todo[r] \ {w}
        /\ toInsert'[r] = awards /\ toCredit'[r] = awards /\ today'[r] = today[r]
    BY <1>6 DEF KnsInv, KnsTypeOK
  <2>2. todo'[r] \cap awards = {}
    BY <1>0, <1>2, <2>1
  <2>3. \A v \in todo[r] \ {w} : history'[v][today[r]] = "none"
    BY <1>0, <1>1, <1>2, <1>3
  <2>4. \A v \in awards : history'[v][today[r]] = "none"
    BY <1>0, <1>1, <1>2, <1>3
  <2> HIDE DEF awards
  <2>5. StillFree'
    BY <1>0, <2>1, <2>2, <2>3, <2>4 DEF StillFree, Free
  <2> QED
    BY <1>0, <1>4, <2>5 DEF AloneInv, OneRowPerWallet, PaidOrHeld
<1> QED
  BY <1>5, <1>6 DEF Collect, GoTo

(* Nobody creates a row between the SELECT and the INSERT. *)
LEMMA AloneEnsure ==
    ASSUME Alone, NEW r \in Replica, KnsInv, AloneInv, FindMissing(r) \/ CreateMissing(r)
    PROVE  AloneInv'
<1>0. /\ phase[r] \in {"ensure", "create"}
      /\ UNCHANGED <<history, credited, today, toInsert, toCredit>>
      /\ phase'[r] \in {"create", "insert"} /\ \A q \in Replica : q = r
  BY DEF FindMissing, CreateMissing, GoTo, tables, Alone, KnsInv, KnsTypeOK
<1>1. PaidOrHeld'
  BY <1>0, NothingHeld DEF AloneInv, PaidOrHeld
<1>2. OneRowPerWallet'
  <2>1. CASE FindMissing(r)
    BY <2>1 DEF FindMissing, tables, AloneInv, OneRowPerWallet
  <2>2. CASE CreateMissing(r)
    BY <2>2 DEF CreateMissing, InsertRows, AloneInv, OneRowPerWallet, StillFree, KnsInv, KnsTypeOK
  <2> QED
    BY <2>1, <2>2
<1>3. phase'[r] = "create" => \A w \in todo'[r] : rows'[w] = 0
  BY DEF FindMissing, CreateMissing, GoTo, tables, KnsInv, KnsTypeOK
<1>4. /\ toInsert[r] \subseteq toCredit[r]
      /\ \A w \in toInsert[r] : history[w][today[r]] = "none"
  BY <1>0 DEF AloneInv, StillFree, Free
<1>5. StillFree'
  BY <1>0, <1>3, <1>4 DEF StillFree, Free
<1> QED
  BY <1>1, <1>2, <1>5 DEF AloneInv

(* No INSERT meets a record. *)
LEMMA AloneInsert ==
    ASSUME Alone, NEW r \in Replica, KnsInv, AloneInv, InsertChunk(r)
    PROVE  AloneInv'
<1>0. /\ phase[r] = "insert" /\ UNCHANGED <<day, rows, credited>> /\ \A q \in Replica : q = r
      /\ toInsert[r] \subseteq toCredit[r] /\ toCredit[r] \in SUBSET Wallet
      /\ \A w \in toInsert[r] : history[w][today[r]] = "none"
  BY DEF InsertChunk, Alone, AloneInv, StillFree, Free, KnsInv, KnsTypeOK
<1>1. PICK chunk \in SUBSET toInsert[r] :
        /\ RecordStatus(chunk, today[r], "success")
        /\ toInsert' = [toInsert EXCEPT ![r] = @ \ chunk]
        /\ phase' = [phase EXCEPT ![r] = IF chunk = toInsert[r] THEN "credit" ELSE "insert"]
        /\ UNCHANGED <<today, todo, toCredit>>
  BY <1>0 DEF InsertChunk, Chunks, GoTo
<1>2. today[r] \in Day
  BY <1>0, RunningDay
<1>3. \A w \in Wallet, d \in Day :
        history'[w][d] = IF w \in chunk /\ d = today[r] THEN "success" ELSE history[w][d]
  BY <1>1, <1>2 DEF RecordStatus, KnsInv, KnsTypeOK
<1>4. /\ toInsert'[r] = toInsert[r] \ chunk /\ today'[r] = today[r] /\ toCredit'[r] = toCredit[r]
      /\ phase'[r] \in {"insert", "credit"}
      /\ phase'[r] = "credit" => chunk = toInsert[r]
  BY <1>1 DEF KnsInv, KnsTypeOK
<1>5. Inserted(r)' = Inserted(r) \union chunk
  BY <1>0, <1>4 DEF Inserted
<1>6. PaidOrHeld'
  <2> SUFFICES ASSUME NEW w \in Wallet, NEW d \in Day, history'[w][d] = "success"
               PROVE  credited'[w][d] = 1 \/ (today'[r] = d /\ w \in Inserted(r)')
    BY DEF PaidOrHeld
  <2>1. CASE w \in chunk /\ d = today[r]
    BY <1>4, <1>5, <2>1
  <2>2. CASE history[w][d] = "success"
    BY <1>0, <1>4, <1>5, <2>2 DEF AloneInv, PaidOrHeld
  <2> QED
    BY <1>3, <2>1, <2>2
<1>7. \A w \in toInsert'[r] : history'[w][today'[r]] = "none"
  BY <1>0, <1>2, <1>3, <1>4
<1>8. StillFree'
  BY <1>0, <1>4, <1>7 DEF StillFree, Free
<1> QED
  BY <1>0, <1>6, <1>8 DEF AloneInv, OneRowPerWallet

(* The UPDATE pays what it takes out of the run's hands. *)
LEMMA AloneCredit ==
    ASSUME Alone, NEW r \in Replica, KnsInv, AloneInv, CreditChunk(r)
    PROVE  AloneInv'
<1>0. /\ phase[r] = "credit" /\ UNCHANGED <<day, history, rows>> /\ \A q \in Replica : q = r
      /\ toCredit[r] \in SUBSET Wallet /\ Inserted(r) = toCredit[r]
  BY DEF CreditChunk, Alone, KnsInv, KnsTypeOK, Inserted
<1>1. PICK chunk \in SUBSET toCredit[r] :
        /\ AddPoints(chunk, today[r])
        /\ \/ chunk = toCredit[r] /\ EndRun(r)
           \/ /\ toCredit' = [toCredit EXCEPT ![r] = @ \ chunk]
              /\ UNCHANGED <<phase, today, todo, toInsert>>
  BY DEF CreditChunk, Chunks
<1>2. today[r] \in Day
  BY <1>0, RunningDay
<1>3. \A w \in chunk : rows[w] > 0 /\ credited[w][today[r]] = 0
  BY <1>0 DEF KnsInv, CreditsHaveRows, Owned
<1>4. \A w \in Wallet, d \in Day :
        credited'[w][d] = IF w \in chunk /\ d = today[r] THEN 1 ELSE credited[w][d]
  <2>1. credited \in [Wallet -> [Day -> Nat]]
    BY DEF KnsInv, KnsTypeOK
  <2> QED
    BY <1>1, <1>2, <1>3, <2>1 DEF AddPoints
<1>5. \A w \in Wallet, d \in Day : history'[w][d] = "success" =>
        credited'[w][d] = 1 \/ (d = today[r] /\ w \in toCredit[r] \ chunk)
  BY <1>0, <1>4 DEF AloneInv, PaidOrHeld
<1>6. CASE chunk = toCredit[r] /\ EndRun(r)
  <2>1. \A w \in Wallet, d \in Day : history'[w][d] = "success" => credited'[w][d] = 1
    BY <1>5, <1>6
  <2> QED
    BY <1>0, <1>6, <2>1, AloneEnd DEF AloneInv
<1>7. CASE /\ toCredit' = [toCredit EXCEPT ![r] = @ \ chunk]
           /\ UNCHANGED <<phase, today, todo, toInsert>>
  <2>1. toCredit'[r] = toCredit[r] \ chunk
    BY <1>7 DEF KnsInv, KnsTypeOK
  <2>2. Inserted(r)' = toCredit[r] \ chunk
    BY <1>0, <1>7, <2>1 DEF Inserted
  <2>3. PaidOrHeld'
    BY <1>5, <1>7, <2>2 DEF PaidOrHeld
  <2>4. toInsert[r] = {}
    BY <1>0 DEF AloneInv, StillFree
  <2>5. StillFree'
    BY <1>0, <1>7, <2>1, <2>4 DEF StillFree, Free
  <2> QED
    BY <1>0, <2>3, <2>5 DEF AloneInv, OneRowPerWallet
<1> QED
  BY <1>1, <1>6, <1>7

LEMMA AloneNext ==
    ASSUME Alone, KnsInv, AloneInv, [ReliableNext]_knsVars
    PROVE  AloneInv'
<1>1. CASE DayOver \/ UNCHANGED knsVars
  <2>1. UNCHANGED <<history, rows, credited, phase, today, todo, toInsert, toCredit>>
    BY <1>1 DEF DayOver, knsVars, tables, locals
  <2>2. \A r \in Replica : Inserted(r)' = Inserted(r)
    BY <2>1 DEF Inserted
  <2> QED
    BY <2>1, <2>2 DEF AloneInv, OneRowPerWallet, PaidOrHeld, StillFree, Free
<1>2. ASSUME NEW r \in Replica, Work(r) PROVE AloneInv'
  BY <1>2, AloneEarly, AloneCollect, AloneEnsure, AloneInsert, AloneCredit DEF Work
<1> QED
  BY <1>1, <1>2 DEF ReliableNext

LEMMA AloneInvariant == ASSUME Alone PROVE ReliableSpec => [](KnsInv /\ AloneInv)
<1>1. KnsInit => KnsInv /\ AloneInv
  BY KnsInitInv, AloneStart
<1>2. KnsInv /\ AloneInv /\ [ReliableNext]_knsVars => KnsInv' /\ AloneInv'
  BY KnsNextKeeps, AloneNext DEF KnsNext
<1> QED
  BY <1>1, <1>2, PTL DEF ReliableSpec

(* With one replica and no failures a record that says "Points awarded     *)
(* successfully" is paid once no run of its day is in progress.            *)
THEOREM AloneSettledPaid == ASSUME Alone PROVE ReliableSpec => []SettledSuccessPaid
<1>1. KnsInv /\ AloneInv => SettledSuccessPaid
  BY DEF AloneInv, PaidOrHeld, SettledSuccessPaid
<1> QED
  BY <1>1, AloneInvariant, PTL

(* And the job creates no second row for a wallet.                         *)
THEOREM AloneOneRow == ASSUME Alone PROVE ReliableSpec => []OneRowPerWallet
<1>1. KnsInv /\ AloneInv => OneRowPerWallet
  BY DEF AloneInv
<1> QED
  BY <1>1, AloneInvariant, PTL
=============================================================================
