---------------------------- MODULE LedgerProofs ----------------------------
(* What the statements on user_points do, for any number of requests: the  *)
(* lemmas that the services which use the table are proved with.           *)
EXTENDS PointsLedger, TLAPS

Row == [Column -> Nat]

(* An entity on its way to the table is within what will be due.           *)
SavesWithinDue ==
    \A c \in Call : access[c].step \in {"reload", "write"} =>
        \A f \in Lifetime : access[c].record[f] <= due[f] + access[c].gain[f]

Ledger == LedgerTypeOK /\ NeverMoreThanDue /\ SavesWithinDue

(* While no two calls are in progress at once: there is at most one row,   *)
(* the entity in memory is that row and the grant, and the columns to be   *)
(* updated are those in which the two differ.                              *)
Undisturbed ==
    /\ Len(rows) <= 1
    /\ \A c \in Call :
          /\ access[c].step = "create" => rows = <<>>
          /\ access[c].step \in {"reload", "write"} =>
                access[c].record = Plus(rows[1], access[c].gain)
          /\ access[c].step = "write" =>
                access[c].changed = {f \in Column : access[c].record[f] # rows[1][f]}

-----------------------------------------------------------------------------
LEMMA Columns ==
    /\ Lifetime \subseteq Column
    /\ "swapPointsToday" \in Column
    /\ "communityPointsThisWeek" \in Column
    /\ "lastSwapDayReset" \in Column
    /\ "lastWeekReset" \in Column
    /\ "swapPointsToday" \notin Lifetime
    /\ "communityPointsThisWeek" \notin Lifetime
    /\ "lastSwapDayReset" \notin Lifetime
    /\ "lastWeekReset" \notin Lifetime
  BY DEF Column, Lifetime, Part, Counter, ResetDate

LEMMA RowSums ==
    ASSUME NEW a \in Row, NEW b \in Row
    PROVE  /\ Plus(a, b) \in Row
           /\ \A f \in Column : Plus(a, b)[f] = a[f] + b[f]
  BY DEF Plus, Row

LEMMA Gains ==
    /\ Blank \in Row
    /\ \A f \in Column : Blank[f] = 0
    /\ \A n \in Nat : SwapGain(n) \in Row /\ CommunityGain(n) \in Row /\ KnsGain(n) \in Row
    /\ StatsGain \in Row
  BY DEF Blank, Row, SwapGain, CommunityGain, KnsGain, StatsGain, Gain

LEMMA PlusBlank ==
    ASSUME NEW a \in Row PROVE Plus(a, Blank) = a
<1>1. Plus(a, Blank) \in Row /\ \A f \in Column : Plus(a, Blank)[f] = a[f] + Blank[f]
  BY Gains, RowSums
<1>2. \A f \in Column : Plus(a, Blank)[f] = a[f]
  BY <1>1, Gains DEF Row
<1> QED
  BY <1>1, <1>2 DEF Row

LEMMA NoAccessType == NoAccess \in Access
  BY Gains DEF NoAccess, Access, Row

(* The tables as tuples of rows.                                           *)
LEMMA RowsMapped ==
    ASSUME NEW R \in Seq(Row), NEW S,
           S = [i \in DOMAIN R |-> S[i]],
           \A i \in DOMAIN R : S[i] \in Row
    PROVE  S \in Seq(Row) /\ DOMAIN S = DOMAIN R
<1>1. DOMAIN R = 1 .. Len(R) /\ Len(R) \in Nat
  OBVIOUS
<1>2. DOMAIN S = DOMAIN R
  OBVIOUS
<1>3. S \in [1 .. Len(R) -> Row]
  BY <1>1
<1> QED
  BY <1>1, <1>2, <1>3

LEMMA LedgerInitOK ==
    ASSUME LedgerInit
    PROVE  Ledger
<1>1. /\ day = 1 /\ rows \in {<<>>, <<Blank>>} /\ due = Blank
      /\ access = [c \in Call |-> NoAccess]
  BY DEF LedgerInit
<1>2. rows \in Seq(Row) /\ \A i \in DOMAIN rows : rows[i] = Blank
  <2>1. CASE rows = <<>>
    BY <2>1
  <2>2. CASE rows = <<Blank>>
    <3>1. Blank \in Row
      BY Gains
    <3> QED
      BY <2>2, <3>1
  <2> QED
    BY <1>1, <2>1, <2>2
<1>3. \A c \in Call : access[c].step = "none"
  BY <1>1 DEF NoAccess
<1>4. access \in [Call -> Access]
  BY <1>1, NoAccessType
<1>5. day \in 1 .. LastDay
  BY <1>1, LedgerAssumption
<1>6. LedgerTypeOK /\ SavesWithinDue
  BY <1>1, <1>2, <1>3, <1>4, <1>5, Gains DEF LedgerTypeOK, SavesWithinDue, Row
<1>7. NeverMoreThanDue
  BY <1>1, <1>2, Gains, Columns DEF NeverMoreThanDue
<1> QED
  BY <1>6, <1>7 DEF Ledger

-----------------------------------------------------------------------------
(* Calls of the repository begin and end without touching the table.       *)
LEMMA BeginKeeps ==
    ASSUME LedgerTypeOK, SavesWithinDue, NEW c \in Call,
           NEW saves \in BOOLEAN, NEW gain \in Row,
           Begin(c, saves, gain), UNCHANGED <<day, rows, due>>
    PROVE  LedgerTypeOK' /\ SavesWithinDue'
<1> DEFINE a == [NoAccess EXCEPT !.step = "read", !.saves = saves, !.gain = gain]
<1>1. a \in Access /\ a.step = "read"
  BY NoAccessType DEF Access, Row, NoAccess
<1>2. access' = [access EXCEPT ![c] = a] /\ access \in [Call -> Access]
  BY DEF Begin, LedgerTypeOK
<1> HIDE DEF a
<1>3. access' \in [Call -> Access]
  BY <1>1, <1>2
<1>4. \A e \in Call : access'[e].step \in {"reload", "write"} => access'[e] = access[e]
  BY <1>1, <1>2
<1>5. LedgerTypeOK'
  BY <1>3, <1>4 DEF LedgerTypeOK
<1>6. SavesWithinDue'
  BY <1>4 DEF SavesWithinDue
<1> QED
  BY <1>5, <1>6

LEMMA LeaveKeeps ==
    ASSUME LedgerTypeOK, SavesWithinDue, NEW c \in Call,
           Leave(c), UNCHANGED <<day, rows, due>>
    PROVE  LedgerTypeOK' /\ SavesWithinDue'
<1>1. access' = [access EXCEPT ![c] = NoAccess] /\ access \in [Call -> Access]
  BY DEF Leave, LedgerTypeOK
<1>2. access' \in [Call -> Access]
  BY <1>1, NoAccessType
<1>3. NoAccess.step = "none"
  BY DEF NoAccess
<1>4. \A e \in Call : access'[e].step \in {"reload", "write"} => access'[e] = access[e]
  BY <1>1, <1>3
<1>5. LedgerTypeOK'
  BY <1>2, <1>4 DEF LedgerTypeOK
<1>6. SavesWithinDue'
  BY <1>4 DEF SavesWithinDue
<1> QED
  BY <1>5, <1>6

(* The entity in memory is a row of the table plus the grant.              *)
LEMMA LoadedKeeps ==
    ASSUME LedgerTypeOK, SavesWithinDue, NEW c \in Call, NEW i \in Nat,
           NEW row \in Row, \A f \in Lifetime : row[f] <= due[f],
           Loaded(c, i, row), rows' \in Seq(Row),
           DOMAIN rows \subseteq DOMAIN rows', i \in DOMAIN rows',
           UNCHANGED <<day, due>>
    PROVE  LedgerTypeOK' /\ SavesWithinDue'
<1> DEFINE next == IF access[c].saves THEN "reload" ELSE "done"
           a == [access[c] EXCEPT !.step = next, !.id = i,
                                  !.record = Plus(row, access[c].gain)]
<1>1. access[c] \in Access /\ access[c].gain \in Row
  BY DEF LedgerTypeOK, Access, Row
<1>2. next \in {"reload", "done"}
  OBVIOUS
<1>3. Plus(row, access[c].gain) \in Row
  BY <1>1, RowSums
<1> HIDE DEF next
<1>4. /\ a \in Access /\ a.id = i /\ a.gain = access[c].gain
      /\ a.record = Plus(row, access[c].gain)
  BY <1>1, <1>2, <1>3 DEF Access, Row
<1>5. access' = [access EXCEPT ![c] = a] /\ access \in [Call -> Access]
  BY DEF Loaded, LedgerTypeOK, next
<1> HIDE DEF a
<1>6. access' \in [Call -> Access]
  BY <1>4, <1>5
<1>7. \A e \in Call : access'[e] = IF e = c THEN a ELSE access[e]
  BY <1>5
<1>8. LedgerTypeOK'
  BY <1>4, <1>6, <1>7 DEF LedgerTypeOK, Row
<1>9. \A f \in Lifetime : a.record[f] <= due[f] + a.gain[f]
  <2> TAKE f \in Lifetime
  <2>1. f \in Column /\ row[f] <= due[f]
    BY Columns
  <2>2. a.record[f] = row[f] + access[c].gain[f]
    BY <1>1, <1>4, <2>1, RowSums
  <2>3. row[f] \in Nat /\ due[f] \in Nat /\ access[c].gain[f] \in Nat
    BY <1>1, <2>1 DEF LedgerTypeOK, Row
  <2> QED
    BY <1>4, <2>1, <2>2, <2>3
<1>10. SavesWithinDue'
  BY <1>7, <1>9 DEF SavesWithinDue
<1> QED
  BY <1>8, <1>10

LEMMA FindOneKeeps ==
    ASSUME LedgerTypeOK, NeverMoreThanDue, SavesWithinDue, NEW c \in Call, FindOne(c)
    PROVE  LedgerTypeOK' /\ NeverMoreThanDue' /\ SavesWithinDue'
<1>1. NeverMoreThanDue'
  BY DEF FindOne, NeverMoreThanDue
<1>2. CASE rows = <<>>
  <2> DEFINE a == [access[c] EXCEPT !.step = "create"]
  <2>1. access' = [access EXCEPT ![c] = a] /\ access \in [Call -> Access]
    BY <1>2 DEF FindOne, LedgerTypeOK
  <2>2. a \in Access /\ a.step = "create"
    BY DEF LedgerTypeOK, Access
  <2> HIDE DEF a
  <2>3. access' \in [Call -> Access]
    BY <2>1, <2>2
  <2>4. \A e \in Call : access'[e].step \in {"reload", "write"} => access'[e] = access[e]
    BY <2>1, <2>2
  <2>5. UNCHANGED <<day, rows, due>>
    BY DEF FindOne
  <2>6. LedgerTypeOK'
    BY <2>3, <2>4, <2>5 DEF LedgerTypeOK
  <2>7. SavesWithinDue'
    BY <2>4, <2>5 DEF SavesWithinDue
  <2> QED
    BY <1>1, <2>6, <2>7
<1>3. CASE rows # <<>>
  <2>1. PICK i \in DOMAIN rows : Loaded(c, i, rows[i])
    BY <1>3 DEF FindOne
  <2>2. rows \in Seq(Row) /\ i \in Nat /\ rows[i] \in Row
    BY DEF LedgerTypeOK, Row
  <2>3. \A f \in Lifetime : rows[i][f] <= due[f]
    BY DEF NeverMoreThanDue
  <2>4. UNCHANGED <<day, rows, due>>
    BY DEF FindOne
  <2>5. LedgerTypeOK' /\ SavesWithinDue'
    BY <2>1, <2>2, <2>3, <2>4, LoadedKeeps
  <2> QED
    BY <1>1, <2>5
<1> QED
  BY <1>2, <1>3

LEMMA InsertRowKeeps ==
    ASSUME LedgerTypeOK, NeverMoreThanDue, SavesWithinDue, NEW c \in Call, InsertRow(c)
    PROVE  LedgerTypeOK' /\ NeverMoreThanDue' /\ SavesWithinDue'
<1>1. rows \in Seq(Row) /\ Blank \in Row /\ rows' = Append(rows, Blank)
  BY Gains DEF LedgerTypeOK, Row, InsertRow
<1> DEFINE n == Len(rows) + 1
<1>2. /\ rows' \in Seq(Row) /\ DOMAIN rows' = 1 .. n /\ DOMAIN rows = 1 .. (n - 1)
      /\ n \in Nat \ {0}
      /\ rows'[n] = Blank /\ \A i \in 1 .. (n - 1) : rows'[i] = rows[i]
  BY <1>1
<1>3. Loaded(c, n, Blank) /\ UNCHANGED <<day, due>>
  BY DEF InsertRow
<1> HIDE DEF n
<1>4. \A f \in Lifetime : Blank[f] <= due[f]
  BY Gains, Columns DEF LedgerTypeOK
<1>5. LedgerTypeOK' /\ SavesWithinDue'
  <2>1. DOMAIN rows \subseteq DOMAIN rows' /\ n \in DOMAIN rows'
    BY <1>2
  <2> QED
    BY <1>1, <1>2, <1>3, <1>4, <2>1, LoadedKeeps
<1>6. NeverMoreThanDue'
  <2> SUFFICES ASSUME NEW i \in DOMAIN rows', NEW f \in Lifetime
               PROVE  rows'[i][f] <= due[f]
    BY <1>3 DEF NeverMoreThanDue
  <2>1. CASE i = n
    BY <1>2, <1>4, <2>1
  <2>2. CASE i # n
    <3>1. i \in DOMAIN rows /\ rows'[i] = rows[i]
      BY <1>2, <2>2
    <3> QED
      BY <3>1 DEF NeverMoreThanDue
  <2> QED
    BY <2>1, <2>2
<1> QED
  BY <1>5, <1>6

LEMMA SaveSelectKeeps ==
    ASSUME LedgerTypeOK, NeverMoreThanDue, SavesWithinDue, NEW c \in Call, SaveSelect(c)
    PROVE  LedgerTypeOK' /\ NeverMoreThanDue' /\ SavesWithinDue'
<1> DEFINE differ == {f \in Column :
                         access[c].record[f] # rows[access[c].id][f]}
           a == [access[c] EXCEPT !.step = "write", !.changed = differ]
<1>1. access' = [access EXCEPT ![c] = a] /\ access \in [Call -> Access]
  BY DEF SaveSelect, LedgerTypeOK
<1>2. access[c] \in Access /\ access[c].step = "reload"
  BY <1>1 DEF SaveSelect
<1>3. differ \in SUBSET Column
  OBVIOUS
<1> HIDE DEF differ
<1>4. /\ a \in Access /\ a.id = access[c].id
      /\ a.gain = access[c].gain /\ a.record = access[c].record
  BY <1>2, <1>3 DEF Access
<1> HIDE DEF a
<1>5. access' \in [Call -> Access]
  BY <1>1, <1>4
<1>6. \A e \in Call : access'[e] = IF e = c THEN a ELSE access[e]
  BY <1>1
<1>7. UNCHANGED <<day, rows, due>>
  BY DEF SaveSelect
<1>8. LedgerTypeOK'
  BY <1>2, <1>4, <1>5, <1>6, <1>7 DEF LedgerTypeOK
<1>9. SavesWithinDue'
  BY <1>2, <1>4, <1>6, <1>7 DEF SavesWithinDue
<1>10. NeverMoreThanDue'
  BY <1>7 DEF NeverMoreThanDue
<1> QED
  BY <1>8, <1>9, <1>10

(* A column is left alone or takes what the entity holds, and the grant    *)
(* becomes due in the same statement.                                      *)
LEMMA SaveUpdateKeeps ==
    ASSUME LedgerTypeOK, NeverMoreThanDue, SavesWithinDue, NEW c \in Call, SaveUpdate(c)
    PROVE  LedgerTypeOK' /\ NeverMoreThanDue' /\ SavesWithinDue'
<1> DEFINE a == access[c]
           merged == [f \in Column |-> IF f \in a.changed THEN a.record[f]
                                                          ELSE rows[a.id][f]]
           idle == [NoAccess EXCEPT !.step = "done"]
<1>1. /\ a \in Access /\ a.step = "write" /\ a.id \in DOMAIN rows
      /\ a.gain \in Row /\ a.record \in Row /\ rows[a.id] \in Row
      /\ rows \in Seq(Row) /\ due \in Row
  BY DEF LedgerTypeOK, SaveUpdate, Access, Row
<1>2. merged \in Row
  BY <1>1 DEF Row
<1>3. rows' = [rows EXCEPT ![a.id] = merged] /\ due' = Plus(due, a.gain) /\ day' = day
  BY DEF SaveUpdate
<1>4. due' \in Row /\ \A f \in Column : due'[f] = due[f] + a.gain[f]
  BY <1>1, <1>3, RowSums
<1>5. \A f \in Lifetime : merged[f] <= due'[f]
  <2> TAKE f \in Lifetime
  <2>1. f \in Column
    BY Columns
  <2>2. /\ due[f] \in Nat /\ a.gain[f] \in Nat /\ due'[f] = due[f] + a.gain[f]
        /\ rows[a.id][f] \in Nat
    BY <1>1, <1>4, <2>1 DEF Row
  <2>3. a.record[f] <= due[f] + a.gain[f]
    BY <1>1 DEF SavesWithinDue
  <2>4. rows[a.id][f] <= due[f]
    BY <1>1 DEF NeverMoreThanDue
  <2>5. merged[f] = a.record[f] \/ merged[f] = rows[a.id][f]
    BY <2>1
  <2> HIDE DEF merged, a
  <2> QED
    BY <2>2, <2>3, <2>4, <2>5
<1>6. access' = [access EXCEPT ![c] = idle] /\ access \in [Call -> Access]
  BY DEF SaveUpdate, Saved, LedgerTypeOK
<1>7. idle \in Access /\ idle.step = "done"
  BY NoAccessType DEF Access, NoAccess
<1> HIDE DEF merged, idle
<1>8. /\ rows' \in Seq(Row) /\ DOMAIN rows' = DOMAIN rows
      /\ \A i \in DOMAIN rows : rows'[i] = IF i = a.id THEN merged ELSE rows[i]
  BY <1>1, <1>2, <1>3
<1> HIDE DEF a
<1>9. \A f \in Lifetime : due[f] \in Nat /\ a.gain[f] \in Nat /\ due'[f] = due[f] + a.gain[f]
  BY <1>1, <1>4, Columns DEF Row
<1>10. NeverMoreThanDue'
  <2> SUFFICES ASSUME NEW i \in DOMAIN rows', NEW f \in Lifetime
               PROVE  rows'[i][f] <= due'[f]
    BY DEF NeverMoreThanDue
  <2>1. CASE i = a.id
    BY <1>5, <1>8, <2>1
  <2>2. CASE i # a.id
    <3>1. rows'[i] = rows[i] /\ i \in DOMAIN rows
      BY <1>8, <2>2
    <3>2. rows[i][f] <= due[f] /\ rows[i][f] \in Nat
      BY <1>1, <3>1, Columns DEF NeverMoreThanDue, Row
    <3> QED
      BY <1>9, <3>1, <3>2
  <2> QED
    BY <2>1, <2>2
<1>11. access' \in [Call -> Access]
  BY <1>6, <1>7
<1>12. \A e \in Call : access'[e].step \in {"reload", "write"} => access'[e] = access[e]
  BY <1>6, <1>7
<1>13. LedgerTypeOK'
  BY <1>3, <1>4, <1>8, <1>11, <1>12 DEF LedgerTypeOK, Row
<1>14. SavesWithinDue'
  <2> SUFFICES ASSUME NEW e \in Call, access'[e].step \in {"reload", "write"},
                      NEW f \in Lifetime
               PROVE  access'[e].record[f] <= due'[f] + access'[e].gain[f]
    BY DEF SavesWithinDue
  <2>1. access'[e] = access[e]
    BY <1>12
  <2>2. access[e].record[f] <= due[f] + access[e].gain[f]
    BY <2>1 DEF SavesWithinDue
  <2>3. access[e].record[f] \in Nat /\ access[e].gain[f] \in Nat
    BY Columns DEF LedgerTypeOK, Access
  <2> QED
    BY <1>9, <2>1, <2>2, <2>3
<1> QED
  BY <1>10, <1>13, <1>14

LEMMA LedgerStepKeeps ==
    ASSUME LedgerTypeOK, NeverMoreThanDue, SavesWithinDue, NEW c \in Call, LedgerStep(c)
    PROVE  LedgerTypeOK' /\ NeverMoreThanDue' /\ SavesWithinDue'
  BY FindOneKeeps, InsertRowKeeps, SaveSelectKeeps, SaveUpdateKeeps DEF LedgerStep

-----------------------------------------------------------------------------
(* The statements over all rows.                                           *)
LEMMA BulkAddKnsKeeps ==
    ASSUME LedgerTypeOK, NeverMoreThanDue, SavesWithinDue, NEW n \in Nat, BulkAddKns(n)
    PROVE  LedgerTypeOK' /\ NeverMoreThanDue' /\ SavesWithinDue'
<1> DEFINE g == KnsGain(n)
<1>1. g \in Row /\ rows \in Seq(Row) /\ due \in Row
  BY Gains DEF LedgerTypeOK, Row
<1>2. /\ rows' = [i \in DOMAIN rows |-> Plus(rows[i], g)]
      /\ due' = Plus(due, g) /\ UNCHANGED <<day, access>>
  BY DEF BulkAddKns
<1> HIDE DEF g
<1>3. \A i \in DOMAIN rows : rows[i] \in Row
  BY <1>1
<1>4. \A i \in DOMAIN rows : rows'[i] = Plus(rows[i], g) /\ rows'[i] \in Row
  BY <1>1, <1>2, <1>3, RowSums
<1>5. rows' \in Seq(Row) /\ DOMAIN rows' = DOMAIN rows
  <2>1. rows' = [i \in DOMAIN rows |-> rows'[i]]
    BY <1>2
  <2> QED
    BY <1>1, <1>4, <2>1, RowsMapped
<1>6. due' \in Row /\ \A f \in Column : due'[f] = due[f] + g[f]
  BY <1>1, <1>2, RowSums
<1>7. \A f \in Lifetime : due[f] \in Nat /\ g[f] \in Nat /\ due'[f] = due[f] + g[f]
  BY <1>1, <1>6, Columns DEF Row
<1>8. LedgerTypeOK'
  BY <1>2, <1>5, <1>6 DEF LedgerTypeOK, Row
<1>9. NeverMoreThanDue'
  <2> SUFFICES ASSUME NEW i \in DOMAIN rows, NEW f \in Lifetime
               PROVE  rows'[i][f] <= due'[f]
    BY <1>5 DEF NeverMoreThanDue
  <2>0. rows[i] \in Row /\ f \in Column /\ rows'[i] = Plus(rows[i], g)
    BY <1>3, <1>4, Columns
  <2>1. rows'[i][f] = rows[i][f] + g[f] /\ rows[i][f] \in Nat
    <3>1. Plus(rows[i], g)[f] = rows[i][f] + g[f]
      BY <1>1, <2>0, RowSums
    <3> QED
      BY <2>0, <3>1 DEF Row
  <2>2. rows[i][f] <= due[f]
    BY DEF NeverMoreThanDue
  <2> QED
    BY <1>7, <2>1, <2>2
<1>10. SavesWithinDue'
  <2> SUFFICES ASSUME NEW e \in Call, access[e].step \in {"reload", "write"},
                      NEW f \in Lifetime
               PROVE  access[e].record[f] <= due'[f] + access[e].gain[f]
    BY <1>2 DEF SavesWithinDue
  <2>1. access[e].record[f] <= due[f] + access[e].gain[f]
    BY DEF SavesWithinDue
  <2>2. access[e].record[f] \in Nat /\ access[e].gain[f] \in Nat
    BY Columns DEF LedgerTypeOK, Access
  <2> QED
    BY <1>7, <2>1, <2>2
<1> QED
  BY <1>8, <1>9, <1>10

LEMMA BatchResetKeeps ==
    ASSUME LedgerTypeOK, NeverMoreThanDue, SavesWithinDue,
           NEW counter \in Counter, NEW date \in ResetDate, NEW oldest,
           BatchReset(counter, date, oldest)
    PROVE  LedgerTypeOK' /\ NeverMoreThanDue' /\ SavesWithinDue'
<1>1. /\ rows' = [i \in DOMAIN rows |-> ResetRow(rows[i], counter, date, oldest)]
      /\ UNCHANGED <<day, access, due>>
  BY DEF BatchReset
<1>2. rows \in Seq(Row) /\ day \in Nat
  BY LedgerAssumption DEF LedgerTypeOK, Row
<1>3. counter \notin Lifetime /\ date \notin Lifetime
  BY DEF Counter, ResetDate, Lifetime, Part
<1>4. ASSUME NEW i \in DOMAIN rows
      PROVE  rows'[i] \in Row /\ \A f \in Lifetime : rows'[i][f] = rows[i][f]
  <2>1. rows[i] \in Row
    BY <1>2
  <2>2. \/ rows'[i] = rows[i]
        \/ rows'[i] = [rows[i] EXCEPT ![counter] = 0, ![date] = day]
    BY <1>1 DEF ResetRow
  <2>3. rows'[i] \in Row
    <3>1. [rows[i] EXCEPT ![counter] = 0, ![date] = day] \in Row
      BY <1>2, <2>1 DEF Row
    <3> QED
      BY <2>1, <2>2, <3>1
  <2>4. \A f \in Lifetime : f \in Column /\ f # counter /\ f # date
    BY <1>3, Columns
  <2>5. \A f \in Lifetime : rows'[i][f] = rows[i][f]
    <3>1. CASE rows'[i] = rows[i]
      BY <3>1
    <3>2. CASE rows'[i] = [rows[i] EXCEPT ![counter] = 0, ![date] = day]
      BY <2>1, <2>4, <3>2 DEF Row
    <3> QED
      BY <2>2, <3>1, <3>2
  <2> QED
    BY <2>3, <2>5
<1>5. rows' \in Seq(Row) /\ DOMAIN rows' = DOMAIN rows
  <2>1. rows' = [i \in DOMAIN rows |-> rows'[i]]
    BY <1>1
  <2> QED
    BY <1>2, <1>4, <2>1, RowsMapped
<1>6. LedgerTypeOK'
  BY <1>1, <1>5 DEF LedgerTypeOK, Row
<1>7. NeverMoreThanDue'
  BY <1>1, <1>4, <1>5 DEF NeverMoreThanDue
<1>8. SavesWithinDue'
  BY <1>1 DEF SavesWithinDue
<1> QED
  BY <1>6, <1>7, <1>8

LEMMA MidnightKeeps ==
    ASSUME LedgerTypeOK, NeverMoreThanDue, SavesWithinDue, Midnight
    PROVE  LedgerTypeOK' /\ NeverMoreThanDue' /\ SavesWithinDue' /\ day' = day + 1
<1>1. due \in Row /\ day \in 1 .. LastDay /\ LastDay \in Nat
  BY LedgerAssumption DEF LedgerTypeOK, Row
<1>2. UNCHANGED <<rows, access>> /\ day' = day + 1 /\ day < LastDay
  BY DEF Midnight
<1>3. due' = [due EXCEPT !["swapPointsToday"] = 0,
                         !["communityPointsThisWeek"] = IF IsMonday(day + 1) THEN 0 ELSE @]
  BY DEF Midnight
<1>4. due' \in Row /\ \A f \in Lifetime : due'[f] = due[f]
  BY <1>1, <1>3, Columns DEF Row
<1>5. LedgerTypeOK'
  BY <1>1, <1>2, <1>4 DEF LedgerTypeOK, Row
<1>6. NeverMoreThanDue' /\ SavesWithinDue'
  BY <1>2, <1>4 DEF NeverMoreThanDue, SavesWithinDue
<1> QED
  BY <1>2, <1>5, <1>6
-----------------------------------------------------------------------------
(* One statement of a repository call, as its caller sees it: the call     *)
(* goes on, or its UPDATE makes the grant due and ends it.                 *)
LEMMA LedgerMoves ==
    ASSUME LedgerTypeOK, NEW c \in Call, LedgerStep(c)
    PROVE  /\ day' = day
           /\ \A b \in Call : b # c => access'[b] = access[b]
           /\ access[c].step \in {"read", "create", "reload", "write"}
           /\ access[c].step # "write" =>
                 /\ due' = due
                 /\ access'[c].saves = access[c].saves
                 /\ access'[c].gain = access[c].gain
                 /\ access[c].saves => access'[c].step \in {"create", "reload", "write"}
                 /\ ~access[c].saves /\ access[c].step # "reload" =>
                       access'[c].step \in {"create", "done"}
           /\ access[c].step = "write" =>
                 due' = Plus(due, access[c].gain) /\ access'[c].step = "done"
<1>1. access \in [Call -> Access] /\ access[c] \in Access
  BY DEF LedgerTypeOK
<1> USE DEF Access
<1>2. CASE FindOne(c)
  <2>1. CASE rows = <<>>
    BY <1>1, <1>2, <2>1 DEF FindOne
  <2>2. CASE rows # <<>>
    <3>1. /\ access[c].step = "read" /\ UNCHANGED <<day, due>>
          /\ \E i \in DOMAIN rows : Loaded(c, i, rows[i])
      BY <1>2, <2>2 DEF FindOne
    <3>2. PICK i \in DOMAIN rows : Loaded(c, i, rows[i])
      BY <3>1
    <3>3. /\ \A b \in Call : b # c => access'[b] = access[b]
          /\ access'[c].step = IF access[c].saves THEN "reload" ELSE "done"
          /\ access'[c].saves = access[c].saves /\ access'[c].gain = access[c].gain
      BY <1>1, <3>2 DEF Loaded
    <3> QED
      BY <3>1, <3>3
  <2> QED
    BY <2>1, <2>2
<1>3. CASE InsertRow(c)
  BY <1>1, <1>3 DEF InsertRow, Loaded
<1>4. CASE SaveSelect(c)
  BY <1>1, <1>4 DEF SaveSelect
<1>5. CASE SaveUpdate(c)
  BY <1>1, <1>5 DEF SaveUpdate, Saved, NoAccess
<1> QED
  BY <1>2, <1>3, <1>4, <1>5 DEF LedgerStep

(* A table of at most one row.                                             *)
LEMMA OneRow ==
    ASSUME NEW R \in Seq(Row), Len(R) <= 1, R # <<>>
    PROVE  Len(R) = 1 /\ DOMAIN R = {1} /\ R[1] \in Row
<1>1. Len(R) \in Nat /\ Len(R) # 0
  OBVIOUS
<1>2. Len(R) = 1
  <2> DEFINE n == Len(R)
  <2>1. n \in Nat /\ n # 0 /\ n <= 1
    BY <1>1
  <2> HIDE DEF n
  <2>2. n = 1
    BY <2>1
  <2> QED
    BY <2>2 DEF n
<1>3. DOMAIN R = 1 .. 1
  BY <1>2
<1> QED
  BY <1>2, <1>3

LEMMA SeqDomain ==
    ASSUME NEW R \in Seq(Row)
    PROVE  Len(R) \in Nat /\ DOMAIN R = 1 .. Len(R)
  OBVIOUS

LEMMA OneLong ==
    ASSUME NEW R \in Seq(Row), DOMAIN R = {1}
    PROVE  Len(R) = 1
<1> DEFINE n == Len(R)
<1>1. n \in Nat /\ 1 .. n = {1}
  BY SeqDomain
<1> HIDE DEF n
<1>2. n = 1
  <2>1. 1 \in 1 .. n /\ (n \in 1 .. n => n = 1)
    BY <1>1
  <2> QED
    BY <1>1, <2>1
<1> QED
  BY <1>2 DEF n

LEMMA NotEmpty ==
    ASSUME NEW R, Len(R) = 1
    PROVE  R # <<>>
<1>1. Len(<<>>) # 1
  OBVIOUS
<1> QED
  BY <1>1, Zenon

(* The same statement when no other call is in progress: what was read is  *)
(* the row, and the UPDATE adds the grant to it exactly.                   *)
LEMMA LedgerMovesAlone ==
    ASSUME LedgerTypeOK, Undisturbed, NEW c \in Call, LedgerStep(c),
           \A b \in Call : b # c => access[b].step = "none"
    PROVE  /\ Undisturbed'
           /\ access[c].step # "write" =>
                 /\ \/ rows' = rows
                    \/ rows = <<>> /\ Len(rows') = 1 /\ rows'[1] = Blank
                 /\ access'[c].step = "done" =>
                       rows' # <<>> /\ access'[c].record = Plus(rows'[1], access[c].gain)
           /\ access[c].step = "write" =>
                 /\ rows # <<>>
                 /\ Len(rows') = 1 /\ rows'[1] = Plus(rows[1], access[c].gain)
<1> DEFINE a == access[c]
<1>1. /\ access \in [Call -> Access] /\ a \in Access /\ a.gain \in Row /\ a.record \in Row
      /\ rows \in Seq(Row)
  BY DEF LedgerTypeOK, Access, Row
<1>2. \A b \in Call : b # c => access'[b] = access[b] /\ access'[b].step = "none"
  BY LedgerMoves
<1>3. SUFFICES /\ Len(rows') <= 1
               /\ access'[c].step = "create" => rows' = <<>>
               /\ access'[c].step \in {"reload", "write"} =>
                     access'[c].record = Plus(rows'[1], access'[c].gain)
               /\ access'[c].step = "write" =>
                     access'[c].changed = {f \in Column : access'[c].record[f] # rows'[1][f]}
               /\ a.step # "write" =>
                     /\ \/ rows' = rows
                        \/ rows = <<>> /\ Len(rows') = 1 /\ rows'[1] = Blank
                     /\ access'[c].step = "done" =>
                           rows' # <<>> /\ access'[c].record = Plus(rows'[1], a.gain)
               /\ a.step = "write" =>
                     /\ rows # <<>>
                     /\ Len(rows') = 1 /\ rows'[1] = Plus(rows[1], a.gain)
  BY <1>2 DEF Undisturbed
<1>4. CASE FindOne(c)
  <2>1. rows' = rows /\ a.step = "read" /\ Len(rows) <= 1
    BY <1>4 DEF FindOne, Undisturbed
  <2>2. CASE rows = <<>>
    BY <1>1, <1>4, <2>1, <2>2 DEF FindOne, Access
  <2>3. CASE rows # <<>>
    <3>1. Loaded(c, 1, rows[1])
      BY <1>1, <1>4, <2>1, <2>3, OneRow DEF FindOne
    <3>2. /\ access'[c].step = IF a.saves THEN "reload" ELSE "done"
          /\ access'[c].record = Plus(rows[1], a.gain) /\ access'[c].gain = a.gain
      BY <1>1, <3>1 DEF Loaded, Access
    <3> QED
      BY <2>1, <2>3, <3>2
  <2> QED
    BY <2>2, <2>3
<1>5. CASE InsertRow(c)
  <2>1. a.step = "create" /\ rows = <<>> /\ rows' = Append(rows, Blank)
    BY <1>5 DEF InsertRow, Undisturbed
  <2>2. Len(rows') = 1 /\ rows'[1] = Blank /\ rows' # <<>>
    BY <2>1
  <2>3. /\ access'[c].step = IF a.saves THEN "reload" ELSE "done"
        /\ access'[c].record = Plus(Blank, a.gain) /\ access'[c].gain = a.gain
    BY <1>1, <1>5 DEF InsertRow, Loaded, Access
  <2> QED
    BY <2>1, <2>2, <2>3
<1>6. CASE SaveSelect(c)
  <2>1. /\ a.step = "reload" /\ rows' = rows /\ Len(rows) <= 1 /\ a.id \in DOMAIN rows
        /\ a.record = Plus(rows[1], a.gain)
    BY <1>6 DEF SaveSelect, Undisturbed, LedgerTypeOK
  <2>2. rows # <<>>
    BY <1>1, <2>1
  <2>3. a.id = 1
    BY <1>1, <2>1, <2>2, OneRow
  <2>4. /\ access'[c].step = "write" /\ access'[c].record = a.record /\ access'[c].gain = a.gain
        /\ access'[c].changed = {f \in Column : a.record[f] # rows[1][f]}
    BY <1>1, <1>6, <2>3 DEF SaveSelect, Access
  <2> HIDE DEF a
  <2> QED
    BY <2>1, <2>4
<1>7. CASE SaveUpdate(c)
  <2>1. /\ a.step = "write" /\ Len(rows) <= 1 /\ a.id \in DOMAIN rows
        /\ a.record = Plus(rows[1], a.gain)
        /\ a.changed = {f \in Column : a.record[f] # rows[1][f]}
    BY <1>7 DEF SaveUpdate, Undisturbed, LedgerTypeOK
  <2>2. rows # <<>>
    BY <1>1, <2>1
  <2>3. a.id = 1 /\ Len(rows) = 1 /\ rows[1] \in Row
    BY <1>1, <2>1, <2>2, OneRow
  <2> DEFINE merged == [f \in Column |-> IF f \in a.changed THEN a.record[f] ELSE rows[1][f]]
  <2>4. rows' = [rows EXCEPT ![1] = merged] /\ access'[c].step = "done"
    BY <1>1, <1>7, <2>3 DEF SaveUpdate, Saved, NoAccess
  <2>5. merged = a.record
    <3>1. \A f \in Column : merged[f] = a.record[f]
      BY <2>1
    <3>2. a.record = [f \in Column |-> a.record[f]]
      BY <1>1 DEF Row
    <3> QED
      BY <3>1, <3>2
  <2> HIDE DEF merged
  <2>6. Len(rows') = 1 /\ rows'[1] = a.record
    BY <1>1, <2>3, <2>4, <2>5
  <2> QED
    BY <2>1, <2>2, <2>4, <2>6
<1> QED
  BY <1>4, <1>5, <1>6, <1>7 DEF LedgerStep
=============================================================================
