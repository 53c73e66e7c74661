------------------------- MODULE ContributionProofs -------------------------
(* Community contributions, for any number of requests, links, categories  *)
(* and days.  However many requests there are at once the types are right  *)
(* and no row shows more than was granted.  With one request at a time an  *)
(* approval keeps what it was decided on until it is awarded: the          *)
(* invariant carries both caps and the limit of the week from the check to *)
(* the save, over the midnights in between.                                *)
EXTENDS Contributions, LedgerProofs, SumTheorems, SequenceTheorems

(* An administrator's award is within the range while it is decided.       *)
Deciding(c) == review[c].step \in {"find", "select", "update"} /\ review[c].status = "approved"
WantsInRange ==
    \A c \in Call :
        /\ review[c].step = "points" => review[c].status = "approved"
        /\ review[c].step = "points" \/ Deciding(c) => review[c].want \in Points

ReviewTypes == ContributionTypeOK /\ NeverMoreThanDue /\ SavesWithinDue /\ WantsInRange

-----------------------------------------------------------------------------
(* One request at a time.                                                  *)
Busy(c) == review[c].step \notin {"new", "over"}
OneAtATime == \A b, c \in Call : Busy(b) /\ Busy(c) => b = c

(* What a request has its repository call do while it waits for it, and    *)
(* what it is told.                                                        *)
Errand(c) ==
    /\ review[c].step \notin {"points", "award", "swap"} => access[c].step = "none"
    /\ review[c].step = "points" =>
          /\ ~access[c].saves /\ access[c].gain = Blank
          /\ access[c].step \in {"read", "create", "done"}
          /\ Returned(c) => rows # <<>> /\ access[c].record = rows[1]
    /\ review[c].step = "award" /\ ~Returned(c) =>
          access[c].saves /\ access[c].gain = CommunityGain(review[c].want)
    /\ review[c].step = "swap" /\ ~Returned(c) =>
          access[c].saves /\ \E n \in SwapPoints : access[c].gain = SwapGain(n)

(* A submission that is being decided waits for the decision, and the      *)
(* entity that is saved is it with the decision.                           *)
Verdict(s, r) == [s EXCEPT !.status = r.status, !.reviewed = r.entity.reviewed,
                           !.points = IF r.status = "approved" THEN r.want ELSE @]

Decision(c) ==
    LET r == review[c] IN
    /\ r.step \in {"points", "find", "select", "update"} =>
          r.status # "pending" /\ submissions[r.id].status = "pending"
    /\ r.step \in {"select", "update"} =>
          r.entity = Verdict(submissions[r.id], r) /\ r.entity.reviewed <= day
    /\ r.step = "update" =>
          r.changed = {f \in SubmissionField : r.entity[f] # submissions[r.id][f]}

Dated ==
    \A i \in DOMAIN submissions :
        /\ submissions[i].status = "pending" => submissions[i].points = 0
        /\ submissions[i].created <= day
        /\ submissions[i].reviewed <= day

AloneInv ==
    /\ OneAtATime /\ Undisturbed /\ Dated
    /\ \A c \in Call : Errand(c) /\ Decision(c)

-----------------------------------------------------------------------------
(* Sums over the submissions R.                                            *)
PointsIn(R, S) == SumFunctionOnSet([i \in DOMAIN R |-> R[i].points], S)
ApprovedIn(R) == {i \in DOMAIN R : R[i].status = "approved"}
ApprovedSince(R, w) == {i \in ApprovedIn(R) : Week(R[i].reviewed) >= w}
ApprovedOf(R, w) == {i \in ApprovedIn(R) : Week(R[i].reviewed) = w}

(* The day an approval takes its points from.                              *)
Judged(c) == IF review[c].step = "find" THEN day ELSE review[c].entity.reviewed

BudgetInv ==
    /\ due.communityPoints <= PointsIn(submissions, ApprovedIn(submissions))
    /\ \A c \in Call : Unawarded(c) =>
          due.communityPoints + review[c].want <= PointsIn(submissions, ApprovedIn(submissions))
    /\ \A w \in Nat : PointsIn(submissions, ApprovedOf(submissions, w))
                         <= COMMUNITY_POINTS_WEEKLY_CAP
    /\ \A c \in Call : Deciding(c) =>
          PointsIn(submissions, ApprovedSince(submissions, Week(Judged(c)))) + review[c].want
             <= COMMUNITY_POINTS_WEEKLY_CAP

(* An approved award keeps fitting under the share cap.                    *)
ShareInv ==
    \A c \in Call : Deciding(c) \/ Unawarded(c) =>
        rows # <<>> /\ ~ExceedsShare(rows[1], review[c].want)

-----------------------------------------------------------------------------
SubmittedIn(R, g, w) == {i \in DOMAIN R : R[i].category = g /\ Week(R[i].created) = w}

Limited(R) ==
    /\ \A i, j \in DOMAIN R : R[i].link = R[j].link => i = j
    /\ \A g \in Category, w \in Nat :
          Cardinality(SubmittedIn(R, g, w)) <= WEEKLY_CATEGORY_LIMITS[g]

(* What the checks have found stays so until the row is inserted.          *)
SubmitInv ==
    /\ Limited(submissions)
    /\ \A c \in Call : review[c].step \in {"limit", "create"} =>
          \A i \in DOMAIN submissions : submissions[i].link # review[c].link
    /\ \A c \in Call : review[c].step = "create" =>
          Cardinality(SubmittedIn(submissions, review[c].category, Week(day)))
             < WEEKLY_CATEGORY_LIMITS[review[c].category]

-----------------------------------------------------------------------------
(* Records.                                                                *)
LEMMA ReviewRecords ==
    /\ SomeLink \in Link /\ SomeCategory \in Category
    /\ \A l \in Link, g \in Category, d \in Nat : Pending(l, g, d) \in Submission
    /\ \A step \in ReviewStep : IdleReview(step) \in ReviewRequest
<1>1. SomeLink \in Link /\ SomeCategory \in Category /\ (CHOOSE p \in Asked : TRUE) \in Asked
  BY ContributionAssumption DEF SomeLink, SomeCategory
<1>2. \A l \in Link, g \in Category, d \in Nat : Pending(l, g, d) \in Submission
  BY DEF Pending, Submission, Status
<1>3. \A step \in ReviewStep : IdleReview(step) \in ReviewRequest
  BY <1>1, <1>2 DEF IdleReview, ReviewRequest, Status
<1> QED
  BY <1>1, <1>2, <1>3

LEMMA SubmissionFields ==
    ASSUME NEW s \in Submission
    PROVE  /\ DOMAIN s = SubmissionField
           /\ s = [f \in SubmissionField |-> s[f]]
           /\ s["link"] \in Link /\ s["category"] \in Category /\ s["created"] \in Nat
           /\ s["status"] \in Status /\ s["points"] \in Points \union {0} /\ s["points"] \in Nat
           /\ s["reviewed"] \in Nat
  BY ContributionAssumption DEF Submission, SubmissionField

LEMMA IsSubmission ==
    ASSUME NEW m, m = [f \in SubmissionField |-> m[f]],
           m["link"] \in Link, m["category"] \in Category, m["created"] \in Nat,
           m["status"] \in Status, m["points"] \in Points \union {0}, m["reviewed"] \in Nat
    PROVE  m \in Submission
<1>1. m = [link |-> m["link"], category |-> m["category"], created |-> m["created"],
           status |-> m["status"], points |-> m["points"], reviewed |-> m["reviewed"]]
  BY DEF SubmissionField
<1> QED
  BY <1>1 DEF Submission

Merged(r, s) == [f \in DOMAIN s |-> IF f \in r.changed THEN r.entity[f] ELSE s[f]]

LEMMA MergedType ==
    ASSUME NEW r \in ReviewRequest, NEW s \in Submission
    PROVE  Merged(r, s) \in Submission
<1> DEFINE m == Merged(r, s)
           e == r.entity
<1>1. e \in Submission
  BY DEF ReviewRequest
<1>2. /\ DOMAIN s = SubmissionField
      /\ s["link"] \in Link /\ s["category"] \in Category /\ s["created"] \in Nat
      /\ s["status"] \in Status /\ s["points"] \in Points \union {0}
      /\ s["reviewed"] \in Nat
  BY SubmissionFields
<1>3. /\ e["link"] \in Link /\ e["category"] \in Category /\ e["created"] \in Nat
      /\ e["status"] \in Status /\ e["points"] \in Points \union {0}
      /\ e["reviewed"] \in Nat
  BY <1>1, SubmissionFields
<1> HIDE DEF e
<1>4. \A f \in SubmissionField : m[f] = e[f] \/ m[f] = s[f]
  BY <1>2 DEF Merged, e
<1>5. m = [f \in SubmissionField |-> m[f]]
  BY <1>2 DEF Merged
<1> HIDE DEF m
<1>6. /\ m["link"] \in Link /\ m["category"] \in Category /\ m["created"] \in Nat
      /\ m["status"] \in Status /\ m["points"] \in Points \union {0}
      /\ m["reviewed"] \in Nat
  BY <1>2, <1>3, <1>4 DEF SubmissionField
<1>7. m \in Submission
  BY <1>5, <1>6, IsSubmission
<1> QED
  BY <1>7 DEF m

(* The submissions as a tuple of records.                                  *)
LEMMA SubmissionsMapped ==
    ASSUME NEW n \in Nat, NEW R, R = [i \in 1 .. n |-> R[i]],
           \A i \in 1 .. n : R[i] \in Submission
    PROVE  R \in Seq(Submission) /\ Len(R) = n /\ DOMAIN R = 1 .. n
<1>1. R \in [1 .. n -> Submission]
  OBVIOUS
<1> QED
  BY <1>1

-----------------------------------------------------------------------------
(* Types, however many requests there are at once.                         *)
(* The steps of a request, but for the statements of its repository calls. *)
Acts(c) ==
    \/ Submit(c) \/ Limit(c) \/ Create(c)
    \/ Approve(c) \/ Caps(c) \/ Reject(c)
    \/ FindById(c) \/ SelectSubmission(c) \/ UpdateSubmission(c) \/ Awarded(c)
    \/ SwapAward(c) \/ Break(c)

Proper(r, ids) ==
    /\ r \in ReviewRequest
    /\ r.step \in {"points", "find", "select", "update"} => r.id \in ids
    /\ r.step = "points" => r.status = "approved"
    /\ r.step = "points" \/ (r.step \in {"find", "select", "update"} /\ r.status = "approved")
          => r.want \in Points

RecordsOK ==
    /\ submissions \in Seq(Submission)
    /\ review \in [Call -> ReviewRequest]
    /\ \A c \in Call : Proper(review[c], DOMAIN submissions)

LEMMA TwoHalves == ReviewTypes <=> Ledger /\ RecordsOK
  BY DEF ReviewTypes, ContributionTypeOK, WantsInRange, Deciding, Ledger, RecordsOK, Proper

LEMMA OneReviewMoves ==
    ASSUME RecordsOK, NEW c \in Call, NEW r, review' = [review EXCEPT ![c] = r],
           submissions' \in Seq(Submission), DOMAIN submissions \subseteq DOMAIN submissions',
           Proper(r, DOMAIN submissions')
    PROVE  RecordsOK'
<1>1. review' \in [Call -> ReviewRequest]
  BY DEF RecordsOK, Proper
<1>2. \A b \in Call : review'[b] = IF b = c THEN r ELSE review[b]
  BY DEF RecordsOK
<1>3. \A b \in Call : Proper(review'[b], DOMAIN submissions')
  BY <1>2 DEF RecordsOK, Proper
<1> QED
  BY <1>1, <1>3 DEF RecordsOK

LEMMA IdleIsProper == \A ids : Proper(IdleReview("over"), ids)
<1>1. IdleReview("over") \in ReviewRequest /\ IdleReview("over").step = "over"
  BY ReviewRecords DEF ReviewStep, IdleReview
<1> QED
  BY <1>1 DEF Proper

LEMMA StoredTypes ==
    ASSUME RecordsOK, NEW c \in Call, review[c].step = "update", StoreEntity(review[c])
    PROVE  /\ submissions' \in Seq(Submission) /\ DOMAIN submissions' = DOMAIN submissions
           /\ review[c].id \in DOMAIN submissions
           /\ submissions'[review[c].id] = Merged(review[c], submissions[review[c].id])
           /\ \A i \in DOMAIN submissions : i # review[c].id => submissions'[i] = submissions[i]
<1> DEFINE r == review[c]
           m == Merged(r, submissions[r.id])
<1>1. r \in ReviewRequest /\ r.id \in DOMAIN submissions /\ submissions \in Seq(Submission)
  BY DEF RecordsOK, Proper
<1>2. submissions[r.id] \in Submission
  BY <1>1
<1>3. m \in Submission
  BY <1>1, <1>2, MergedType
<1>4. submissions' = [submissions EXCEPT ![r.id] = m]
  BY DEF StoreEntity, Merged
<1> HIDE DEF m
<1>5. submissions' \in Seq(Submission) /\ DOMAIN submissions' = DOMAIN submissions
  BY <1>1, <1>3, <1>4
<1>6. submissions'[r.id] = m
  BY <1>1, <1>4
<1>7. \A i \in DOMAIN submissions : i # r.id => submissions'[i] = submissions[i]
  BY <1>1, <1>4
<1> QED
  BY <1>1, <1>5, <1>6, <1>7 DEF m

LEMMA AppendedTypes ==
    ASSUME submissions \in Seq(Submission), NEW s \in Submission,
           submissions' = Append(submissions, s)
    PROVE  /\ submissions' \in Seq(Submission)
           /\ DOMAIN submissions' = DOMAIN submissions \union {Len(submissions) + 1}
           /\ Len(submissions) + 1 \notin DOMAIN submissions
           /\ submissions'[Len(submissions) + 1] = s
           /\ \A i \in DOMAIN submissions : submissions'[i] = submissions[i]
<1> DEFINE n == Len(submissions)
<1>1. n \in Nat /\ DOMAIN submissions = 1 .. n
  OBVIOUS
<1>2. /\ submissions' \in Seq(Submission) /\ DOMAIN submissions' = 1 .. (n + 1)
      /\ submissions'[n + 1] = s
      /\ \A i \in 1 .. n : submissions'[i] = submissions[i]
  BY <1>1
<1> HIDE DEF n
<1>3. 1 .. (n + 1) = 1 .. n \union {n + 1} /\ n + 1 \notin 1 .. n
  BY <1>1
<1> QED
  BY <1>1, <1>2, <1>3 DEF n

LEMMA ReviewTypesKept ==
    ASSUME RecordsOK, LedgerTypeOK, NEW c \in Call,
           Acts(c)
    PROVE  RecordsOK'
<1> DEFINE r == review[c]
<1>1. /\ r \in ReviewRequest /\ Proper(r, DOMAIN submissions)
      /\ submissions \in Seq(Submission) /\ review \in [Call -> ReviewRequest]
      /\ day \in Nat
  BY LedgerAssumption DEF RecordsOK, LedgerTypeOK
<1>2. ASSUME Finish(c), submissions' = submissions PROVE RecordsOK'
  BY <1>1, <1>2, IdleIsProper, OneReviewMoves DEF Finish
<1>3. CASE Submit(c)
  <2>1. PICK l \in Link, g \in Category :
           review' = [review EXCEPT ![c].step = "limit", ![c].link = l, ![c].category = g]
    BY <1>3 DEF Submit
  <2> DEFINE q == [r EXCEPT !.step = "limit", !.link = l, !.category = g]
  <2>2. q \in ReviewRequest /\ q.step = "limit"
    BY <1>1 DEF ReviewRequest, ReviewStep
  <2>3. review' = [review EXCEPT ![c] = q] /\ submissions' = submissions
    BY <1>3, <2>1 DEF Submit
  <2> HIDE DEF q
  <2>4. Proper(q, DOMAIN submissions')
    BY <2>2 DEF Proper
  <2> QED
    BY <1>1, <2>3, <2>4, OneReviewMoves
<1>4. CASE Limit(c)
  <2>1. submissions' = submissions /\ (Finish(c) \/ Move(c, "create"))
    BY <1>4 DEF Limit
  <2>2. CASE Move(c, "create")
    <3> DEFINE q == [r EXCEPT !.step = "create"]
    <3>1. q \in ReviewRequest /\ q.step = "create"
      BY <1>1 DEF ReviewRequest, ReviewStep
    <3>2. review' = [review EXCEPT ![c] = q]
      BY <2>2 DEF Move
    <3> HIDE DEF q
    <3>3. Proper(q, DOMAIN submissions')
      BY <3>1 DEF Proper
    <3> QED
      BY <1>1, <2>1, <3>2, <3>3, OneReviewMoves
  <2> QED
    BY <1>2, <2>1, <2>2
<1>5. CASE Create(c)
  <2> DEFINE s == Pending(r.link, r.category, day)
  <2>1. s \in Submission
    BY <1>1, ReviewRecords DEF ReviewRequest
  <2>2. submissions' = Append(submissions, s) /\ Finish(c)
    BY <1>5 DEF Create
  <2> HIDE DEF s
  <2>3. submissions' \in Seq(Submission) /\ DOMAIN submissions \subseteq DOMAIN submissions'
    BY <1>1, <2>1, <2>2, AppendedTypes
  <2> QED
    BY <2>2, <2>3, IdleIsProper, OneReviewMoves DEF Finish
<1>6. CASE Approve(c)
  <2>1. PICK i \in DOMAIN submissions, p \in Asked \intersect Points :
           review' = [review EXCEPT ![c].step = "points", ![c].id = i,
                                    ![c].status = "approved", ![c].want = p]
    BY <1>6 DEF Approve
  <2> DEFINE q == [r EXCEPT !.step = "points", !.id = i, !.status = "approved", !.want = p]
  <2>2. q \in ReviewRequest /\ q.id = i /\ q.status = "approved" /\ q.want = p
    <3>1. i \in Nat
      BY <1>1
    <3> QED
      BY <1>1, <3>1 DEF ReviewRequest, ReviewStep, Status
  <2>3. review' = [review EXCEPT ![c] = q] /\ submissions' = submissions
    BY <1>6, <2>1 DEF Approve
  <2> HIDE DEF q
  <2>4. Proper(q, DOMAIN submissions')
    BY <2>2, <2>3 DEF Proper
  <2> QED
    BY <1>1, <2>3, <2>4, OneReviewMoves
<1>7. CASE Caps(c)
  <2>1. submissions' = submissions /\ (Finish(c) \/ Move(c, "find")) /\ r.step = "points"
    BY <1>7 DEF Caps, Stands
  <2>2. CASE Move(c, "find")
    <3> DEFINE q == [r EXCEPT !.step = "find"]
    <3>1. q \in ReviewRequest /\ q.step = "find" /\ q.id = r.id /\ q.want = r.want
      BY <1>1 DEF ReviewRequest, ReviewStep
    <3>2. review' = [review EXCEPT ![c] = q]
      BY <2>2 DEF Move
    <3> HIDE DEF q
    <3>3. Proper(q, DOMAIN submissions')
      BY <1>1, <2>1, <3>1 DEF Proper
    <3> QED
      BY <1>1, <2>1, <3>2, <3>3, OneReviewMoves
  <2> QED
    BY <1>2, <2>1, <2>2
<1>8. CASE Reject(c)
  <2>1. PICK i \in DOMAIN submissions :
           review' = [review EXCEPT ![c].step = "find", ![c].id = i, ![c].status = "rejected"]
    BY <1>8 DEF Reject
  <2> DEFINE q == [r EXCEPT !.step = "find", !.id = i, !.status = "rejected"]
  <2>2. q \in ReviewRequest /\ q.id = i /\ q.status = "rejected" /\ q.step = "find"
    <3>1. i \in Nat
      BY <1>1
    <3> QED
      BY <1>1, <3>1 DEF ReviewRequest, ReviewStep, Status
  <2>3. review' = [review EXCEPT ![c] = q] /\ submissions' = submissions
    BY <1>8, <2>1 DEF Reject
  <2> HIDE DEF q
  <2>4. Proper(q, DOMAIN submissions')
    BY <2>2, <2>3 DEF Proper
  <2> QED
    BY <1>1, <2>3, <2>4, OneReviewMoves
<1>9. CASE FindById(c)
  <2> DEFINE s == submissions[r.id]
             e == [s EXCEPT !.status = r.status, !.reviewed = day,
                            !.points = IF r.status = "approved" THEN r.want ELSE @]
             q == [r EXCEPT !.step = "select", !.entity = e]
  <2>1. r.step = "find" /\ submissions' = submissions /\ review' = [review EXCEPT ![c] = q]
    BY <1>9 DEF FindById, Stands
  <2>2. r.id \in DOMAIN submissions /\ (r.status = "approved" => r.want \in Points)
        /\ r.status \in Status
    BY <1>1, <2>1 DEF Proper, ReviewRequest
  <2>3. s \in Submission
    BY <1>1, <2>2
  <2> HIDE DEF s
  <2>4. e \in Submission
    BY <1>1, <2>2, <2>3 DEF Submission
  <2> HIDE DEF e
  <2>5. /\ q \in ReviewRequest /\ q.step = "select" /\ q.id = r.id /\ q.want = r.want
        /\ q.status = r.status
    BY <1>1, <2>4 DEF ReviewRequest, ReviewStep
  <2> HIDE DEF q
  <2>6. Proper(q, DOMAIN submissions')
    BY <1>1, <2>1, <2>2, <2>5 DEF Proper
  <2> QED
    BY <1>1, <2>1, <2>6, OneReviewMoves
<1>10. CASE SelectSubmission(c)
  <2> DEFINE ch == {f \in DOMAIN r.entity : r.entity[f] # submissions[r.id][f]}
             q == [r EXCEPT !.step = "update", !.changed = ch]
  <2>1. r.step = "select" /\ submissions' = submissions /\ review' = [review EXCEPT ![c] = q]
    BY <1>10 DEF SelectSubmission, Stands
  <2>2. ch \subseteq SubmissionField
    <3>1. r.entity \in Submission
      BY <1>1 DEF ReviewRequest
    <3> QED
      BY <3>1, SubmissionFields
  <2> HIDE DEF ch
  <2>3. /\ q \in ReviewRequest /\ q.step = "update" /\ q.id = r.id /\ q.want = r.want
        /\ q.status = r.status
    BY <1>1, <2>2 DEF ReviewRequest, ReviewStep
  <2> HIDE DEF q
  <2>4. Proper(q, DOMAIN submissions')
    BY <1>1, <2>1, <2>3 DEF Proper
  <2> QED
    BY <1>1, <2>1, <2>4, OneReviewMoves
<1>11. CASE UpdateSubmission(c)
  <2>1. r.step = "update" /\ StoreEntity(r) /\ (Finish(c) \/ Move(c, "award"))
    BY <1>11 DEF UpdateSubmission, Stands
  <2>2. submissions' \in Seq(Submission) /\ DOMAIN submissions' = DOMAIN submissions
    BY <2>1, StoredTypes
  <2>3. CASE Finish(c)
    BY <2>2, <2>3, IdleIsProper, OneReviewMoves DEF Finish
  <2>4. CASE Move(c, "award")
    <3> DEFINE q == [r EXCEPT !.step = "award"]
    <3>1. q \in ReviewRequest /\ q.step = "award"
      BY <1>1 DEF ReviewRequest, ReviewStep
    <3>2. review' = [review EXCEPT ![c] = q]
      BY <2>4 DEF Move
    <3> HIDE DEF q
    <3>3. Proper(q, DOMAIN submissions')
      BY <3>1 DEF Proper
    <3> QED
      BY <2>2, <3>2, <3>3, OneReviewMoves
  <2> QED
    BY <2>1, <2>3, <2>4
<1>12. CASE SwapAward(c)
  <2> DEFINE q == [r EXCEPT !.step = "swap"]
  <2>1. q \in ReviewRequest /\ q.step = "swap"
    BY <1>1 DEF ReviewRequest, ReviewStep
  <2>2. review' = [review EXCEPT ![c] = q] /\ submissions' = submissions
    BY <1>12 DEF SwapAward, Move
  <2> HIDE DEF q
  <2>3. Proper(q, DOMAIN submissions')
    BY <2>1 DEF Proper
  <2> QED
    BY <1>1, <2>2, <2>3, OneReviewMoves
<1>13. CASE Awarded(c) \/ Break(c)
  BY <1>2, <1>13 DEF Awarded, Break
<1> QED
  BY <1>3, <1>4, <1>5, <1>6, <1>7, <1>8, <1>9, <1>10, <1>11, <1>12, <1>13 DEF Acts

(* The repository calls that the requests begin and end.                   *)
LEMMA ReviewLedgerKept ==
    ASSUME RecordsOK, Ledger, NEW c \in Call,
           Acts(c)
    PROVE  Ledger'
<1>1. UNCHANGED <<day, rows, due>>
  BY DEF Acts, Submit, Limit, Create, Approve, Caps, Reject, FindById, SelectSubmission,
         UpdateSubmission, Awarded, SwapAward, Break, Table
<1>2. review[c].want \in Nat
  BY ContributionAssumption DEF RecordsOK, ReviewRequest
<1>3. \/ UNCHANGED access \/ Leave(c)
      \/ \E saves \in BOOLEAN, gain \in Row : Begin(c, saves, gain)
  <2>1. CASE Approve(c)
    BY <2>1, Gains DEF Approve, GetOrCreate
  <2>2. CASE UpdateSubmission(c)
    <3>1. Add(c, CommunityGain(review[c].want)) \/ Leave(c)
      BY <2>2 DEF UpdateSubmission, Finish
    <3> QED
      BY <1>2, <3>1, Gains DEF Add
  <2>3. CASE SwapAward(c)
    <3>1. PICK n \in SwapPoints : Add(c, SwapGain(n))
      BY <2>3 DEF SwapAward
    <3>2. SwapGain(n) \in Row
      BY ContributionAssumption, Gains
    <3> QED
      BY <3>1, <3>2 DEF Add
  <2>4. CASE Submit(c) \/ Limit(c) \/ Create(c) \/ Caps(c) \/ Reject(c) \/ FindById(c)
             \/ SelectSubmission(c) \/ Awarded(c) \/ Break(c)
    BY <2>4 DEF Submit, Limit, Create, Caps, Reject, FindById, SelectSubmission, Awarded,
                Break, Finish
  <2> QED
    BY <2>1, <2>2, <2>3, <2>4 DEF Acts
<1>4. LedgerTypeOK' /\ SavesWithinDue'
  <2>1. CASE UNCHANGED access
    BY <1>1, <2>1 DEF Ledger, LedgerTypeOK, SavesWithinDue
  <2>2. CASE Leave(c)
    BY <1>1, <2>2, LeaveKeeps DEF Ledger
  <2>3. CASE \E saves \in BOOLEAN, gain \in Row : Begin(c, saves, gain)
    BY <1>1, <2>3, BeginKeeps DEF Ledger
  <2> QED
    BY <1>3, <2>1, <2>2, <2>3
<1>5. NeverMoreThanDue'
  BY <1>1 DEF Ledger, NeverMoreThanDue
<1> QED
  BY <1>4, <1>5 DEF Ledger

LEMMA ReviewTypesInductive == ContributionSpec => []ReviewTypes
<1>1. ContributionInit => ReviewTypes
  <2> SUFFICES ASSUME ContributionInit PROVE Ledger /\ RecordsOK
    BY TwoHalves
  <2>1. Ledger
    BY LedgerInitOK DEF ContributionInit
  <2>2. submissions \in Seq(Submission)
    <3>1. PICK g \in Category : \E n \in 0 .. WEEKLY_CATEGORY_LIMITS[g] :
             \E l \in [1 .. n -> Link] : submissions = [i \in 1 .. n |-> Pending(l[i], g, 0)]
      BY DEF ContributionInit
    <3>2. WEEKLY_CATEGORY_LIMITS[g] \in Nat
      BY ContributionAssumption
    <3>3. PICK n \in Nat : \E l \in [1 .. n -> Link] :
             submissions = [i \in 1 .. n |-> Pending(l[i], g, 0)]
      BY <3>1, <3>2
    <3>4. PICK l \in [1 .. n -> Link] : submissions = [i \in 1 .. n |-> Pending(l[i], g, 0)]
      BY <3>3
    <3>5. \A i \in 1 .. n : submissions[i] \in Submission
      BY <3>4, ReviewRecords
    <3>6. submissions = [i \in 1 .. n |-> submissions[i]]
      BY <3>4
    <3> QED
      BY <3>5, <3>6, SubmissionsMapped
  <2>3. \A c \in Call : review[c] = IdleReview("new")
    BY DEF ContributionInit
  <2>4. IdleReview("new") \in ReviewRequest /\ IdleReview("new").step = "new"
    BY ReviewRecords DEF ReviewStep, IdleReview
  <2>5. review \in [Call -> ReviewRequest]
    BY <2>4 DEF ContributionInit
  <2> QED
    BY <2>1, <2>2, <2>3, <2>4, <2>5 DEF RecordsOK, Proper
<1>2. ReviewTypes /\ [ContributionNext]_contributionVars => ReviewTypes'
  <2> SUFFICES ASSUME Ledger, RecordsOK, [ContributionNext]_contributionVars
               PROVE  Ledger' /\ RecordsOK'
    BY TwoHalves DEF ReviewTypes, ContributionTypeOK, WantsInRange, Deciding, Ledger,
                     RecordsOK, Proper
  <2>1. ASSUME NEW c \in Call,
               Acts(c)
        PROVE  Ledger' /\ RecordsOK'
    BY <2>1, ReviewTypesKept, ReviewLedgerKept DEF Ledger
  <2>2. ASSUME NEW c \in Call, Statement(c) PROVE Ledger' /\ RecordsOK'
    BY <2>2, LedgerStepKeeps DEF Statement, Ledger, RecordsOK
  <2>3. CASE NextDay
    BY <2>3, MidnightKeeps DEF NextDay, Ledger, RecordsOK
  <2>4. CASE UNCHANGED contributionVars
    BY <2>4 DEF contributionVars, ledgerVars, Ledger, LedgerTypeOK, NeverMoreThanDue,
                SavesWithinDue, RecordsOK
  <2> QED
    BY <2>1, <2>2, <2>3, <2>4 DEF ContributionNext, Acts
<1> QED
  BY <1>1, <1>2, PTL DEF ContributionSpec

(* Every reachable state of the contributions is well typed, however many  *)
(* requests there are at once (contributions.controller.ts).               *)
THEOREM ContributionTypes == ContributionSpec => []ContributionTypeOK
  BY ReviewTypesInductive, PTL DEF ReviewTypes

(* However reviews, submissions and swaps race, no row of user_points      *)
(* shows more than was granted (user-points.repository.ts:51).             *)
THEOREM ReviewsNeverMore == ContributionSpec => []NeverMoreThanDue
  BY ReviewTypesInductive, PTL DEF ReviewTypes

-----------------------------------------------------------------------------
(* One request at a time: what a step may rely on.                         *)
LEMMA TurnIsQuiet ==
    ASSUME Crowd = 1, Turn
    PROVE  \A b \in Call : ~Busy(b)
<1> DEFINE B == {b \in Call : Busy(b)}
<1>1. IsFiniteSet(B)
  <2>1. B \subseteq Call
    OBVIOUS
  <2> QED
    BY <2>1, FinitelyMany, FS_Subset
<1>2. Cardinality(B) < 1
  BY DEF Turn, Busy
<1>3. Cardinality(B) \in Nat
  BY <1>1, FS_CardinalityType
<1>4. Cardinality(B) = 0
  BY <1>2, <1>3
<1>5. B = {}
  BY <1>1, <1>4, FS_EmptySet
<1> QED
  BY <1>5

LEMMA ActsKeepTable ==
    ASSUME NEW c \in Call, Acts(c)
    PROVE  UNCHANGED <<day, rows, due>>
  BY DEF Acts, Submit, Limit, Create, Approve, Caps, Reject, FindById, SelectSubmission,
         UpdateSubmission, Awarded, SwapAward, Break, Table

LEMMA ActsAlone ==
    ASSUME Crowd = 1, RecordsOK, LedgerTypeOK, AloneInv, NEW c \in Call, Acts(c)
    PROVE  \A b \in Call : b # c =>
              ~Busy(b) /\ access[b].step = "none"
                /\ review'[b] = review[b] /\ access'[b] = access[b]
<1>1. \A b \in Call : ~Busy(b) => access[b].step = "none"
  BY DEF Busy, AloneInv, Errand
<1>2. \A b \in Call : b # c => ~Busy(b)
  <2>1. CASE Turn
    BY <2>1, TurnIsQuiet
  <2>2. CASE Busy(c)
    BY <2>2 DEF AloneInv, OneAtATime
  <2>3. Turn \/ Busy(c)
    BY DEF Acts, Submit, Limit, Create, Approve, Caps, Reject, FindById, SelectSubmission,
           UpdateSubmission, Awarded, SwapAward, Break, Stands, Busy
  <2> QED
    BY <2>1, <2>2, <2>3
<1>3. \A b \in Call : b # c => review'[b] = review[b]
  BY DEF Acts, Submit, Limit, Create, Approve, Caps, Reject, FindById, SelectSubmission,
         UpdateSubmission, Awarded, SwapAward, Break, Finish, Move, RecordsOK
<1>4. \A b \in Call : b # c => access'[b] = access[b]
  BY DEF Acts, Submit, Limit, Create, Approve, Caps, Reject, FindById, SelectSubmission,
         UpdateSubmission, Awarded, SwapAward, Break, Finish, GetOrCreate, Add, Begin, Leave,
         LedgerTypeOK
<1> QED
  BY <1>1, <1>2, <1>3, <1>4

LEMMA AloneStep ==
    ASSUME Crowd = 1, RecordsOK, LedgerTypeOK, AloneInv, NEW c \in Call, Acts(c),
           access'[c].step \in {"none", "read"} \/ access'[c] = access[c],
           Dated', Errand(c)', Decision(c)'
    PROVE  AloneInv'
<1>1. \A b \in Call : b # c =>
         ~Busy(b) /\ access[b].step = "none"
           /\ review'[b] = review[b] /\ access'[b] = access[b]
  BY ActsAlone
<1>2. UNCHANGED <<day, rows, due>>
  BY ActsKeepTable
<1>3. OneAtATime'
  BY <1>1 DEF OneAtATime, Busy
<1>4. Undisturbed'
  BY <1>1, <1>2 DEF AloneInv, Undisturbed
<1>5. \A b \in Call : Errand(b)' /\ Decision(b)'
  <2> SUFFICES ASSUME NEW b \in Call, b # c PROVE Errand(b)' /\ Decision(b)'
    OBVIOUS
  <2>1. review'[b].step \in {"new", "over"} /\ access'[b].step = "none"
    BY <1>1 DEF Busy
  <2> QED
    BY <2>1 DEF Errand, Decision
<1> QED
  BY <1>3, <1>4, <1>5 DEF AloneInv

(* A request that ends, and one that begins a call.                        *)
LEMMA Finished ==
    ASSUME RecordsOK, LedgerTypeOK, NEW c \in Call, Finish(c)
    PROVE  /\ review'[c].step = "over" /\ access'[c].step = "none"
           /\ Errand(c)' /\ Decision(c)'
<1>1. review'[c] = IdleReview("over") /\ access'[c] = NoAccess
  BY DEF Finish, Leave, RecordsOK, LedgerTypeOK
<1>2. review'[c].step = "over" /\ access'[c].step = "none"
  BY <1>1 DEF IdleReview, NoAccess
<1> QED
  BY <1>2 DEF Errand, Decision

LEMMA Begun ==
    ASSUME LedgerTypeOK, NEW c \in Call, NEW saves \in BOOLEAN, NEW gain, Begin(c, saves, gain)
    PROVE  access'[c].step = "read" /\ access'[c].saves = saves /\ access'[c].gain = gain
<1>1. access'[c] = [NoAccess EXCEPT !.step = "read", !.saves = saves, !.gain = gain]
  BY DEF Begin, LedgerTypeOK
<1> QED
  BY <1>1 DEF NoAccess

LEMMA Left ==
    ASSUME LedgerTypeOK, NEW c \in Call, Leave(c)
    PROVE  access'[c].step = "none"
  BY DEF Leave, LedgerTypeOK, NoAccess

(* With one request at a time the UPDATE stores the entity.                *)
LEMMA StoresVerdict ==
    ASSUME RecordsOK, LedgerTypeOK, AloneInv, NEW c \in Call, review[c].step = "update",
           StoreEntity(review[c])
    PROVE  LET r == review[c]  s == submissions[r.id] IN
           /\ submissions' \in Seq(Submission) /\ DOMAIN submissions' = DOMAIN submissions
           /\ r.id \in DOMAIN submissions
           /\ \A i \in DOMAIN submissions : i # r.id => submissions'[i] = submissions[i]
           /\ submissions'[r.id].link = s.link
           /\ submissions'[r.id].category = s.category
           /\ submissions'[r.id].created = s.created
           /\ submissions'[r.id].status = r.status
           /\ submissions'[r.id].reviewed = r.entity.reviewed
           /\ submissions'[r.id].points = IF r.status = "approved" THEN r.want ELSE 0
           /\ s.status = "pending" /\ r.status # "pending" /\ r.entity.reviewed <= day
<1> DEFINE r == review[c]
           s == submissions[r.id]
<1>1. /\ submissions' \in Seq(Submission) /\ DOMAIN submissions' = DOMAIN submissions
      /\ r.id \in DOMAIN submissions
      /\ submissions'[r.id] = Merged(r, s)
      /\ \A i \in DOMAIN submissions : i # r.id => submissions'[i] = submissions[i]
  BY StoredTypes
<1>2. s \in Submission /\ r.entity \in Submission
  BY <1>1 DEF RecordsOK, ReviewRequest
<1>3. /\ r.entity = Verdict(s, r) /\ r.entity.reviewed <= day
      /\ r.changed = {f \in SubmissionField : r.entity[f] # s[f]}
      /\ s.status = "pending" /\ r.status # "pending"
  BY DEF AloneInv, Decision
<1>4. s.points = 0
  BY <1>1, <1>3 DEF AloneInv, Dated
<1>5. Merged(r, s) = r.entity
  <2>1. /\ DOMAIN s = SubmissionField
        /\ r.entity = [f \in SubmissionField |-> r.entity[f]]
    BY <1>2, SubmissionFields
  <2>2. \A f \in SubmissionField : Merged(r, s)[f] = r.entity[f]
    BY <1>3, <2>1 DEF Merged
  <2>3. Merged(r, s) = [f \in SubmissionField |-> Merged(r, s)[f]]
    BY <2>1 DEF Merged
  <2> QED
    BY <2>1, <2>2, <2>3
<1>6. submissions'[r.id] = Verdict(s, r)
  BY <1>1, <1>3, <1>5
<1> HIDE DEF r, s
<1>7. /\ submissions'[r.id].link = s.link
      /\ submissions'[r.id].category = s.category
      /\ submissions'[r.id].created = s.created
      /\ submissions'[r.id].status = r.status
      /\ submissions'[r.id].reviewed = r.entity.reviewed
      /\ submissions'[r.id].points = IF r.status = "approved" THEN r.want ELSE s.points
  BY <1>2, <1>6 DEF Verdict, Submission
<1> QED
  BY <1>1, <1>3, <1>4, <1>7 DEF r, s

(* The steps of a request keep what was decided.                           *)
LEMMA AloneActs ==
    ASSUME Crowd = 1, RecordsOK, LedgerTypeOK, LedgerTypeOK', AloneInv,
           NEW c \in Call, Acts(c)
    PROVE  AloneInv'
<1> DEFINE r == review[c]
<1>1. /\ r \in ReviewRequest /\ Errand(c) /\ Decision(c)
      /\ submissions \in Seq(Submission) /\ review \in [Call -> ReviewRequest]
      /\ Dated /\ day \in Nat /\ Proper(r, DOMAIN submissions)
  BY LedgerAssumption DEF RecordsOK, LedgerTypeOK, AloneInv
<1>2. UNCHANGED <<day, rows, due>>
  BY ActsKeepTable
<1>3. ASSUME submissions' = submissions PROVE Dated'
  BY <1>1, <1>2, <1>3 DEF Dated
<1>4. ASSUME Finish(c), submissions' = submissions PROVE AloneInv'
  BY <1>3, <1>4, Finished, AloneStep
<1>5. CASE Submit(c)
  <2>1. /\ review'[c].step = "limit" /\ access' = access /\ submissions' = submissions
        /\ r.step = "new"
    BY <1>1, <1>5 DEF Submit, Stands, ReviewRequest
  <2>2. Errand(c)' /\ Decision(c)'
    BY <1>1, <2>1 DEF Errand, Decision
  <2> QED
    BY <1>3, <2>1, <2>2, AloneStep
<1>6. CASE Limit(c)
  <2>1. submissions' = submissions /\ r.step = "limit"
    BY <1>6 DEF Limit, Stands
  <2>2. CASE Move(c, "create") /\ UNCHANGED access
    <3>1. review'[c].step = "create"
      BY <1>1, <2>2 DEF Move, ReviewRequest
    <3>2. Errand(c)' /\ Decision(c)'
      BY <1>1, <2>1, <2>2, <3>1 DEF Errand, Decision
    <3> QED
      BY <1>3, <2>1, <2>2, <3>2, AloneStep
  <2> QED
    BY <1>4, <1>6, <2>1, <2>2 DEF Limit
<1>7. CASE Create(c)
  <2> DEFINE s == Pending(r.link, r.category, day)
  <2>1. s \in Submission /\ s.points = 0 /\ s.created = day /\ s.reviewed = 0
    BY <1>1, ReviewRecords DEF ReviewRequest, Pending
  <2>2. submissions' = Append(submissions, s) /\ Finish(c)
    BY <1>7 DEF Create
  <2> HIDE DEF s
  <2>3. /\ DOMAIN submissions' = DOMAIN submissions \union {Len(submissions) + 1}
        /\ submissions'[Len(submissions) + 1] = s
        /\ \A i \in DOMAIN submissions : submissions'[i] = submissions[i]
    BY <1>1, <2>1, <2>2, AppendedTypes
  <2>4. Dated'
    BY <1>1, <1>2, <2>1, <2>3 DEF Dated
  <2> QED
    BY <2>2, <2>4, Finished, AloneStep
<1>8. CASE Approve(c)
  <2>1. PICK i \in DOMAIN submissions, p \in Asked \intersect Points :
           /\ submissions[i].status = "pending"
           /\ review' = [review EXCEPT ![c].step = "points", ![c].id = i,
                                       ![c].status = "approved", ![c].want = p]
    BY <1>8 DEF Approve
  <2>2. /\ review'[c].step = "points" /\ review'[c].id = i /\ review'[c].status = "approved"
    BY <1>1, <2>1 DEF ReviewRequest
  <2>3. submissions' = submissions /\ Begin(c, FALSE, Blank)
    BY <1>8 DEF Approve, GetOrCreate
  <2>4. access'[c].step = "read" /\ ~access'[c].saves /\ access'[c].gain = Blank
    BY <2>3, Begun
  <2>5. Errand(c)'
    BY <2>2, <2>4 DEF Errand, Returned
  <2>6. Decision(c)'
    BY <2>1, <2>2, <2>3 DEF Decision
  <2> QED
    BY <1>3, <2>3, <2>4, <2>5, <2>6, AloneStep
<1>9. CASE Caps(c)
  <2>1. submissions' = submissions /\ r.step = "points"
    BY <1>9 DEF Caps, Stands
  <2>2. CASE Move(c, "find") /\ Leave(c)
    <3>1. /\ review'[c].step = "find" /\ review'[c].id = r.id /\ review'[c].status = r.status
          /\ access'[c].step = "none"
      BY <1>1, <2>2, Left DEF Move, ReviewRequest
    <3>2. Errand(c)' /\ Decision(c)'
      BY <1>1, <2>1, <3>1 DEF Errand, Decision
    <3> QED
      BY <1>3, <2>1, <3>1, <3>2, AloneStep
  <2> QED
    BY <1>4, <1>9, <2>1, <2>2 DEF Caps
<1>10. CASE Reject(c)
  <2>1. PICK i \in DOMAIN submissions :
           /\ submissions[i].status = "pending"
           /\ review' = [review EXCEPT ![c].step = "find", ![c].id = i, ![c].status = "rejected"]
    BY <1>10 DEF Reject
  <2>2. /\ review'[c].step = "find" /\ review'[c].id = i /\ review'[c].status = "rejected"
        /\ submissions' = submissions /\ access' = access /\ r.step = "new"
    BY <1>1, <1>10, <2>1 DEF ReviewRequest, Reject, Stands
  <2>3. Errand(c)' /\ Decision(c)'
    BY <1>1, <2>1, <2>2 DEF Errand, Decision
  <2> QED
    BY <1>3, <2>2, <2>3, AloneStep
<1>11. CASE FindById(c)
  <2> DEFINE s == submissions[r.id]
             e == [s EXCEPT !.status = r.status, !.reviewed = day,
                            !.points = IF r.status = "approved" THEN r.want ELSE @]
  <2>1. /\ r.step = "find" /\ submissions' = submissions /\ access' = access
        /\ review' = [review EXCEPT ![c].step = "select", ![c].entity = e]
    BY <1>11 DEF FindById, Stands
  <2>2. r.id \in DOMAIN submissions /\ s \in Submission
    BY <1>1, <2>1 DEF Proper
  <2> HIDE DEF s
  <2>3. e.reviewed = day
    BY <2>2 DEF Submission
  <2> HIDE DEF e
  <2>4. /\ review'[c].step = "select" /\ review'[c].id = r.id /\ review'[c].status = r.status
        /\ review'[c].want = r.want /\ review'[c].entity = e
    BY <1>1, <2>1 DEF ReviewRequest
  <2>5. e = Verdict(s, review'[c])
    BY <2>3, <2>4 DEF Verdict, e
  <2>6. Errand(c)'
    BY <1>1, <2>1, <2>4 DEF Errand
  <2>7. Decision(c)'
    BY <1>1, <1>2, <2>1, <2>3, <2>4, <2>5 DEF Decision, s
  <2> QED
    BY <1>3, <2>1, <2>6, <2>7, AloneStep
<1>12. CASE SelectSubmission(c)
  <2> DEFINE ch == {f \in DOMAIN r.entity : r.entity[f] # submissions[r.id][f]}
  <2>1. /\ r.step = "select" /\ submissions' = submissions /\ access' = access
        /\ review' = [review EXCEPT ![c].step = "update", ![c].changed = ch]
    BY <1>12 DEF SelectSubmission, Stands
  <2>2. ch = {f \in SubmissionField : r.entity[f] # submissions[r.id][f]}
    <3>1. DOMAIN r.entity = SubmissionField
      BY <1>1, SubmissionFields DEF ReviewRequest
    <3> QED
      BY <3>1
  <2> HIDE DEF ch
  <2>3. /\ review'[c].step = "update" /\ review'[c].id = r.id /\ review'[c].status = r.status
        /\ review'[c].want = r.want /\ review'[c].entity = r.entity
        /\ review'[c].changed = ch
    BY <1>1, <2>1 DEF ReviewRequest
  <2>4. Verdict(submissions[r.id], review'[c]) = Verdict(submissions[r.id], r)
    BY <2>3 DEF Verdict
  <2>5. Errand(c)'
    BY <1>1, <2>1, <2>3 DEF Errand
  <2>6. Decision(c)'
    BY <1>1, <1>2, <2>1, <2>2, <2>3, <2>4 DEF Decision
  <2> QED
    BY <1>3, <2>1, <2>5, <2>6, AloneStep
<1>13. CASE UpdateSubmission(c)
  <2>1. r.step = "update" /\ StoreEntity(r)
    BY <1>13 DEF UpdateSubmission, Stands
  <2>2. /\ DOMAIN submissions' = DOMAIN submissions
        /\ r.id \in DOMAIN submissions
        /\ \A i \in DOMAIN submissions : i # r.id => submissions'[i] = submissions[i]
        /\ submissions'[r.id].created = submissions[r.id].created
        /\ submissions'[r.id].status # "pending"
        /\ submissions'[r.id].reviewed <= day
    BY <2>1, StoresVerdict
  <2>3. Dated'
    BY <1>1, <1>2, <2>2 DEF Dated
  <2>4. CASE Finish(c)
    BY <2>3, <2>4, Finished, AloneStep
  <2>5. CASE Move(c, "award") /\ Add(c, CommunityGain(r.want))
    <3>1. Begin(c, TRUE, CommunityGain(r.want))
      BY <2>5 DEF Add
    <3>2. access'[c].step = "read" /\ access'[c].saves /\ access'[c].gain = CommunityGain(r.want)
      BY <3>1, Begun
    <3>3. review'[c].step = "award" /\ review'[c].want = r.want
      BY <1>1, <2>5 DEF Move, ReviewRequest
    <3>4. Errand(c)' /\ Decision(c)'
      BY <3>2, <3>3 DEF Errand, Decision
    <3> QED
      BY <2>3, <3>2, <3>4, AloneStep
  <2> QED
    BY <1>13, <2>4, <2>5 DEF UpdateSubmission
<1>14. CASE SwapAward(c)
  <2>1. PICK n \in SwapPoints : Begin(c, TRUE, SwapGain(n))
    BY <1>14 DEF SwapAward, Add
  <2>2. access'[c].step = "read" /\ access'[c].saves /\ access'[c].gain = SwapGain(n)
    BY <2>1, Begun
  <2>3. review'[c].step = "swap" /\ submissions' = submissions
    BY <1>1, <1>14 DEF SwapAward, Move, ReviewRequest
  <2>4. Errand(c)' /\ Decision(c)'
    BY <2>2, <2>3 DEF Errand, Decision
  <2> QED
    BY <1>3, <2>2, <2>3, <2>4, AloneStep
<1>15. CASE Awarded(c) \/ Break(c)
  BY <1>4, <1>15 DEF Awarded, Break
<1> QED
  BY <1>5, <1>6, <1>7, <1>8, <1>9, <1>10, <1>11, <1>12, <1>13, <1>14, <1>15 DEF Acts

(* The statements of the one repository call in progress.                  *)
LEMMA CallAlone ==
    ASSUME RecordsOK, LedgerTypeOK, AloneInv, NEW c \in Call, LedgerStep(c)
    PROVE  /\ review[c].step \in {"points", "award", "swap"} /\ Errand(c)
           /\ access[c].step \in {"read", "create", "reload", "write"}
           /\ \A b \in Call : b # c => ~Busy(b) /\ access[b].step = "none"
<1>1. access[c].step \in {"read", "create", "reload", "write"}
  BY LedgerMoves
<1>2. Errand(c) /\ review[c].step \in {"points", "award", "swap"}
  BY <1>1 DEF AloneInv, Errand
<1>3. \A b \in Call : b # c => ~Busy(b)
  BY <1>2 DEF AloneInv, OneAtATime, Busy
<1>4. \A b \in Call : b # c => access[b].step = "none"
  BY <1>3 DEF AloneInv, Errand, Busy
<1> QED
  BY <1>1, <1>2, <1>3, <1>4

LEMMA AloneStatement ==
    ASSUME RecordsOK, LedgerTypeOK, LedgerTypeOK', AloneInv, NEW c \in Call, Statement(c)
    PROVE  AloneInv'
<1>1. LedgerStep(c) /\ UNCHANGED <<submissions, review>>
  BY DEF Statement
<1>2. /\ review[c].step \in {"points", "award", "swap"} /\ Errand(c)
      /\ access[c].step \in {"read", "create", "reload", "write"}
      /\ \A b \in Call : b # c => ~Busy(b) /\ access[b].step = "none"
  BY <1>1, CallAlone
<1>3. /\ day' = day /\ \A b \in Call : b # c => access'[b] = access[b]
  BY <1>1, LedgerMoves
<1>4. Undisturbed /\ \A b \in Call : b # c => access[b].step = "none"
  BY <1>2 DEF AloneInv
<1>5. Undisturbed'
  BY <1>1, <1>4, LedgerMovesAlone
<1>6. OneAtATime' /\ Dated'
  BY <1>1, <1>3 DEF AloneInv, OneAtATime, Busy, Dated
<1>7. \A b \in Call : Decision(b)'
  BY <1>1, <1>3 DEF AloneInv, Decision
<1>8. \A b \in Call : b # c => Errand(b)'
  BY <1>1, <1>2, <1>3 DEF Errand, Busy
<1>9. Errand(c)'
  <2>1. CASE access[c].step # "write"
    <3>1. /\ access'[c].saves = access[c].saves
          /\ access'[c].gain = access[c].gain
          /\ access[c].saves => access'[c].step \in {"create", "reload", "write"}
          /\ ~access[c].saves /\ access[c].step # "reload" =>
                access'[c].step \in {"create", "done"}
      BY <1>1, <2>1, LedgerMoves
    <3>2. access'[c].step = "done" =>
             rows' # <<>> /\ access'[c].record = Plus(rows'[1], access[c].gain)
      BY <1>1, <1>4, <2>1, LedgerMovesAlone
    <3>3. rows' # <<>> => Plus(rows'[1], Blank) = rows'[1]
      <4>1. rows' \in Seq(Row) /\ Len(rows') <= 1
        BY <1>5 DEF Undisturbed, LedgerTypeOK, Row
      <4>2. rows' # <<>> => rows'[1] \in Row
        BY <4>1, OneRow
      <4> QED
        BY <4>2, PlusBlank
    <3>4. CASE review[c].step = "points"
      <4>1. /\ ~access'[c].saves /\ access'[c].gain = Blank
            /\ access'[c].step \in {"create", "done"}
        BY <1>2, <2>1, <3>1, <3>4 DEF Errand
      <4>2. access'[c].step = "done" => rows' # <<>> /\ access'[c].record = rows'[1]
        BY <1>2, <3>2, <3>3, <3>4 DEF Errand
      <4> QED
        BY <1>1, <3>4, <4>1, <4>2 DEF Errand, Returned
    <3>5. CASE review[c].step \in {"award", "swap"}
      <4>1. ~Returned(c)
        BY <1>2 DEF Returned
      <4> QED
        BY <1>1, <1>2, <3>1, <3>5, <4>1 DEF Errand
    <3> QED
      BY <1>2, <3>4, <3>5
  <2>2. CASE access[c].step = "write"
    <3>1. access'[c].step = "done"
      BY <1>1, <2>2, LedgerMoves
    <3>2. review[c].step \in {"award", "swap"}
      BY <1>2, <2>2 DEF Errand
    <3> QED
      BY <1>1, <3>1, <3>2 DEF Errand, Returned
  <2> QED
    BY <2>1, <2>2
<1>10. \A b \in Call : Errand(b)'
  BY <1>8, <1>9
<1> QED
  BY <1>5, <1>6, <1>7, <1>10 DEF AloneInv

LEMMA AloneInductive == Crowd = 1 => (ContributionSpec => [](ReviewTypes /\ AloneInv))
<1> SUFFICES ASSUME Crowd = 1 PROVE ContributionSpec => [](ReviewTypes /\ AloneInv)
  OBVIOUS
<1>1. ContributionInit /\ ReviewTypes => AloneInv
  <2> SUFFICES ASSUME ContributionInit, ReviewTypes PROVE AloneInv
    OBVIOUS
  <2>1. \A c \in Call : review[c].step = "new" /\ access[c].step = "none"
    BY DEF ContributionInit, LedgerInit, IdleReview, NoAccess
  <2>2. rows \in {<<>>, <<Blank>>} /\ day = 1
    BY DEF ContributionInit, LedgerInit
  <2>3. Undisturbed
    <3>1. Len(<<>>) <= 1 /\ Len(<<Blank>>) <= 1
      OBVIOUS
    <3> QED
      BY <2>1, <2>2, <3>1 DEF Undisturbed
  <2>4. \A i \in DOMAIN submissions :
           submissions[i].points = 0 /\ submissions[i].created = 0 /\ submissions[i].reviewed = 0
    <3>1. PICK g \in Category : \E n \in 0 .. WEEKLY_CATEGORY_LIMITS[g] :
             \E l \in [1 .. n -> Link] : submissions = [i \in 1 .. n |-> Pending(l[i], g, 0)]
      BY DEF ContributionInit
    <3> QED
      BY <3>1 DEF Pending
  <2>5. Dated
    BY <2>2, <2>4 DEF Dated
  <2> QED
    BY <2>1, <2>3, <2>5 DEF AloneInv, OneAtATime, Busy, Errand, Decision
<1>2. ReviewTypes /\ ReviewTypes' /\ AloneInv /\ [ContributionNext]_contributionVars
        => AloneInv'
  <2> SUFFICES ASSUME ReviewTypes, ReviewTypes', AloneInv,
                      [ContributionNext]_contributionVars
               PROVE  AloneInv'
    OBVIOUS
  <2>1. LedgerTypeOK /\ RecordsOK /\ LedgerTypeOK'
    BY TwoHalves DEF ReviewTypes, ContributionTypeOK
  <2>2. ASSUME NEW c \in Call, Acts(c) PROVE AloneInv'
    BY <2>1, <2>2, AloneActs
  <2>3. ASSUME NEW c \in Call, Statement(c) PROVE AloneInv'
    BY <2>1, <2>3, AloneStatement
  <2>4. CASE NextDay
    <3>1. UNCHANGED <<rows, access, submissions, review>> /\ day' = day + 1 /\ day \in Nat
      BY <2>1, <2>4, LedgerAssumption DEF NextDay, Midnight, LedgerTypeOK
    <3>2. OneAtATime' /\ Undisturbed' /\ \A c \in Call : Errand(c)'
      BY <3>1 DEF AloneInv, OneAtATime, Busy, Undisturbed, Errand, Returned
    <3>3. Dated'
      <4> SUFFICES ASSUME NEW i \in DOMAIN submissions
                   PROVE  /\ submissions[i].status = "pending" => submissions[i].points = 0
                          /\ submissions[i].created <= day + 1
                          /\ submissions[i].reviewed <= day + 1
        BY <3>1 DEF Dated
      <4>1. submissions[i].created \in Nat /\ submissions[i].reviewed \in Nat
        <5>1. submissions[i] \in Submission
          BY <2>1 DEF RecordsOK
        <5> QED
          BY <5>1 DEF Submission
      <4> QED
        BY <3>1, <4>1 DEF AloneInv, Dated
    <3>4. \A c \in Call : Decision(c)'
      <4> SUFFICES ASSUME NEW c \in Call PROVE Decision(c)'
        OBVIOUS
      <4>1. review[c].entity.reviewed \in Nat
        BY <2>1 DEF RecordsOK, ReviewRequest, Submission
      <4>2. Decision(c)
        BY DEF AloneInv
      <4>3. review[c].entity.reviewed <= day => review[c].entity.reviewed <= day + 1
        BY <3>1, <4>1
      <4> QED
        BY <3>1, <4>2, <4>3 DEF Decision
    <3> QED
      BY <3>2, <3>3, <3>4 DEF AloneInv
  <2>5. CASE UNCHANGED contributionVars
    BY <2>5 DEF contributionVars, ledgerVars, AloneInv, OneAtATime, Busy, Undisturbed, Dated,
                Errand, Returned, Decision
  <2> QED
    BY <2>2, <2>3, <2>4, <2>5 DEF ContributionNext, Acts
<1> QED
  BY <1>1, <1>2, ReviewTypesInductive, PTL DEF ContributionSpec

-----------------------------------------------------------------------------
(* What a step makes of an approval that is being decided, and of the      *)
(* submissions.                                                            *)
LEMMA Decides ==
    ASSUME RecordsOK, LedgerTypeOK, NEW c \in Call, Acts(c)
    PROVE  LET r == review[c]  s == review'[c] IN
           /\ Deciding(c)' =>
                 /\ s.want = r.want /\ submissions' = submissions
                 /\ \/ /\ r.step = "points" /\ Returned(c) /\ s.step = "find"
                       /\ ~(r.want > COMMUNITY_POINTS_WEEKLY_CAP - getApprovedPointsThisWeek)
                       /\ ~ExceedsShare(access[c].record, r.want)
                    \/ /\ Deciding(c) /\ s.step # "find"
                       /\ r.step = "find" => s.entity.reviewed = day
                       /\ r.step # "find" => s.entity = r.entity
           /\ s.step = "award" =>
                 /\ r.step = "update" /\ r.status = "approved" /\ s.want = r.want
                 /\ StoreEntity(r)
           /\ r.step = "update" => StoreEntity(r) \/ submissions' = submissions
           /\ r.step \notin {"create", "update"} => submissions' = submissions
           /\ r.step = "create" =>
                 \/ submissions' = submissions
                 \/ submissions' = Append(submissions, Pending(r.link, r.category, day))
<1> DEFINE r == review[c]
           s == review'[c]
           Over == s.step = "over"
           Kept == submissions' = submissions
<1>1. review \in [Call -> ReviewRequest] /\ r \in ReviewRequest
  BY DEF RecordsOK
<1>2. ASSUME Finish(c) PROVE Over
  BY <1>2, Finished
<1> USE DEF Deciding
<1>3. CASE Submit(c)
  <2>1. Kept /\ s.step = "limit" /\ r.step = "new"
    BY <1>1, <1>3 DEF Submit, Stands, ReviewRequest
  <2> QED
    BY <2>1
<1>4. CASE Limit(c)
  <2>1. Kept /\ r.step = "limit" /\ (Over \/ s.step = "create")
    BY <1>1, <1>2, <1>4 DEF Limit, Stands, Move, ReviewRequest
  <2> QED
    BY <2>1
<1>5. CASE Create(c)
  <2>1. /\ submissions' = Append(submissions, Pending(r.link, r.category, day))
        /\ r.step = "create" /\ Over
    BY <1>2, <1>5 DEF Create, Stands
  <2> QED
    BY <2>1
<1>6. CASE Approve(c)
  <2>1. Kept /\ s.step = "points" /\ r.step = "new"
    BY <1>1, <1>6 DEF Approve, Stands, ReviewRequest
  <2> QED
    BY <2>1
<1>7. CASE Caps(c)
  <2>1. Kept /\ r.step = "points" /\ Returned(c)
    BY <1>7 DEF Caps, Stands
  <2>2. \/ Over
        \/ /\ s.step = "find" /\ s.want = r.want
           /\ ~(r.want > COMMUNITY_POINTS_WEEKLY_CAP - getApprovedPointsThisWeek)
           /\ ~ExceedsShare(access[c].record, r.want)
    BY <1>1, <1>2, <1>7 DEF Caps, Move, ReviewRequest
  <2> QED
    BY <2>1, <2>2
<1>8. CASE Reject(c)
  <2>1. Kept /\ s.step = "find" /\ s.status = "rejected" /\ r.step = "new"
    BY <1>1, <1>8 DEF Reject, Stands, ReviewRequest
  <2> QED
    BY <2>1
<1>9. CASE FindById(c)
  <2> DEFINE e == [submissions[r.id] EXCEPT
                      !.status = r.status, !.reviewed = day,
                      !.points = IF r.status = "approved" THEN r.want ELSE @]
  <2>1. Kept /\ r.step = "find" /\ review' = [review EXCEPT ![c].step = "select", ![c].entity = e]
    BY <1>9 DEF FindById, Stands
  <2>2. submissions[r.id] \in Submission
    BY <1>1, <2>1 DEF RecordsOK, Proper
  <2>3. e.reviewed = day
    BY <2>2 DEF Submission
  <2> HIDE DEF e
  <2>4. s.step = "select" /\ s.want = r.want /\ s.status = r.status /\ s.entity = e
    BY <1>1, <2>1 DEF ReviewRequest
  <2> QED
    BY <2>1, <2>3, <2>4
<1>10. CASE SelectSubmission(c)
  <2> DEFINE ch == {f \in DOMAIN r.entity : r.entity[f] # submissions[r.id][f]}
  <2>1. Kept /\ r.step = "select" /\ review' = [review EXCEPT ![c].step = "update", ![c].changed = ch]
    BY <1>10 DEF SelectSubmission, Stands
  <2> HIDE DEF ch
  <2>2. s.step = "update" /\ s.want = r.want /\ s.status = r.status /\ s.entity = r.entity
    BY <1>1, <2>1 DEF ReviewRequest
  <2> QED
    BY <2>1, <2>2
<1>11. CASE UpdateSubmission(c)
  <2>1. /\ r.step = "update" /\ StoreEntity(r)
        /\ Over \/ (r.status = "approved" /\ s.step = "award" /\ s.want = r.want)
    BY <1>1, <1>2, <1>11 DEF UpdateSubmission, Stands, Move, ReviewRequest
  <2> QED
    BY <2>1
<1>12. CASE SwapAward(c)
  <2>1. Kept /\ s.step = "swap" /\ r.step = "new"
    BY <1>1, <1>12 DEF SwapAward, Stands, Move, ReviewRequest
  <2> QED
    BY <2>1
<1>13. CASE Awarded(c) \/ Break(c)
  <2>1. Kept /\ Over
    BY <1>2, <1>13 DEF Awarded, Break
  <2> QED
    BY <2>1
<1> QED
  BY <1>3, <1>4, <1>5, <1>6, <1>7, <1>8, <1>9, <1>10, <1>11, <1>12, <1>13 DEF Acts

-----------------------------------------------------------------------------
(* The share of the community points.                                      *)
LEMMA ShareActs ==
    ASSUME Crowd = 1, RecordsOK, LedgerTypeOK, AloneInv, ShareInv, NEW c \in Call, Acts(c)
    PROVE  ShareInv'
<1>1. UNCHANGED rows
  BY ActsKeepTable
<1>2. ASSUME NEW b \in Call, b # c, Deciding(b)' \/ Unawarded(b)'
      PROVE  rows' # <<>> /\ ~ExceedsShare(rows[1], review[b].want)'
  <2>1. review'[b] = review[b] /\ access'[b] = access[b]
    BY <1>2, ActsAlone
  <2> QED
    BY <1>1, <1>2, <2>1 DEF ShareInv, Deciding, Unawarded, Returned, ExceedsShare
<1>3. ASSUME Deciding(c)' \/ Unawarded(c)'
      PROVE  rows' # <<>> /\ ~ExceedsShare(rows[1], review[c].want)'
  <2>1. /\ review'[c].want = review[c].want
        /\ \/ /\ review[c].step = "points" /\ Returned(c)
              /\ ~ExceedsShare(access[c].record, review[c].want)
           \/ Deciding(c)
    BY <1>3, Decides DEF Unawarded, Deciding
  <2>2. rows # <<>> /\ ~ExceedsShare(rows[1], review[c].want)
    <3>1. CASE Deciding(c)
      BY <3>1 DEF ShareInv
    <3>2. CASE review[c].step = "points" /\ Returned(c)
                 /\ ~ExceedsShare(access[c].record, review[c].want)
      BY <3>2 DEF AloneInv, Errand
    <3> QED
      BY <2>1, <3>1, <3>2
  <2> QED
    BY <1>1, <2>1, <2>2 DEF ExceedsShare
<1> QED
  BY <1>2, <1>3 DEF ShareInv

LEMMA ShareStatement ==
    ASSUME RecordsOK, LedgerTypeOK, AloneInv, ShareInv, NEW c \in Call, Statement(c)
    PROVE  ShareInv'
<1>1. LedgerStep(c) /\ UNCHANGED <<submissions, review>>
  BY DEF Statement
<1>2. /\ review[c].step \in {"points", "award", "swap"}
      /\ access[c].step \in {"read", "create", "reload", "write"}
      /\ \A b \in Call : b # c => ~Busy(b) /\ access[b].step = "none"
  BY <1>1, CallAlone
<1>3. \A b \in Call : Deciding(b)' \/ Unawarded(b)' => b = c /\ Unawarded(c) /\ ~Returned(c)'
  BY <1>1, <1>2 DEF Deciding, Unawarded, Busy, Returned
<1>4. access[c].step = "write" => Returned(c)'
  BY <1>1, LedgerMoves DEF Returned
<1>5. access[c].step # "write" => rows' = rows \/ rows = <<>>
  BY <1>1, <1>2, LedgerMovesAlone DEF AloneInv
<1> QED
  BY <1>1, <1>3, <1>4, <1>5 DEF ShareInv, ExceedsShare

(* The row after a save shows what it showed before, and the grant.        *)
LEMMA AwardFits ==
    ASSUME NEW a \in Row, NEW want \in Nat, ~ExceedsShare(a, want),
           NEW b, b = Plus(a, CommunityGain(want)),
           b.totalPoints >= MIN_POINTS_FOR_CAP_ENFORCEMENT
    PROVE  b.communityPoints * 100 <= COMMUNITY_POINTS_MAX_PERCENTAGE * b.totalPoints
<1>1. "communityPoints" \in Column /\ "totalPoints" \in Column
  BY DEF Column, Lifetime, Part
<1>2. b["communityPoints"] = a["communityPoints"] + want
      /\ b["totalPoints"] = a["totalPoints"] + want
  BY <1>1 DEF Plus, CommunityGain, Gain
<1>3. a["communityPoints"] \in Nat /\ a["totalPoints"] \in Nat
  BY <1>1 DEF Row
<1>4. b["communityPoints"] \in Int /\ b["totalPoints"] \in Int
  BY <1>2, <1>3
<1>5. ~(b["communityPoints"] * 100 > COMMUNITY_POINTS_MAX_PERCENTAGE * b["totalPoints"])
  BY <1>2 DEF ExceedsShare
<1>6. COMMUNITY_POINTS_MAX_PERCENTAGE * b["totalPoints"] \in Int
  <2>1. COMMUNITY_POINTS_MAX_PERCENTAGE \in Int
    BY ContributionAssumption
  <2> QED
    BY <1>4, <2>1
<1>7. b["communityPoints"] * 100 \in Int
  BY <1>4
<1> QED
  BY <1>5, <1>6, <1>7

LEMMA OnlyAwardsAdd ==
    ASSUME RecordsOK, LedgerTypeOK, AloneInv, ShareInv, NEW c \in Call, Statement(c),
           NEW i \in DOMAIN rows,
           rows'[i].communityPoints > rows[i].communityPoints,
           rows'[i].totalPoints >= MIN_POINTS_FOR_CAP_ENFORCEMENT
    PROVE  rows'[i].communityPoints * 100
              <= COMMUNITY_POINTS_MAX_PERCENTAGE * rows'[i].totalPoints
<1>1. LedgerStep(c)
  BY DEF Statement
<1>2. /\ review[c].step \in {"points", "award", "swap"} /\ Errand(c)
      /\ access[c].step \in {"read", "create", "reload", "write"}
      /\ \A b \in Call : b # c => access[b].step = "none"
  BY <1>1, CallAlone
<1>3. rows # <<>> /\ rows \in Seq(Row) /\ Len(rows) <= 1
  <2>1. rows # <<>>
    OBVIOUS
  <2> QED
    BY <2>1 DEF AloneInv, Undisturbed, LedgerTypeOK, Row
<1>4. i = 1 /\ rows[1] \in Row
  BY <1>3, OneRow
<1>5. rows[1]["communityPoints"] \in Nat
  <2>1. "communityPoints" \in Column
    BY DEF Column, Lifetime, Part
  <2> QED
    BY <1>4, <2>1 DEF Row
<1>6. rows' # rows
  BY <1>4, <1>5
<1>7. access[c].step = "write" /\ rows'[1] = Plus(rows[1], access[c].gain)
  BY <1>1, <1>2, <1>3, <1>6, LedgerMovesAlone DEF AloneInv
<1>8. ~Returned(c) /\ review[c].step \in {"award", "swap"}
  BY <1>2, <1>7 DEF Errand, Returned
<1>9. CASE review[c].step = "award"
  <2>1. access[c].gain = CommunityGain(review[c].want)
    BY <1>2, <1>8, <1>9 DEF Errand
  <2>2. ~ExceedsShare(rows[1], review[c].want)
    BY <1>8, <1>9 DEF ShareInv, Unawarded
  <2>3. review[c].want \in Nat
    BY ContributionAssumption DEF RecordsOK, ReviewRequest
  <2> QED
    BY <1>4, <1>7, <2>1, <2>2, <2>3, AwardFits
<1>10. CASE review[c].step = "swap"
  <2>1. PICK n \in SwapPoints : access[c].gain = SwapGain(n)
    BY <1>2, <1>8, <1>10 DEF Errand
  <2>2. Plus(rows[1], SwapGain(n))["communityPoints"] = rows[1]["communityPoints"] + 0
    BY DEF Plus, SwapGain, Gain, Column, Lifetime, Part
  <2> QED
    BY <1>4, <1>5, <1>7, <2>1, <2>2
<1> QED
  BY <1>8, <1>9, <1>10

LEMMA ShareInductive ==
    Crowd = 1 => (ContributionSpec => [](ReviewTypes /\ AloneInv /\ ShareInv))
<1> SUFFICES ASSUME Crowd = 1
             PROVE  ContributionSpec => [](ReviewTypes /\ AloneInv /\ ShareInv)
  OBVIOUS
<1>1. ContributionInit => ShareInv
  BY DEF ContributionInit, IdleReview, ShareInv, Deciding, Unawarded
<1>2. ReviewTypes /\ AloneInv /\ ShareInv /\ [ContributionNext]_contributionVars => ShareInv'
  <2> SUFFICES ASSUME ReviewTypes, AloneInv, ShareInv, [ContributionNext]_contributionVars
               PROVE  ShareInv'
    OBVIOUS
  <2>1. LedgerTypeOK /\ RecordsOK
    BY TwoHalves DEF ReviewTypes, ContributionTypeOK
  <2>2. ASSUME NEW c \in Call, Acts(c) PROVE ShareInv'
    BY <2>1, <2>2, ShareActs
  <2>3. ASSUME NEW c \in Call, Statement(c) PROVE ShareInv'
    BY <2>1, <2>3, ShareStatement
  <2>4. CASE NextDay \/ UNCHANGED contributionVars
    <3>1. UNCHANGED <<rows, access, review>>
      BY <2>4 DEF NextDay, Midnight, contributionVars, ledgerVars
    <3> QED
      BY <3>1 DEF ShareInv, Deciding, Unawarded, Returned, ExceedsShare
  <2> QED
    BY <2>2, <2>3, <2>4 DEF ContributionNext, Acts
<1>3. Crowd = 1 => (ContributionSpec => [](ReviewTypes /\ AloneInv))
  BY AloneInductive
<1> QED
  BY <1>1, <1>2, <1>3, PTL DEF ContributionSpec

(* contribution-submission.entity.ts:49, one request at a time: no award   *)
(* brings a wallet above the share it may have from contributions, over    *)
(* the statements and the midnights between the check and the UPDATE.      *)
THEOREM ShareKeptAlone == Crowd = 1 => (ContributionSpec => ShareCapKept)
<1> DEFINE Fits == \A i \in DOMAIN rows :
              rows'[i].communityPoints > rows[i].communityPoints
                /\ rows'[i].totalPoints >= MIN_POINTS_FOR_CAP_ENFORCEMENT
              => rows'[i].communityPoints * 100
                    <= COMMUNITY_POINTS_MAX_PERCENTAGE * rows'[i].totalPoints
<1>1. ReviewTypes /\ AloneInv /\ ShareInv /\ [ContributionNext]_contributionVars
        => [Fits]_contributionVars
  <2> SUFFICES ASSUME ReviewTypes, AloneInv, ShareInv, ContributionNext PROVE Fits
    OBVIOUS
  <2>1. LedgerTypeOK /\ RecordsOK
    BY TwoHalves DEF ReviewTypes, ContributionTypeOK
  <2>2. ASSUME NEW c \in Call, Statement(c) PROVE Fits
    BY <2>1, <2>2, OnlyAwardsAdd
  <2>3. ASSUME rows' = rows PROVE Fits
    <3> SUFFICES ASSUME NEW i \in DOMAIN rows PROVE ~(rows[i].communityPoints > rows[i].communityPoints)
      BY <2>3
    <3>1. rows[i]["communityPoints"] \in Nat
      BY <2>1 DEF LedgerTypeOK, Column, Lifetime, Part
    <3> QED
      BY <3>1
  <2>4. ASSUME NEW c \in Call, Acts(c) PROVE Fits
    BY <2>3, <2>4, ActsKeepTable
  <2>5. CASE NextDay
    BY <2>3, <2>5 DEF NextDay, Midnight
  <2> QED
    BY <2>2, <2>4, <2>5 DEF ContributionNext, Acts
<1>2. Crowd = 1 => (ContributionSpec => [](ReviewTypes /\ AloneInv /\ ShareInv))
  BY ShareInductive
<1> QED
  BY <1>1, <1>2, PTL DEF ContributionSpec, ShareCapKept

-----------------------------------------------------------------------------
(* Weeks.                                                                  *)
LEMMA Weeks ==
    /\ \A d \in Nat : Week(d) \in Nat
    /\ \A d, e \in Nat : d <= e => Week(d) <= Week(e)
<1> DEFINE q(d) == d \div WEEK
           m(d) == d % WEEK
<1>1. WEEK \in Nat /\ WEEK > 0
  BY LedgerAssumption
<1>2. \A d \in Nat : /\ q(d) \in Int /\ m(d) \in 0 .. (WEEK - 1)
                     /\ d = WEEK * q(d) + m(d)
  BY <1>1
<1> HIDE DEF q, m
<1>3. ASSUME NEW d \in Nat PROVE q(d) \in Nat
  <2>1. q(d) \in Int /\ m(d) \in 0 .. (WEEK - 1) /\ d = WEEK * q(d) + m(d)
    BY <1>2
  <2>2. CASE q(d) < 0
    <3>1. WEEK * q(d) <= WEEK * (-1)
      BY <1>1, <2>1, <2>2
    <3> QED
      BY <1>1, <2>1, <3>1
  <2> QED
    BY <2>1, <2>2
<1>4. ASSUME NEW d \in Nat, NEW e \in Nat, d <= e PROVE q(d) <= q(e)
  <2>1. q(d) \in Int /\ m(d) \in 0 .. (WEEK - 1) /\ d = WEEK * q(d) + m(d)
    BY <1>2
  <2>2. q(e) \in Int /\ m(e) \in 0 .. (WEEK - 1) /\ e = WEEK * q(e) + m(e)
    BY <1>2
  <2>3. CASE q(d) >= q(e) + 1
    <3>1. WEEK * q(d) >= WEEK * (q(e) + 1)
      BY <1>1, <2>1, <2>2, <2>3
    <3>2. WEEK * (q(e) + 1) = WEEK * q(e) + WEEK
      BY <1>1, <2>2
    <3> QED
      BY <1>1, <1>4, <2>1, <2>2, <3>1, <3>2
  <2> QED
    BY <2>1, <2>2, <2>3
<1> QED
  BY <1>3, <1>4 DEF Week, q

-----------------------------------------------------------------------------
(* Sums of points.                                                         *)
LEMMA PointsFinite ==
    ASSUME NEW R \in Seq(Submission), NEW S \in SUBSET DOMAIN R
    PROVE  /\ IsFiniteSet(S)
           /\ \A i \in S : R[i].points \in Nat /\ [j \in DOMAIN R |-> R[j].points][i] = R[i].points
<1>1. Len(R) \in Nat /\ DOMAIN R = 1 .. Len(R)
  OBVIOUS
<1>2. IsFiniteSet(1 .. Len(R))
  BY <1>1, FS_Interval
<1>3. IsFiniteSet(S)
  BY <1>1, <1>2, FS_Subset
<1>4. ASSUME NEW i \in S PROVE R[i].points \in Nat
  <2>1. R[i] \in Submission
    OBVIOUS
  <2>2. R[i]["points"] \in Nat
    BY <2>1, SubmissionFields
  <2> QED
    BY <2>2
<1> QED
  BY <1>3, <1>4

LEMMA PointsSums ==
    ASSUME NEW R \in Seq(Submission), NEW S \in SUBSET DOMAIN R
    PROVE  /\ PointsIn(R, S) \in Nat
           /\ \A T \in SUBSET S : PointsIn(R, T) \in Nat /\ PointsIn(R, T) <= PointsIn(R, S)
<1> DEFINE f == [j \in DOMAIN R |-> R[j].points]
<1>1. IsFiniteSet(S) /\ \A i \in S : f[i] \in Nat
  BY PointsFinite
<1> HIDE DEF f
<1>2. ASSUME NEW T \in SUBSET S
      PROVE  SumFunctionOnSet(f, T) \in Nat /\ SumFunctionOnSet(f, T) <= SumFunctionOnSet(f, S)
  <2>1. IsFiniteSet(T) /\ \A i \in T : f[i] \in Nat
    BY <1>1, FS_Subset
  <2>2. SumFunctionOnSet(f, T) \in Nat
    BY <2>1, SumNat
  <2>3. SumFunctionOnSet(f, T) <= SumFunctionOnSet(f, S)
    BY <1>1, SumSubset
  <2> QED
    BY <2>2, <2>3
<1>3. SumFunctionOnSet(f, S) \in Nat
  BY <1>1, SumNat
<1> QED
  BY <1>2, <1>3 DEF PointsIn, f

LEMMA PointsAgree ==
    ASSUME NEW R \in Seq(Submission), NEW Q \in Seq(Submission),
           NEW S \in SUBSET DOMAIN R, S \subseteq DOMAIN Q,
           \A i \in S : Q[i].points = R[i].points
    PROVE  PointsIn(Q, S) = PointsIn(R, S)
<1> DEFINE f == [j \in DOMAIN R |-> R[j].points]
           g == [j \in DOMAIN Q |-> Q[j].points]
<1>1. IsFiniteSet(S) /\ \A i \in S : g[i] = f[i]
  BY PointsFinite
<1> HIDE DEF f, g
<1>2. SumFunctionOnSet(g, S) = SumFunctionOnSet(f, S)
  BY <1>1, SumAgree
<1> QED
  BY <1>2 DEF PointsIn, f, g

LEMMA PointsAdded ==
    ASSUME NEW R \in Seq(Submission), NEW S \in SUBSET DOMAIN R,
           NEW i \in DOMAIN R, i \notin S
    PROVE  PointsIn(R, S \union {i}) = PointsIn(R, S) + R[i].points
<1> DEFINE f == [j \in DOMAIN R |-> R[j].points]
           U == S \union {i}
<1>1. U \subseteq DOMAIN R /\ i \in U /\ U \ {i} = S
  OBVIOUS
<1>2. IsFiniteSet(U) /\ \A j \in U : f[j] \in Nat
  BY <1>1, PointsFinite
<1>3. IsFiniteSet(S) /\ \A j \in S : f[j] \in Nat
  BY PointsFinite
<1>4. f[i] = R[i].points /\ f[i] \in Nat
  BY <1>1, <1>2
<1> HIDE DEF f, U
<1>5. SumFunctionOnSet(f, U) = f[i] + SumFunctionOnSet(f, U \ {i})
  <2>1. \A j \in U : f[j] \in Int
    BY <1>2
  <2> QED
    BY <1>1, <1>2, <2>1, SumRemove
<1>6. SumFunctionOnSet(f, S) \in Nat
  BY <1>3, SumNat
<1>7. SumFunctionOnSet(f, U) = SumFunctionOnSet(f, S) + R[i].points
  <2>1. SumFunctionOnSet(f, U) = f[i] + SumFunctionOnSet(f, S)
    BY <1>1, <1>5
  <2> QED
    BY <1>4, <1>6, <2>1
<1> QED
  BY <1>7 DEF PointsIn, f, U

(* A step that approves nothing changes none of the sums.                  *)
LEMMA NothingApproved ==
    ASSUME NEW R \in Seq(Submission), NEW Q \in Seq(Submission),
           DOMAIN R \subseteq DOMAIN Q,
           \A i \in DOMAIN R : R[i].status = "approved" => Q[i] = R[i],
           \A i \in DOMAIN Q : Q[i].status = "approved" =>
              i \in DOMAIN R /\ R[i].status = "approved"
    PROVE  /\ PointsIn(Q, ApprovedIn(Q)) = PointsIn(R, ApprovedIn(R))
           /\ \A w : PointsIn(Q, ApprovedOf(Q, w)) = PointsIn(R, ApprovedOf(R, w))
<1>1. ApprovedIn(Q) = ApprovedIn(R) /\ ApprovedIn(R) \subseteq DOMAIN R
  BY DEF ApprovedIn
<1>2. \A i \in ApprovedIn(R) : Q[i] = R[i]
  BY DEF ApprovedIn
<1>3. PointsIn(Q, ApprovedIn(R)) = PointsIn(R, ApprovedIn(R))
  BY <1>1, <1>2, PointsAgree
<1>4. ASSUME NEW w PROVE PointsIn(Q, ApprovedOf(Q, w)) = PointsIn(R, ApprovedOf(R, w))
  <2>1. ApprovedOf(Q, w) = ApprovedOf(R, w) /\ ApprovedOf(R, w) \subseteq ApprovedIn(R)
    BY <1>1, <1>2 DEF ApprovedOf
  <2>2. PointsIn(Q, ApprovedOf(R, w)) = PointsIn(R, ApprovedOf(R, w))
    BY <1>1, <1>2, <2>1, PointsAgree
  <2> QED
    BY <2>1, <2>2
<1> QED
  BY <1>1, <1>3, <1>4

(* A step that approves one adds its points to the sum of its week.        *)
LEMMA OneApproved ==
    ASSUME NEW R \in Seq(Submission), NEW Q \in Seq(Submission), DOMAIN Q = DOMAIN R,
           NEW n \in DOMAIN R, R[n].status # "approved", Q[n].status = "approved",
           \A i \in DOMAIN R : i # n => Q[i] = R[i]
    PROVE  /\ PointsIn(Q, ApprovedIn(Q)) = PointsIn(R, ApprovedIn(R)) + Q[n].points
           /\ PointsIn(Q, ApprovedOf(Q, Week(Q[n].reviewed)))
                 = PointsIn(R, ApprovedOf(R, Week(Q[n].reviewed))) + Q[n].points
           /\ \A w : w # Week(Q[n].reviewed) =>
                 PointsIn(Q, ApprovedOf(Q, w)) = PointsIn(R, ApprovedOf(R, w))
<1>1. /\ ApprovedIn(Q) = ApprovedIn(R) \union {n} /\ n \notin ApprovedIn(R)
      /\ ApprovedIn(R) \subseteq DOMAIN R
  BY DEF ApprovedIn
<1>2. \A i \in ApprovedIn(R) : Q[i] = R[i]
  BY <1>1
<1>3. ASSUME NEW S \in SUBSET ApprovedIn(R)
      PROVE  /\ PointsIn(Q, S) = PointsIn(R, S)
             /\ PointsIn(Q, S \union {n}) = PointsIn(R, S) + Q[n].points
  <2>1. S \subseteq DOMAIN R /\ S \subseteq DOMAIN Q /\ n \notin S
    BY <1>1
  <2>2. PointsIn(Q, S) = PointsIn(R, S)
    BY <1>2, <2>1, PointsAgree
  <2>3. PointsIn(Q, S \union {n}) = PointsIn(Q, S) + Q[n].points
    BY <2>1, PointsAdded
  <2> QED
    BY <2>2, <2>3
<1>4. \A w : ApprovedOf(R, w) \in SUBSET ApprovedIn(R)
  BY DEF ApprovedOf
<1>5. ApprovedOf(Q, Week(Q[n].reviewed)) = ApprovedOf(R, Week(Q[n].reviewed)) \union {n}
  BY <1>1, <1>2 DEF ApprovedOf
<1>6. \A w : w # Week(Q[n].reviewed) => ApprovedOf(Q, w) = ApprovedOf(R, w)
  BY <1>1, <1>2 DEF ApprovedOf
<1>7. PointsIn(Q, ApprovedIn(Q)) = PointsIn(R, ApprovedIn(R)) + Q[n].points
  BY <1>1, <1>3
<1>8. PointsIn(Q, ApprovedOf(Q, Week(Q[n].reviewed)))
         = PointsIn(R, ApprovedOf(R, Week(Q[n].reviewed))) + Q[n].points
  BY <1>3, <1>4, <1>5
<1>9. \A w : w # Week(Q[n].reviewed) =>
         PointsIn(Q, ApprovedOf(Q, w)) = PointsIn(R, ApprovedOf(R, w))
  BY <1>3, <1>4, <1>6
<1> QED
  BY <1>7, <1>8, <1>9

-----------------------------------------------------------------------------
(* The budget of a week.                                                   *)
LEMMA ApprovedSets ==
    ASSUME RecordsOK, NEW w
    PROVE  /\ ApprovedIn(submissions) \in SUBSET DOMAIN submissions
           /\ ApprovedOf(submissions, w) \in SUBSET ApprovedSince(submissions, w)
           /\ ApprovedSince(submissions, w) \in SUBSET DOMAIN submissions
           /\ PointsIn(submissions, ApprovedIn(submissions)) \in Nat
           /\ PointsIn(submissions, ApprovedSince(submissions, w)) \in Nat
           /\ PointsIn(submissions, ApprovedOf(submissions, w)) \in Nat
<1>1. submissions \in Seq(Submission)
  BY DEF RecordsOK
<1>2. \A i \in DOMAIN submissions : Week(submissions[i].reviewed) \in Nat
  <2> SUFFICES ASSUME NEW i \in DOMAIN submissions PROVE Week(submissions[i].reviewed) \in Nat
    OBVIOUS
  <2>1. submissions[i] \in Submission
    BY <1>1
  <2>2. submissions[i]["reviewed"] \in Nat
    BY <2>1, SubmissionFields
  <2> QED
    BY <2>2, Weeks
<1>3. /\ ApprovedIn(submissions) \in SUBSET DOMAIN submissions
      /\ ApprovedOf(submissions, w) \in SUBSET ApprovedSince(submissions, w)
      /\ ApprovedSince(submissions, w) \in SUBSET DOMAIN submissions
  BY <1>2 DEF ApprovedIn, ApprovedOf, ApprovedSince
<1>4. ApprovedOf(submissions, w) \in SUBSET DOMAIN submissions
  BY <1>3
<1> QED
  BY <1>1, <1>3, <1>4, PointsSums

(* The step that saves an approval, and those that approve nothing.        *)
LEMMA ApprovesOrNot ==
    ASSUME RecordsOK, LedgerTypeOK, AloneInv, NEW c \in Call, Acts(c)
    PROVE  LET r == review[c] IN
           \/ /\ PointsIn(submissions', ApprovedIn(submissions'))
                    = PointsIn(submissions, ApprovedIn(submissions))
              /\ \A w : PointsIn(submissions', ApprovedOf(submissions', w))
                           = PointsIn(submissions, ApprovedOf(submissions, w))
              /\ ~(r.step = "update" /\ r.status = "approved" /\ StoreEntity(r))
           \/ /\ r.step = "update" /\ r.status = "approved"
              /\ PointsIn(submissions', ApprovedIn(submissions'))
                    = PointsIn(submissions, ApprovedIn(submissions)) + r.want
              /\ \A w : PointsIn(submissions', ApprovedOf(submissions', w))
                           = PointsIn(submissions, ApprovedOf(submissions, w))
                                + IF w = Week(r.entity.reviewed) THEN r.want ELSE 0
<1> DEFINE r == review[c]
           R == submissions
           Q == submissions'
           Still == /\ PointsIn(Q, ApprovedIn(Q)) = PointsIn(R, ApprovedIn(R))
                    /\ \A w : PointsIn(Q, ApprovedOf(Q, w)) = PointsIn(R, ApprovedOf(R, w))
<1>1. R \in Seq(Submission) /\ r \in ReviewRequest /\ Decision(c) /\ day \in Nat
  BY LedgerAssumption DEF RecordsOK, LedgerTypeOK, AloneInv
<1>2. ASSUME Q = R PROVE Still
  BY <1>2
<1>3. ASSUME r.step = "update", StoreEntity(r)
      PROVE  /\ Q \in Seq(Submission) /\ DOMAIN Q = DOMAIN R /\ r.id \in DOMAIN R
             /\ \A i \in DOMAIN R : i # r.id => Q[i] = R[i]
             /\ Q[r.id].status = r.status /\ Q[r.id].reviewed = r.entity.reviewed
             /\ Q[r.id].points = IF r.status = "approved" THEN r.want ELSE 0
             /\ R[r.id].status = "pending"
  BY <1>1, <1>3, StoresVerdict DEF Decision
<1>4. CASE r.step = "update" /\ StoreEntity(r) /\ r.status = "approved"
  <2> DEFINE n == r.id
             Before(w) == PointsIn(R, ApprovedOf(R, w))
             After(w) == PointsIn(Q, ApprovedOf(Q, w))
             v == Week(r.entity.reviewed)
  <2>1. /\ Q \in Seq(Submission) /\ DOMAIN Q = DOMAIN R /\ n \in DOMAIN R
        /\ R[n].status # "approved" /\ Q[n].status = "approved"
        /\ \A i \in DOMAIN R : i # n => Q[i] = R[i]
        /\ Q[n].reviewed = r.entity.reviewed /\ Q[n].points = r.want
    BY <1>3, <1>4
  <2>2. /\ PointsIn(Q, ApprovedIn(Q)) = PointsIn(R, ApprovedIn(R)) + Q[n].points
        /\ After(Week(Q[n].reviewed)) = Before(Week(Q[n].reviewed)) + Q[n].points
        /\ \A w : w # Week(Q[n].reviewed) => After(w) = Before(w)
    BY <1>1, <2>1, OneApproved
  <2>3. \A w : Before(w) \in Nat
    BY ApprovedSets
  <2>4. /\ PointsIn(Q, ApprovedIn(Q)) = PointsIn(R, ApprovedIn(R)) + r.want
        /\ After(v) = Before(v) + r.want
        /\ \A w : w # v => After(w) = Before(w)
    BY <2>1, <2>2
  <2>5. \A w : After(w) = Before(w) + IF w = v THEN r.want ELSE 0
    <3> HIDE DEF Before, After, v
    <3> QED
      BY <2>3, <2>4
  <2> QED
    BY <1>4, <2>4, <2>5
<1>5. CASE r.step = "update" /\ StoreEntity(r) /\ r.status # "approved"
  <2>1. /\ Q \in Seq(Submission) /\ DOMAIN Q = DOMAIN R
        /\ \A i \in DOMAIN R : i # r.id => Q[i] = R[i]
        /\ Q[r.id].status # "approved" /\ R[r.id].status # "approved"
    BY <1>3, <1>5
  <2>2. /\ \A i \in DOMAIN R : R[i].status = "approved" => Q[i] = R[i]
        /\ \A i \in DOMAIN Q : Q[i].status = "approved" => i \in DOMAIN R /\ R[i].status = "approved"
    BY <2>1
  <2>3. Still
    BY <1>1, <2>1, <2>2, NothingApproved
  <2> QED
    BY <1>5, <2>3
<1>6. CASE r.step = "create" /\ Q = Append(R, Pending(r.link, r.category, day))
  <2> DEFINE s == Pending(r.link, r.category, day)
  <2>1. s \in Submission /\ s.status # "approved"
    BY <1>1, ReviewRecords DEF ReviewRequest, Pending
  <2>2. Q = Append(R, s)
    BY <1>6
  <2> HIDE DEF s
  <2>3. /\ Q \in Seq(Submission)
        /\ DOMAIN Q = DOMAIN R \union {Len(R) + 1}
        /\ Q[Len(R) + 1] = s
        /\ \A i \in DOMAIN R : Q[i] = R[i]
    BY <1>1, <2>1, <2>2, AppendedTypes
  <2>4. /\ DOMAIN R \subseteq DOMAIN Q
        /\ \A i \in DOMAIN R : R[i].status = "approved" => Q[i] = R[i]
        /\ \A i \in DOMAIN Q : Q[i].status = "approved" => i \in DOMAIN R /\ R[i].status = "approved"
    BY <2>1, <2>3
  <2>5. Still
    BY <1>1, <2>3, <2>4, NothingApproved
  <2> QED
    BY <1>6, <2>5
<1>7. ASSUME Q = R, ~(r.step = "update" /\ StoreEntity(r) /\ r.status = "approved")
      PROVE  /\ Still
             /\ ~(r.step = "update" /\ r.status = "approved" /\ StoreEntity(r))
  BY <1>2, <1>7
<1>8. \/ Q = R
      \/ r.step = "update" /\ StoreEntity(r)
      \/ r.step = "create" /\ Q = Append(R, Pending(r.link, r.category, day))
  BY Decides
<1> QED
  BY <1>4, <1>5, <1>6, <1>7, <1>8

LEMMA BudgetActs ==
    ASSUME Crowd = 1, RecordsOK, LedgerTypeOK, AloneInv, BudgetInv, NEW c \in Call, Acts(c)
    PROVE  BudgetInv'
<1> DEFINE r == review[c]
           All(R) == PointsIn(R, ApprovedIn(R))
           Of(R, w) == PointsIn(R, ApprovedOf(R, w))
           Since(R, w) == PointsIn(R, ApprovedSince(R, w))
<1>1. UNCHANGED <<day, due>>
  BY ActsKeepTable
<1>2. \A b \in Call : b # c => ~Deciding(b)' /\ ~Unawarded(b)'
  BY ActsAlone DEF Busy, Deciding, Unawarded
<1>3. /\ r.want \in Nat /\ due.communityPoints \in Nat /\ day \in Nat
      /\ r.entity.reviewed \in Nat /\ Decision(c)
  <2>1. r \in ReviewRequest /\ Decision(c)
    BY DEF RecordsOK, AloneInv
  <2>2. r.want \in Asked /\ r.entity \in Submission
    BY <2>1 DEF ReviewRequest
  <2>3. Asked \subseteq Nat
    BY ContributionAssumption
  <2>4. day \in Nat /\ \A d \in 0 .. LastDay : d \in Nat
    BY LedgerAssumption DEF LedgerTypeOK
  <2>5. r.entity.reviewed \in Nat
    BY <2>2, <2>4 DEF Submission
  <2>6. due.communityPoints \in Nat
    BY DEF LedgerTypeOK, Column, Lifetime, Part
  <2> QED
    BY <2>1, <2>2, <2>3, <2>4, <2>5, <2>6
<1>4. \A w : All(submissions) \in Nat /\ Of(submissions, w) \in Nat
                /\ Since(submissions, w) \in Nat
                /\ Of(submissions, w) <= Since(submissions, w)
  <2> TAKE w
  <2>1. ApprovedOf(submissions, w) \in SUBSET ApprovedSince(submissions, w)
        /\ ApprovedSince(submissions, w) \in SUBSET DOMAIN submissions
    BY ApprovedSets
  <2>2. submissions \in Seq(Submission)
    BY DEF RecordsOK
  <2>3. Of(submissions, w) <= Since(submissions, w)
    BY <2>1, <2>2, PointsSums
  <2> QED
    BY <2>3, ApprovedSets
<1>5. /\ due.communityPoints <= All(submissions)
      /\ \A w \in Nat : Of(submissions, w) <= COMMUNITY_POINTS_WEEKLY_CAP
      /\ Deciding(c) =>
            Since(submissions, Week(Judged(c))) + r.want <= COMMUNITY_POINTS_WEEKLY_CAP
  BY DEF BudgetInv
<1>6. Unawarded(c)' => review'[c].want = r.want /\ r.step = "update"
                          /\ r.status = "approved" /\ StoreEntity(r)
  BY Decides DEF Unawarded
<1>7. /\ due.communityPoints <= All(submissions')
      /\ Unawarded(c)' => due.communityPoints + r.want <= All(submissions')
      /\ \A w \in Nat : Of(submissions', w) <= COMMUNITY_POINTS_WEEKLY_CAP
  <2>1. CASE /\ All(submissions') = All(submissions)
             /\ \A w : Of(submissions', w) = Of(submissions, w)
             /\ ~(r.step = "update" /\ r.status = "approved" /\ StoreEntity(r))
    BY <1>5, <1>6, <2>1
  <2>2. CASE /\ r.step = "update" /\ r.status = "approved"
             /\ All(submissions') = All(submissions) + r.want
             /\ \A w : Of(submissions', w)
                          = Of(submissions, w) + IF w = Week(r.entity.reviewed) THEN r.want ELSE 0
    <3> DEFINE v == Week(r.entity.reviewed)
    <3>1. Since(submissions, v) + r.want <= COMMUNITY_POINTS_WEEKLY_CAP
      BY <1>5, <2>2 DEF Deciding, Judged
    <3>2. \A w : Of(submissions', w) = Of(submissions, w) + IF w = v THEN r.want ELSE 0
      BY <2>2
    <3>3. All(submissions') = All(submissions) + r.want
      BY <2>2
    <3>4. COMMUNITY_POINTS_WEEKLY_CAP \in Nat
      BY ContributionAssumption
    <3> HIDE DEF v, All, Of, Since
    <3>5. Of(submissions, v) <= Since(submissions, v) /\ Of(submissions, v) \in Nat
             /\ Since(submissions, v) \in Nat
      BY <1>4
    <3>6. Of(submissions', v) <= COMMUNITY_POINTS_WEEKLY_CAP
      <4>1. Of(submissions', v) = Of(submissions, v) + r.want
        BY <3>2
      <4> QED
        BY <1>3, <3>1, <3>4, <3>5, <4>1
    <3>7. ASSUME NEW w \in Nat, w # v PROVE Of(submissions', w) <= COMMUNITY_POINTS_WEEKLY_CAP
      <4>1. Of(submissions', w) = Of(submissions, w) + 0
        BY <3>2, <3>7
      <4>2. Of(submissions, w) \in Nat /\ Of(submissions, w) <= COMMUNITY_POINTS_WEEKLY_CAP
        BY <1>4, <1>5
      <4> QED
        BY <4>1, <4>2
    <3>8. due.communityPoints <= All(submissions')
             /\ due.communityPoints + r.want <= All(submissions')
      <4>1. All(submissions) \in Nat /\ due.communityPoints <= All(submissions)
        BY <1>4, <1>5
      <4> QED
        BY <1>3, <3>3, <4>1
    <3> QED
      BY <3>6, <3>7, <3>8
  <2> QED
    BY <2>1, <2>2, ApprovesOrNot
<1>8. ASSUME Deciding(c)'
      PROVE  Since(submissions, Week(Judged(c)'))  + r.want <= COMMUNITY_POINTS_WEEKLY_CAP
                /\ submissions' = submissions /\ review'[c].want = r.want
  <2>1. /\ submissions' = submissions /\ review'[c].want = r.want
        /\ \/ /\ review'[c].step = "find"
              /\ ~(r.want > COMMUNITY_POINTS_WEEKLY_CAP - getApprovedPointsThisWeek)
           \/ /\ Deciding(c) /\ review'[c].step # "find"
              /\ r.step = "find" => review'[c].entity.reviewed = day
              /\ r.step # "find" => review'[c].entity = r.entity
    BY <1>8, Decides
  <2>2. CASE /\ review'[c].step = "find"
             /\ ~(r.want > COMMUNITY_POINTS_WEEKLY_CAP - getApprovedPointsThisWeek)
    <3>1. Judged(c)' = day
      BY <1>1, <2>2 DEF Judged
    <3>2. getApprovedPointsThisWeek = Since(submissions, Week(day))
      BY DEF getApprovedPointsThisWeek, PointsOf, PointsIn, ApprovedSince, ApprovedIn, Approved
    <3>3. COMMUNITY_POINTS_WEEKLY_CAP \in Nat
      BY ContributionAssumption
    <3> HIDE DEF Since
    <3>4. Since(submissions, Week(day)) \in Nat
      BY <1>4
    <3>5. ~(r.want > COMMUNITY_POINTS_WEEKLY_CAP - Since(submissions, Week(day)))
      BY <2>2, <3>2
    <3>6. Since(submissions, Week(day)) + r.want <= COMMUNITY_POINTS_WEEKLY_CAP
      BY <1>3, <3>3, <3>4, <3>5
    <3> QED
      BY <2>1, <3>1, <3>6
  <2>3. CASE /\ Deciding(c) /\ review'[c].step # "find"
             /\ r.step = "find" => review'[c].entity.reviewed = day
             /\ r.step # "find" => review'[c].entity = r.entity
    <3>1. Judged(c)' = Judged(c)
      BY <1>1, <2>3 DEF Judged
    <3> QED
      BY <1>5, <2>1, <2>3, <3>1
  <2> QED
    BY <2>1, <2>2, <2>3
<1>9. due'.communityPoints <= All(submissions')
  BY <1>1, <1>7
<1>10. \A b \in Call : Unawarded(b)' =>
          due'.communityPoints + review'[b].want <= All(submissions')
  BY <1>1, <1>2, <1>6, <1>7
<1>11. \A b \in Call : Deciding(b)' =>
          Since(submissions', Week(Judged(b)')) + review'[b].want <= COMMUNITY_POINTS_WEEKLY_CAP
  BY <1>2, <1>8
<1> QED
  BY <1>7, <1>9, <1>10, <1>11 DEF BudgetInv

LEMMA BudgetStatement ==
    ASSUME RecordsOK, LedgerTypeOK, AloneInv, BudgetInv, NEW c \in Call, Statement(c)
    PROVE  BudgetInv'
<1> DEFINE All == PointsIn(submissions, ApprovedIn(submissions))
<1>1. LedgerStep(c) /\ UNCHANGED <<submissions, review>>
  BY DEF Statement
<1>2. /\ review[c].step \in {"points", "award", "swap"} /\ Errand(c)
      /\ access[c].step \in {"read", "create", "reload", "write"}
      /\ \A b \in Call : b # c => ~Busy(b) /\ access[b].step = "none"
  BY <1>1, CallAlone
<1>3. day' = day
  BY <1>1, LedgerMoves
<1>4. \A b \in Call : ~Deciding(b)'
  BY <1>1, <1>2 DEF Deciding, Busy
<1>5. \A b \in Call : Unawarded(b)' => b = c /\ Unawarded(c) /\ ~Returned(c)'
  BY <1>1, <1>2 DEF Unawarded, Busy, Returned
<1>6. CASE access[c].step # "write"
  <2>1. due' = due
    BY <1>1, <1>6, LedgerMoves
  <2> QED
    BY <1>1, <1>4, <1>5, <2>1 DEF BudgetInv
<1>7. CASE access[c].step = "write"
  <2>1. due' = Plus(due, access[c].gain) /\ Returned(c)'
    BY <1>1, <1>7, LedgerMoves DEF Returned
  <2>2. ~Returned(c) /\ review[c].step \in {"award", "swap"}
    BY <1>2, <1>7 DEF Errand, Returned
  <2>3. "communityPoints" \in Column
    BY DEF Column, Lifetime, Part
  <2>4. due'["communityPoints"] = due["communityPoints"] + access[c].gain["communityPoints"]
    BY <2>1, <2>3 DEF Plus
  <2>5. due'["communityPoints"] <= All
    <3>1. CASE review[c].step = "award"
      <4>1. access[c].gain["communityPoints"] = review[c].want
        BY <1>2, <2>2, <2>3, <3>1 DEF Errand, CommunityGain, Gain
      <4>2. due["communityPoints"] + review[c].want <= All
        BY <2>2, <3>1 DEF BudgetInv, Unawarded
      <4> QED
        BY <2>4, <4>1, <4>2
    <3>2. CASE review[c].step = "swap"
      <4>1. access[c].gain["communityPoints"] = 0
        <5>1. PICK n \in SwapPoints : access[c].gain = SwapGain(n)
          BY <1>2, <2>2, <3>2 DEF Errand
        <5> QED
          BY <5>1, <2>3 DEF SwapGain, Gain
      <4>2. due["communityPoints"] \in Nat
        BY <2>3 DEF LedgerTypeOK
      <4>3. due["communityPoints"] <= All
        BY DEF BudgetInv
      <4> QED
        BY <2>4, <4>1, <4>2, <4>3
    <3> QED
      BY <2>2, <3>1, <3>2
  <2>6. \A b \in Call : ~Unawarded(b)'
    BY <1>5, <2>1
  <2> QED
    BY <1>1, <1>4, <2>5, <2>6 DEF BudgetInv
<1> QED
  BY <1>6, <1>7

LEMMA BudgetMidnight ==
    ASSUME RecordsOK, LedgerTypeOK, BudgetInv, NextDay
    PROVE  BudgetInv'
<1>1. UNCHANGED <<rows, access, submissions, review>> /\ day' = day + 1 /\ day \in Nat
  BY LedgerAssumption DEF NextDay, Midnight, LedgerTypeOK
<1>2. due'.communityPoints = due.communityPoints
  BY DEF NextDay, Midnight, LedgerTypeOK, Column, Lifetime, Part
<1>3. \A c \in Call : Deciding(c)' <=> Deciding(c)
  BY <1>1 DEF Deciding
<1>4. \A c \in Call : Unawarded(c)' <=> Unawarded(c)
  BY <1>1 DEF Unawarded, Returned
<1>5. ASSUME NEW c \in Call, Deciding(c)
      PROVE  PointsIn(submissions, ApprovedSince(submissions, Week(Judged(c)'))) + review[c].want
                <= COMMUNITY_POINTS_WEEKLY_CAP
  <2> DEFINE u == Week(Judged(c))
             v == Week(Judged(c)')
             S(w) == ApprovedSince(submissions, w)
  <2>1. u \in Nat /\ v \in Nat /\ u <= v
    <3>1. CASE review[c].step = "find"
      <4>1. Judged(c) = day /\ Judged(c)' = day + 1
        BY <1>1, <3>1 DEF Judged
      <4>2. day + 1 \in Nat /\ day <= day + 1
        BY <1>1
      <4> QED
        BY <1>1, <4>1, <4>2, Weeks
    <3>2. CASE review[c].step # "find"
      <4>1. Judged(c) = review[c].entity.reviewed /\ Judged(c)' = review[c].entity.reviewed
        BY <1>1, <3>2 DEF Judged
      <4>2. review[c].entity.reviewed \in Nat
        BY DEF RecordsOK, ReviewRequest, Submission
      <4>3. Week(review[c].entity.reviewed) \in Nat
        BY <4>2, Weeks
      <4> QED
        BY <4>1, <4>3
    <3> QED
      BY <3>1, <3>2
  <2> HIDE DEF u, v
  <2>2. submissions \in Seq(Submission)
    BY DEF RecordsOK
  <2>3. \A i \in DOMAIN submissions : Week(submissions[i].reviewed) \in Nat
    <3> TAKE i \in DOMAIN submissions
    <3>1. submissions[i] \in Submission
      BY <2>2
    <3>2. submissions[i]["reviewed"] \in Nat
      BY <3>1, SubmissionFields
    <3> QED
      BY <3>2, Weeks
  <2>4. S(v) \in SUBSET S(u)
    <3>1. \A i \in DOMAIN submissions :
             Week(submissions[i].reviewed) >= v => Week(submissions[i].reviewed) >= u
      BY <2>1, <2>3
    <3>2. ApprovedIn(submissions) \subseteq DOMAIN submissions
      BY DEF ApprovedIn
    <3> QED
      BY <3>1, <3>2 DEF ApprovedSince
  <2>5. S(u) \in SUBSET DOMAIN submissions
    BY ApprovedSets
  <2>6. /\ PointsIn(submissions, S(u)) \in Nat /\ PointsIn(submissions, S(v)) \in Nat
        /\ PointsIn(submissions, S(v)) <= PointsIn(submissions, S(u))
    BY <2>2, <2>4, <2>5, PointsSums
  <2>7. PointsIn(submissions, S(u)) + review[c].want <= COMMUNITY_POINTS_WEEKLY_CAP
    BY <1>5 DEF BudgetInv, u
  <2>8. review[c].want \in Nat /\ COMMUNITY_POINTS_WEEKLY_CAP \in Nat
    BY ContributionAssumption DEF RecordsOK, ReviewRequest
  <2> HIDE DEF S
  <2>9. PointsIn(submissions, S(v)) + review[c].want <= COMMUNITY_POINTS_WEEKLY_CAP
    BY <2>6, <2>7, <2>8
  <2> QED
    BY <2>9 DEF S, v
<1> QED
  BY <1>1, <1>2, <1>3, <1>4, <1>5 DEF BudgetInv

LEMMA BudgetInductive ==
    Crowd = 1 => (ContributionSpec => [](ReviewTypes /\ AloneInv /\ BudgetInv))
<1> SUFFICES ASSUME Crowd = 1
             PROVE  ContributionSpec => [](ReviewTypes /\ AloneInv /\ BudgetInv)
  OBVIOUS
<1>1. ContributionInit /\ ReviewTypes => BudgetInv
  <2> SUFFICES ASSUME ContributionInit, ReviewTypes PROVE BudgetInv
    OBVIOUS
  <2>1. \A c \in Call : ~Deciding(c) /\ ~Unawarded(c)
    BY DEF ContributionInit, IdleReview, Deciding, Unawarded
  <2>2. ApprovedIn(submissions) = {}
    <3>1. PICK g \in Category : \E n \in 0 .. WEEKLY_CATEGORY_LIMITS[g] :
             \E l \in [1 .. n -> Link] : submissions = [i \in 1 .. n |-> Pending(l[i], g, 0)]
      BY DEF ContributionInit
    <3> QED
      BY <3>1 DEF ApprovedIn, Pending
  <2>3. \A w : ApprovedOf(submissions, w) = {}
    BY <2>2 DEF ApprovedOf
  <2>4. PointsIn(submissions, {}) = 0
    BY SumEmpty DEF PointsIn
  <2>5. due.communityPoints = 0
    BY DEF ContributionInit, LedgerInit, Blank, Column, Lifetime, Part
  <2>6. COMMUNITY_POINTS_WEEKLY_CAP >= 0
    BY ContributionAssumption
  <2>7. PointsIn(submissions, ApprovedIn(submissions)) = 0
    BY <2>2, <2>4
  <2>8. \A w : PointsIn(submissions, ApprovedOf(submissions, w)) = 0
    BY <2>3, <2>4
  <2> QED
    BY <2>1, <2>5, <2>6, <2>7, <2>8 DEF BudgetInv
<1>2. ReviewTypes /\ AloneInv /\ BudgetInv /\ [ContributionNext]_contributionVars => BudgetInv'
  <2> SUFFICES ASSUME ReviewTypes, AloneInv, BudgetInv, [ContributionNext]_contributionVars
               PROVE  BudgetInv'
    OBVIOUS
  <2>1. LedgerTypeOK /\ RecordsOK
    BY TwoHalves DEF ReviewTypes, ContributionTypeOK
  <2>2. ASSUME NEW c \in Call, Acts(c) PROVE BudgetInv'
    BY <2>1, <2>2, BudgetActs
  <2>3. ASSUME NEW c \in Call, Statement(c) PROVE BudgetInv'
    BY <2>1, <2>3, BudgetStatement
  <2>4. CASE NextDay
    BY <2>1, <2>4, BudgetMidnight
  <2>5. CASE UNCHANGED contributionVars
    BY <2>5 DEF contributionVars, ledgerVars, BudgetInv, Deciding, Unawarded, Returned, Judged
  <2> QED
    BY <2>2, <2>3, <2>4, <2>5 DEF ContributionNext, Acts
<1>3. Crowd = 1 => (ContributionSpec => [](ReviewTypes /\ AloneInv))
  BY AloneInductive
<1> QED
  BY <1>1, <1>2, <1>3, PTL DEF ContributionSpec

(* contribution-submission.entity.ts:37, one request at a time: whichever  *)
(* call fails between the two tables, the row never shows more community   *)
(* points than the approved submissions do.                                *)
THEOREM BackedAlone == Crowd = 1 => (ContributionSpec => []CommunityBacked)
<1>1. ReviewTypes /\ BudgetInv => CommunityBacked
  <2> SUFFICES ASSUME ReviewTypes, BudgetInv, NEW i \in DOMAIN rows
               PROVE  rows[i].communityPoints <= PointsOf(Approved)
    BY DEF CommunityBacked
  <2>1. "communityPoints" \in Lifetime /\ "communityPoints" \in Column
    BY DEF Column, Lifetime, Part
  <2>2. rows[i]["communityPoints"] <= due["communityPoints"]
    BY <2>1 DEF ReviewTypes, NeverMoreThanDue
  <2>3. due["communityPoints"] <= PointsOf(Approved)
    BY DEF BudgetInv, PointsIn, PointsOf, ApprovedIn, Approved
  <2>4. rows[i]["communityPoints"] \in Nat /\ due["communityPoints"] \in Nat
    BY <2>1 DEF ReviewTypes, ContributionTypeOK, LedgerTypeOK
  <2>5. PointsOf(Approved) \in Nat
    BY TwoHalves, ApprovedSets DEF PointsIn, PointsOf, ApprovedIn, Approved
  <2> QED
    BY <2>2, <2>3, <2>4, <2>5
<1> QED
  BY <1>1, BudgetInductive, PTL

(* contribution-submission.entity.ts:48, one request at a time: no week's  *)
(* approvals exceed the cap, over the midnights between check and save.    *)
THEOREM WeeklyCapAlone == Crowd = 1 => (ContributionSpec => []WeeklyCap)
<1>1. ReviewTypes /\ BudgetInv => WeeklyCap
  <2> SUFFICES ASSUME ReviewTypes, BudgetInv, NEW d \in 1 .. day
               PROVE  PointsOf({i \in Approved : Week(submissions[i].reviewed) = Week(d)})
                         <= COMMUNITY_POINTS_WEEKLY_CAP
    BY DEF WeeklyCap
  <2>1. d \in Nat
    BY LedgerAssumption DEF ReviewTypes, ContributionTypeOK, LedgerTypeOK
  <2>2. Week(d) \in Nat
    BY <2>1, Weeks
  <2> QED
    BY <2>2 DEF BudgetInv, PointsIn, PointsOf, ApprovedIn, ApprovedOf, Approved
<1> QED
  BY <1>1, BudgetInductive, PTL

-----------------------------------------------------------------------------
(* The limits of the submissions.                                          *)
LEMMA SubmittedFinite ==
    ASSUME RecordsOK, NEW g, NEW w
    PROVE  /\ IsFiniteSet(SubmittedIn(submissions, g, w))
           /\ Cardinality(SubmittedIn(submissions, g, w)) \in Nat
<1>1. submissions \in Seq(Submission)
  BY DEF RecordsOK
<1>2. SubmittedIn(submissions, g, w) \in SUBSET DOMAIN submissions
  BY DEF SubmittedIn
<1>3. IsFiniteSet(SubmittedIn(submissions, g, w))
  BY <1>1, <1>2, PointsFinite
<1> QED
  BY <1>3, FS_CardinalityType

LEMMA CreatedBefore ==
    ASSUME RecordsOK, LedgerTypeOK, Dated, NEW i \in DOMAIN submissions
    PROVE  /\ submissions[i].created \in Nat /\ day \in Nat /\ submissions[i].created <= day
           /\ Week(submissions[i].created) \in Nat
           /\ Week(submissions[i].created) <= Week(day)
<1>1. submissions[i] \in Submission
  BY DEF RecordsOK
<1>2. submissions[i]["created"] \in Nat
  BY <1>1, SubmissionFields
<1>3. day \in Nat
  BY LedgerAssumption DEF LedgerTypeOK
<1> QED
  BY <1>2, <1>3, Weeks DEF Dated

(* What a step makes of a request to submit.                               *)
LEMMA Submits ==
    ASSUME RecordsOK, LedgerTypeOK, NEW c \in Call, Acts(c)
    PROVE  LET r == review[c]  s == review'[c] IN
           /\ s.step = "limit" => /\ submissions' = submissions
                                  /\ \A i \in DOMAIN submissions : submissions[i].link # s.link
           /\ s.step = "create" => /\ submissions' = submissions /\ r.step = "limit"
                                   /\ s.link = r.link /\ s.category = r.category
                                   /\ ~hasReachedWeeklyLimit(r.category)
<1> DEFINE r == review[c]
           s == review'[c]
<1>1. review \in [Call -> ReviewRequest] /\ r \in ReviewRequest
  BY DEF RecordsOK
<1>2. ASSUME Finish(c) PROVE s.step = "over"
  BY <1>2, Finished
<1>3. CASE Submit(c)
  <2>1. PICK l \in Link, g \in Category :
           /\ \A i \in DOMAIN submissions : submissions[i].link # l
           /\ review' = [review EXCEPT ![c].step = "limit", ![c].link = l, ![c].category = g]
    BY <1>3 DEF Submit
  <2>2. s.step = "limit" /\ s.link = l
    BY <1>1, <2>1 DEF ReviewRequest
  <2> QED
    BY <1>3, <2>1, <2>2 DEF Submit
<1>4. CASE Limit(c)
  <2>1. \/ s.step = "over"
        \/ /\ s.step = "create" /\ s.link = r.link /\ s.category = r.category
           /\ ~hasReachedWeeklyLimit(r.category)
    BY <1>1, <1>2, <1>4 DEF Limit, Move, ReviewRequest
  <2>2. submissions' = submissions /\ r.step = "limit"
    BY <1>4 DEF Limit, Stands
  <2> QED
    BY <2>1, <2>2
<1>5. CASE Approve(c)
  <2>1. s.step = "points"
    BY <1>1, <1>5 DEF Approve, ReviewRequest
  <2> QED
    BY <2>1
<1>6. CASE Caps(c)
  <2>1. s.step \in {"over", "find"}
    BY <1>1, <1>2, <1>6 DEF Caps, Move, ReviewRequest
  <2> QED
    BY <2>1
<1>7. CASE Reject(c)
  <2>1. s.step = "find"
    BY <1>1, <1>7 DEF Reject, ReviewRequest
  <2> QED
    BY <2>1
<1>8. CASE FindById(c)
  <2>1. s.step = "select"
    BY <1>1, <1>8 DEF FindById, ReviewRequest
  <2> QED
    BY <2>1
<1>9. CASE SelectSubmission(c)
  <2>1. s.step = "update"
    BY <1>1, <1>9 DEF SelectSubmission, ReviewRequest
  <2> QED
    BY <2>1
<1>10. CASE UpdateSubmission(c)
  <2>1. s.step \in {"over", "award"}
    BY <1>1, <1>2, <1>10 DEF UpdateSubmission, Move, ReviewRequest
  <2> QED
    BY <2>1
<1>11. CASE SwapAward(c)
  <2>1. s.step = "swap"
    BY <1>1, <1>11 DEF SwapAward, Move, ReviewRequest
  <2> QED
    BY <2>1
<1>12. CASE Create(c) \/ Awarded(c) \/ Break(c)
  <2>1. s.step = "over"
    BY <1>2, <1>12 DEF Create, Awarded, Break
  <2> QED
    BY <2>1
<1> QED
  BY <1>3, <1>4, <1>5, <1>6, <1>7, <1>8, <1>9, <1>10, <1>11, <1>12 DEF Acts

LEMMA LimitedKept ==
    ASSUME NEW R, NEW Q, Limited(R), DOMAIN Q = DOMAIN R,
           \A i \in DOMAIN R : /\ Q[i].link = R[i].link /\ Q[i].category = R[i].category
                               /\ Q[i].created = R[i].created
    PROVE  Limited(Q)
<1>1. \A g, w : SubmittedIn(Q, g, w) = SubmittedIn(R, g, w)
  BY DEF SubmittedIn
<1> QED
  BY <1>1 DEF Limited

LEMMA LimitedAppended ==
    ASSUME RecordsOK, Limited(submissions), NEW s \in Submission,
           \A i \in DOMAIN submissions : submissions[i].link # s.link,
           Cardinality(SubmittedIn(submissions, s.category, Week(s.created)))
              < WEEKLY_CATEGORY_LIMITS[s.category]
    PROVE  Limited(Append(submissions, s))
<1> DEFINE R == submissions
           Q == Append(submissions, s)
           n == Len(submissions) + 1
<1>1. R \in Seq(Submission) /\ Len(R) \in Nat
  BY DEF RecordsOK
<1>2. /\ DOMAIN Q = DOMAIN R \union {n} /\ n \notin DOMAIN R
      /\ Q[n] = s /\ \A i \in DOMAIN R : Q[i] = R[i]
  BY <1>1
<1> HIDE DEF Q, n
<1>3. \A i, j \in DOMAIN Q : Q[i].link = Q[j].link => i = j
  BY <1>2 DEF Limited
<1>4. ASSUME NEW g \in Category, NEW w \in Nat
      PROVE  Cardinality(SubmittedIn(Q, g, w)) <= WEEKLY_CATEGORY_LIMITS[g]
  <2>1. /\ IsFiniteSet(SubmittedIn(R, g, w)) /\ Cardinality(SubmittedIn(R, g, w)) \in Nat
        /\ WEEKLY_CATEGORY_LIMITS[g] \in Nat
    BY SubmittedFinite, ContributionAssumption
  <2>2. CASE g = s.category /\ w = Week(s.created)
    <3>1. SubmittedIn(Q, g, w) = SubmittedIn(R, g, w) \union {n}
      BY <1>2, <2>2 DEF SubmittedIn
    <3>2. n \notin SubmittedIn(R, g, w)
      BY <1>2 DEF SubmittedIn
    <3>3. Cardinality(SubmittedIn(Q, g, w)) = Cardinality(SubmittedIn(R, g, w)) + 1
      BY <2>1, <3>1, <3>2, FS_AddElement
    <3>4. Cardinality(SubmittedIn(R, g, w)) < WEEKLY_CATEGORY_LIMITS[g]
      BY <2>2
    <3> QED
      BY <2>1, <3>3, <3>4
  <2>3. CASE ~(g = s.category /\ w = Week(s.created))
    <3>1. SubmittedIn(Q, g, w) = SubmittedIn(R, g, w)
      BY <1>2, <2>3 DEF SubmittedIn
    <3> QED
      BY <3>1 DEF Limited
  <2> QED
    BY <2>2, <2>3
<1>5. Limited(Q)
  BY <1>3, <1>4 DEF Limited
<1> QED
  BY <1>5 DEF Q

LEMMA SubmitActs ==
    ASSUME Crowd = 1, RecordsOK, LedgerTypeOK, AloneInv, SubmitInv, NEW c \in Call, Acts(c)
    PROVE  SubmitInv'
<1> DEFINE r == review[c]
<1>1. UNCHANGED day /\ Dated
  BY ActsKeepTable DEF AloneInv
<1>2. \A b \in Call : b # c => review'[b].step \notin {"limit", "create"}
  BY ActsAlone DEF Busy
<1>3. Limited(submissions) /\ r \in ReviewRequest /\ day \in Nat
  BY LedgerAssumption DEF SubmitInv, RecordsOK, LedgerTypeOK
<1>4. Limited(submissions')
  <2>1. CASE submissions' = submissions
    BY <1>3, <2>1
  <2>2. CASE r.step = "update" /\ StoreEntity(r)
    <3>1. /\ DOMAIN submissions' = DOMAIN submissions
          /\ \A i \in DOMAIN submissions : i # r.id => submissions'[i] = submissions[i]
          /\ submissions'[r.id].link = submissions[r.id].link
          /\ submissions'[r.id].category = submissions[r.id].category
          /\ submissions'[r.id].created = submissions[r.id].created
      BY <2>2, StoresVerdict
    <3>2. \A i \in DOMAIN submissions :
             /\ submissions'[i].link = submissions[i].link
             /\ submissions'[i].category = submissions[i].category
             /\ submissions'[i].created = submissions[i].created
      BY <3>1
    <3> QED
      BY <1>3, <3>1, <3>2, LimitedKept
  <2>3. CASE r.step = "create" /\ submissions' = Append(submissions, Pending(r.link, r.category, day))
    <3> DEFINE s == Pending(r.link, r.category, day)
    <3>1. s \in Submission /\ s.link = r.link /\ s.category = r.category /\ s.created = day
      BY <1>3, ReviewRecords DEF ReviewRequest, Pending
    <3>2. submissions' = Append(submissions, s)
      BY <2>3
    <3> HIDE DEF s
    <3>3. /\ \A i \in DOMAIN submissions : submissions[i].link # s.link
          /\ Cardinality(SubmittedIn(submissions, s.category, Week(s.created)))
                < WEEKLY_CATEGORY_LIMITS[s.category]
      BY <2>3, <3>1 DEF SubmitInv
    <3>4. Limited(Append(submissions, s))
      BY <1>3, <3>1, <3>3, LimitedAppended
    <3> QED
      BY <3>2, <3>4
  <2> QED
    BY <2>1, <2>2, <2>3, Decides
<1>5. ASSUME review'[c].step = "limit"
      PROVE  \A i \in DOMAIN submissions' : submissions'[i].link # review'[c].link
  BY <1>5, Submits
<1>6. ASSUME review'[c].step = "create"
      PROVE  /\ \A i \in DOMAIN submissions' : submissions'[i].link # review'[c].link
             /\ Cardinality(SubmittedIn(submissions', review'[c].category, Week(day)))
                   < WEEKLY_CATEGORY_LIMITS[review'[c].category]
  <2>1. /\ submissions' = submissions /\ r.step = "limit"
        /\ review'[c].link = r.link /\ review'[c].category = r.category
        /\ ~hasReachedWeeklyLimit(r.category)
    BY <1>6, Submits
  <2>2. \A i \in DOMAIN submissions : submissions[i].link # r.link
    BY <2>1 DEF SubmitInv
  <2>3. \A i \in DOMAIN submissions :
           /\ Week(submissions[i].created) \in Nat /\ Week(day) \in Nat
           /\ Week(submissions[i].created) <= Week(day)
    BY <1>1, <1>3, CreatedBefore, Weeks
  <2>4. \A i \in DOMAIN submissions :
           Week(submissions[i].created) >= Week(day) <=> Week(submissions[i].created) = Week(day)
    BY <2>3
  <2>5. SubmittedIn(submissions, r.category, Week(day))
           = {i \in DOMAIN submissions : submissions[i].category = r.category
                                           /\ Week(submissions[i].created) >= Week(day)}
    BY <2>4 DEF SubmittedIn
  <2>6. ~(Cardinality(SubmittedIn(submissions, r.category, Week(day)))
             >= WEEKLY_CATEGORY_LIMITS[r.category])
    BY <2>1, <2>5 DEF hasReachedWeeklyLimit, countByWalletCategoryThisWeek
  <2>7. /\ Cardinality(SubmittedIn(submissions, r.category, Week(day))) \in Nat
        /\ WEEKLY_CATEGORY_LIMITS[r.category] \in Nat
    BY <1>3, SubmittedFinite, ContributionAssumption DEF ReviewRequest
  <2>8. Cardinality(SubmittedIn(submissions, r.category, Week(day)))
           < WEEKLY_CATEGORY_LIMITS[r.category]
    BY <2>6, <2>7
  <2> QED
    BY <2>1, <2>2, <2>8
<1> QED
  BY <1>1, <1>2, <1>4, <1>5, <1>6 DEF SubmitInv

LEMMA SubmitMidnight ==
    ASSUME RecordsOK, LedgerTypeOK, AloneInv, SubmitInv, NextDay
    PROVE  SubmitInv'
<1>1. UNCHANGED <<submissions, review>> /\ day' = day + 1 /\ day \in Nat /\ Dated
  BY LedgerAssumption DEF NextDay, Midnight, LedgerTypeOK, AloneInv
<1>2. ASSUME NEW c \in Call, review[c].step = "create"
      PROVE  Cardinality(SubmittedIn(submissions, review[c].category, Week(day + 1)))
                < WEEKLY_CATEGORY_LIMITS[review[c].category]
  <2> DEFINE g == review[c].category
             S(w) == SubmittedIn(submissions, g, w)
  <2>1. Cardinality(S(Week(day))) < WEEKLY_CATEGORY_LIMITS[g]
    BY <1>2 DEF SubmitInv
  <2>2. Cardinality(S(Week(day))) \in Nat /\ WEEKLY_CATEGORY_LIMITS[g] \in Nat
    <3>1. g \in Category
      BY DEF RecordsOK, ReviewRequest
    <3> QED
      BY <3>1, SubmittedFinite, ContributionAssumption
  <2>3. Week(day) \in Nat /\ Week(day + 1) \in Nat /\ Week(day) <= Week(day + 1)
    <3>1. day + 1 \in Nat /\ day <= day + 1
      BY <1>1
    <3> QED
      BY <1>1, <3>1, Weeks
  <2>4. CASE Week(day + 1) # Week(day)
    <3>1. \A i \in DOMAIN submissions : Week(submissions[i].created) # Week(day + 1)
      <4> TAKE i \in DOMAIN submissions
      <4>1. Week(submissions[i].created) \in Nat /\ Week(submissions[i].created) <= Week(day)
        BY <1>1, CreatedBefore
      <4> QED
        BY <2>3, <2>4, <4>1
    <3>2. S(Week(day + 1)) = {}
      BY <3>1 DEF SubmittedIn
    <3>3. Cardinality(S(Week(day + 1))) = 0
      BY <3>2, FS_EmptySet
    <3> HIDE DEF S
    <3> QED
      BY <2>1, <2>2, <3>3 DEF S
  <2> QED
    BY <2>1, <2>4
<1> QED
  BY <1>1, <1>2 DEF SubmitInv

LEMMA SubmitInductive ==
    Crowd = 1 => (ContributionSpec => [](ReviewTypes /\ AloneInv /\ SubmitInv))
<1> SUFFICES ASSUME Crowd = 1
             PROVE  ContributionSpec => [](ReviewTypes /\ AloneInv /\ SubmitInv)
  OBVIOUS
<1>1. ContributionInit => SubmitInv
  <2> SUFFICES ASSUME ContributionInit PROVE SubmitInv
    OBVIOUS
  <2>1. \A c \in Call : review[c].step = "new"
    BY DEF ContributionInit, IdleReview
  <2>2. PICK k \in Category : \E n \in 0 .. WEEKLY_CATEGORY_LIMITS[k] :
           \E l \in [1 .. n -> Link] :
              /\ \A i, j \in 1 .. n : l[i] = l[j] => i = j
              /\ submissions = [i \in 1 .. n |-> Pending(l[i], k, 0)]
    BY DEF ContributionInit
  <2>3. PICK n \in 0 .. WEEKLY_CATEGORY_LIMITS[k] : \E l \in [1 .. n -> Link] :
           /\ \A i, j \in 1 .. n : l[i] = l[j] => i = j
           /\ submissions = [i \in 1 .. n |-> Pending(l[i], k, 0)]
    BY <2>2
  <2>4. PICK l \in [1 .. n -> Link] :
           /\ \A i, j \in 1 .. n : l[i] = l[j] => i = j
           /\ submissions = [i \in 1 .. n |-> Pending(l[i], k, 0)]
    BY <2>3
  <2>5. /\ DOMAIN submissions = 1 .. n
        /\ \A i \in 1 .. n : submissions[i].link = l[i] /\ submissions[i].category = k
    BY <2>4 DEF Pending
  <2>6. WEEKLY_CATEGORY_LIMITS[k] \in Nat /\ n \in Nat /\ n <= WEEKLY_CATEGORY_LIMITS[k]
    BY ContributionAssumption
  <2>7. ASSUME NEW g \in Category, NEW w \in Nat
        PROVE  Cardinality(SubmittedIn(submissions, g, w)) <= WEEKLY_CATEGORY_LIMITS[g]
    <3>1. CASE g = k
      <4>1. SubmittedIn(submissions, g, w) \in SUBSET (1 .. n)
        BY <2>5 DEF SubmittedIn
      <4>2. IsFiniteSet(1 .. n) /\ Cardinality(1 .. n) = n
        <5>1. 1 \in Int /\ n \in Int /\ (1 > n => n = 0) /\ n - 1 + 1 = n
          BY <2>6
        <5> QED
          BY <5>1, FS_Interval
      <4>3. /\ Cardinality(SubmittedIn(submissions, g, w)) <= n
            /\ IsFiniteSet(SubmittedIn(submissions, g, w))
        BY <4>1, <4>2, FS_Subset
      <4>4. Cardinality(SubmittedIn(submissions, g, w)) \in Nat
        BY <4>3, FS_CardinalityType
      <4> QED
        BY <2>6, <3>1, <4>3, <4>4
    <3>2. CASE g # k
      <4>1. SubmittedIn(submissions, g, w) = {}
        BY <2>5, <3>2 DEF SubmittedIn
      <4>2. Cardinality(SubmittedIn(submissions, g, w)) = 0
        BY <4>1, FS_EmptySet
      <4>3. WEEKLY_CATEGORY_LIMITS[g] \in Nat
        BY ContributionAssumption
      <4> QED
        BY <4>2, <4>3
    <3> QED
      BY <3>1, <3>2
  <2>8. \A i, j \in DOMAIN submissions : submissions[i].link = submissions[j].link => i = j
    BY <2>4, <2>5
  <2> QED
    BY <2>1, <2>7, <2>8 DEF SubmitInv, Limited
<1>2. ReviewTypes /\ AloneInv /\ SubmitInv /\ [ContributionNext]_contributionVars => SubmitInv'
  <2> SUFFICES ASSUME ReviewTypes, AloneInv, SubmitInv, [ContributionNext]_contributionVars
               PROVE  SubmitInv'
    OBVIOUS
  <2>1. LedgerTypeOK /\ RecordsOK
    BY TwoHalves DEF ReviewTypes, ContributionTypeOK
  <2>2. ASSUME NEW c \in Call, Acts(c) PROVE SubmitInv'
    BY <2>1, <2>2, SubmitActs
  <2>3. ASSUME UNCHANGED <<day, submissions, review>> PROVE SubmitInv'
    BY <2>3 DEF SubmitInv
  <2>4. ASSUME NEW c \in Call, Statement(c) PROVE SubmitInv'
    BY <2>1, <2>3, <2>4, LedgerMoves DEF Statement
  <2>5. CASE NextDay
    BY <2>1, <2>5, SubmitMidnight
  <2>6. CASE UNCHANGED contributionVars
    BY <2>3, <2>6 DEF contributionVars, ledgerVars
  <2> QED
    BY <2>2, <2>4, <2>5, <2>6 DEF ContributionNext, Acts
<1>3. Crowd = 1 => (ContributionSpec => [](ReviewTypes /\ AloneInv))
  BY AloneInductive
<1> QED
  BY <1>1, <1>2, <1>3, PTL DEF ContributionSpec

(* contributions.controller.ts, one request at a time: a link is submitted *)
(* once, and no category more often than its limit in any week, over the   *)
(* midnights between the count and the insertion.                          *)
THEOREM SubmittedOnceAlone == Crowd = 1 => (ContributionSpec => []SubmittedOnce)
<1>1. ReviewTypes /\ SubmitInv => SubmittedOnce
  <2> SUFFICES ASSUME ReviewTypes, SubmitInv, NEW d \in 1 .. day, NEW g \in Category
               PROVE  Cardinality({i \in DOMAIN submissions :
                                     /\ submissions[i].category = g
                                     /\ Week(submissions[i].created) = Week(d)})
                         <= WEEKLY_CATEGORY_LIMITS[g]
    BY DEF SubmittedOnce, SubmitInv, Limited
  <2>1. d \in Nat
    BY LedgerAssumption DEF ReviewTypes, ContributionTypeOK, LedgerTypeOK
  <2>2. Week(d) \in Nat
    BY <2>1, Weeks
  <2> QED
    BY <2>2 DEF SubmitInv, Limited, SubmittedIn
<1> QED
  BY <1>1, SubmitInductive, PTL

-----------------------------------------------------------------------------
(* One request at a time the contributions implement the abstract desk.    *)
LEMMA OwedNothing ==
    ASSUME \A b \in Call : ~Unawarded(b)
    PROVE  Owed = {}
BY DEF Owed

LEMMA OwedOne ==
    ASSUME NEW c \in Call, Unawarded(c), \A b \in Call : b # c => ~Unawarded(b)
    PROVE  Owed = {review[c].want}
BY DEF Owed

LEMMA OwedNothingNext == (\A b \in Call : ~Unawarded(b)') => Owed' = {}
<1>1. Owed' = {review'[x].want : x \in {b \in Call : Unawarded(b)'}}
  BY DEF Owed, Unawarded, Returned
<1> QED
  BY <1>1

LEMMA OwedOneNext ==
    ASSUME NEW c \in Call, Unawarded(c)', \A b \in Call : b # c => ~Unawarded(b)'
    PROVE  Owed' = {review'[c].want}
<1>1. Owed' = {review'[x].want : x \in {b \in Call : Unawarded(b)'}}
  BY DEF Owed, Unawarded, Returned
<1>2. {b \in Call : Unawarded(b)'} = {c}
  OBVIOUS
<1> QED
  BY <1>1, <1>2

(* The entries of the desk after a submission and after a verdict.         *)
LEMMA EntryHanded ==
    ASSUME submissions \in Seq(Submission), NEW s \in Submission,
           s.status = "pending" /\ s.points = 0, submissions' = Append(submissions, s)
    PROVE  Entries' = Append(Entries, Desk!Waiting)
<1> DEFINE n == Len(submissions)
           Entry(x) == [verdict |-> x.status, award |-> x.points]
           V == {Entry(x) : x \in Submission}
<1>1. n \in Nat /\ DOMAIN submissions = 1 .. n /\ \A i \in 1 .. n : submissions[i] \in Submission
  BY ElementOfSeq, LenProperties
<1>2. Entries = [i \in 1 .. n |-> Entry(submissions[i])]
  BY <1>1 DEF Entries
<1>3. Entries \in Seq(V) /\ Len(Entries) = n
  <2>1. Entries \in [1 .. n -> V]
    BY <1>1, <1>2
  <2> HIDE DEF V, n
  <2> QED
    BY <1>1, <2>1
<1>4. Entry(s) = Desk!Waiting
  BY DEF Desk!Waiting
<1>5. /\ DOMAIN submissions' = 1 .. n \union {n + 1}
      /\ submissions'[n + 1] = s
      /\ \A i \in 1 .. n : submissions'[i] = submissions[i]
  BY <1>1, AppendedTypes
<1>6. Entries' = [i \in 1 .. n + 1 |-> Entry(submissions'[i])]
  <2>1. 1 .. n \union {n + 1} = 1 .. n + 1
    BY <1>1
  <2> QED
    BY <1>5, <2>1 DEF Entries
<1> HIDE DEF Entry, n, V
<1>7. \A i \in 1 .. n + 1 : i \in 1 .. n \/ i = n + 1
  BY <1>1
<1>8. \A i \in 1 .. n : i # n + 1
  BY <1>1
<1>9. Append(Entries, Entry(s)) = [i \in 1 .. n + 1 |-> IF i = n + 1 THEN Entry(s) ELSE Entries[i]]
  <2> DEFINE A == Append(Entries, Entry(s))
  <2>1. Entry(s) \in V
    BY DEF V
  <2>2. A \in Seq(V) /\ Len(A) = n + 1 /\ A[n + 1] = Entry(s)
        /\ \A i \in 1 .. n : A[i] = Entries[i]
    BY <1>3, <2>1, AppendProperties
  <2> HIDE DEF A
  <2>3. A = [i \in 1 .. n + 1 |-> A[i]]
    BY <2>2, LenProperties
  <2> QED
    BY <1>7, <1>8, <2>2, <2>3 DEF A
<1>10. \A i \in 1 .. n + 1 :
          Entry(submissions'[i]) = IF i = n + 1 THEN Entry(s) ELSE Entries[i]
  BY <1>2, <1>5, <1>7, <1>8
<1> QED
  BY <1>4, <1>6, <1>9, <1>10

LEMMA EntryDecided ==
    ASSUME RecordsOK, LedgerTypeOK, AloneInv, NEW c \in Call, review[c].step = "update",
           StoreEntity(review[c])
    PROVE  LET r == review[c] IN
           /\ r.id \in DOMAIN Entries /\ Entries[r.id] = Desk!Waiting
           /\ Entries' = [Entries EXCEPT ![r.id] =
                  [verdict |-> r.status, award |-> IF r.status = "approved" THEN r.want ELSE 0]]
           /\ r.status \in {"approved", "rejected"}
<1> DEFINE r == review[c]
           p == IF r.status = "approved" THEN r.want ELSE 0
<1>1. /\ DOMAIN submissions' = DOMAIN submissions /\ r.id \in DOMAIN submissions
      /\ \A i \in DOMAIN submissions : i # r.id => submissions'[i] = submissions[i]
      /\ submissions'[r.id].status = r.status
      /\ submissions'[r.id].points = p
      /\ submissions[r.id].status = "pending" /\ r.status # "pending"
  BY StoresVerdict
<1>2. submissions[r.id].points = 0
  BY <1>1 DEF AloneInv, Dated
<1>3. r.status \in {"approved", "rejected"}
  BY <1>1 DEF RecordsOK, ReviewRequest, Status
<1> HIDE DEF r, p
<1>4. r.id \in DOMAIN Entries /\ Entries[r.id] = Desk!Waiting
  BY <1>1, <1>2 DEF Entries, Desk!Waiting
<1>5. Entries' = [Entries EXCEPT ![r.id] = [verdict |-> r.status, award |-> p]]
  BY <1>1 DEF Entries
<1> QED
  BY <1>3, <1>4, <1>5 DEF r, p

LEMMA DeskActs ==
    ASSUME Crowd = 1, RecordsOK, LedgerTypeOK, WantsInRange, AloneInv, NEW c \in Call, Acts(c)
    PROVE  Desk!DeskNext \/ UNCHANGED Desk!deskVars
<1> DEFINE r == review[c]
           s == review'[c]
<1>1. r \in ReviewRequest /\ review \in [Call -> ReviewRequest] /\ submissions \in Seq(Submission)
  BY DEF RecordsOK
<1>2. Shown' = Shown
  BY ActsKeepTable DEF Shown
<1>3. \A b \in Call : b # c => ~Unawarded(b) /\ ~Unawarded(b)'
  <2>1. \A b \in Call : b # c => ~Busy(b) /\ review'[b] = review[b]
    BY ActsAlone
  <2> QED
    BY <2>1 DEF Unawarded, Busy
<1>4. ~Unawarded(c) => Owed = {}
  BY <1>3, OwedNothing
<1>5. ~Unawarded(c)' => Owed' = {}
  BY <1>3, OwedNothingNext
<1>6. ASSUME Finish(c) PROVE Owed' = {}
  <2>1. s.step = "over"
    BY <1>6, Finished
  <2> QED
    BY <1>5, <2>1 DEF Unawarded
<1>7. CASE UpdateSubmission(c)
  <2>1. r.step = "update" /\ StoreEntity(r) /\ Owed = {}
    BY <1>4, <1>7 DEF UpdateSubmission, Stands, Unawarded
  <2>2. /\ r.id \in DOMAIN Entries /\ Entries[r.id] = Desk!Waiting
        /\ r.status \in {"approved", "rejected"}
        /\ Entries' = [Entries EXCEPT ![r.id] =
              [verdict |-> r.status, award |-> IF r.status = "approved" THEN r.want ELSE 0]]
    BY <2>1, EntryDecided
  <2>3. CASE r.status = "approved"
    <3>1. Move(c, "award") /\ Add(c, CommunityGain(r.want))
      BY <1>7, <2>3 DEF UpdateSubmission
    <3>2. s.step = "award" /\ s.want = r.want
      BY <1>1, <3>1 DEF Move, ReviewRequest
    <3>3. access'[c].step = "read"
      BY <3>1, Begun DEF Add
    <3>4. Owed' = {r.want}
      BY <1>3, <3>2, <3>3, OwedOneNext DEF Unawarded, Returned
    <3>5. r.want \in Points
      BY <2>1, <2>3 DEF WantsInRange, Deciding
    <3>6. Desk!Accept(r.id, r.want)
      BY <1>2, <2>1, <2>2, <2>3, <3>4 DEF Desk!Accept, Desk!Decide
    <3> QED
      BY <2>2, <3>5, <3>6 DEF Desk!DeskNext
  <2>4. CASE r.status = "rejected"
    <3>1. Owed' = {}
      BY <1>6, <1>7, <2>4 DEF UpdateSubmission
    <3>2. Desk!Refuse(r.id)
      BY <1>2, <2>1, <2>2, <2>4, <3>1 DEF Desk!Refuse, Desk!Decide
    <3> QED
      BY <2>2, <3>2 DEF Desk!DeskNext
  <2> QED
    BY <2>2, <2>3, <2>4
<1>8. CASE Create(c)
  <2>1. /\ r.step = "create" /\ Finish(c)
        /\ submissions' = Append(submissions, Pending(r.link, r.category, day))
    BY <1>8 DEF Create, Stands
  <2>2. Owed = {} /\ Owed' = {}
    BY <1>4, <1>6, <2>1 DEF Unawarded
  <2>3. /\ Pending(r.link, r.category, day) \in Submission
        /\ Pending(r.link, r.category, day).status = "pending"
        /\ Pending(r.link, r.category, day).points = 0
    <3>1. day \in Nat /\ r.link \in Link /\ r.category \in Category
      BY <1>1, LedgerAssumption DEF LedgerTypeOK, ReviewRequest
    <3> QED
      BY <3>1, ReviewRecords DEF Pending
  <2>4. Entries' = Append(Entries, Desk!Waiting)
    BY <1>1, <2>1, <2>3, EntryHanded
  <2>5. Desk!Hand
    BY <1>2, <2>2, <2>4 DEF Desk!Hand
  <2> QED
    BY <2>5 DEF Desk!DeskNext
<1>9. CASE ~UpdateSubmission(c) /\ ~Create(c)
  <2>1. submissions' = submissions
    BY <1>9 DEF Acts, Submit, Limit, Approve, Caps, Reject, FindById, SelectSubmission,
                Awarded, SwapAward, Break
  <2>2. Entries' = Entries
    BY <2>1 DEF Entries
  <2>3. Owed' = {}
    <3>1. ASSUME s.step = "award" PROVE FALSE
      <4>1. r.step = "update"
        BY <3>1, Decides
      <4>2. Break(c)
        BY <1>9, <4>1 DEF Acts, Submit, Limit, Approve, Caps, Reject, FindById,
               SelectSubmission, Awarded, SwapAward, Stands
      <4> QED
        BY <3>1, <4>2, Finished DEF Break
    <3> QED
      BY <1>5, <3>1 DEF Unawarded
  <2>4. CASE Owed = {}
    BY <1>2, <2>2, <2>3, <2>4 DEF Desk!deskVars
  <2>5. CASE Owed # {}
    <3>1. Desk!Forfeit
      BY <1>2, <2>2, <2>3, <2>5 DEF Desk!Forfeit
    <3> QED
      BY <3>1 DEF Desk!DeskNext
  <2> QED
    BY <2>4, <2>5
<1> QED
  BY <1>7, <1>8, <1>9

LEMMA LongIsNotEmpty ==
    ASSUME NEW R, Len(R) = 1
    PROVE  R # <<>>
OBVIOUS

LEMMA DeskStatement ==
    ASSUME RecordsOK, LedgerTypeOK, AloneInv, NEW c \in Call, Statement(c)
    PROVE  Desk!DeskNext \/ UNCHANGED Desk!deskVars
<1>1. LedgerStep(c) /\ UNCHANGED <<submissions, review>>
  BY DEF Statement
<1>2. /\ review[c].step \in {"points", "award", "swap"} /\ Errand(c)
      /\ access[c].step \in {"read", "create", "reload", "write"}
      /\ \A b \in Call : b # c => ~Busy(b) /\ access[b].step = "none"
  BY <1>1, CallAlone
<1>3. Entries' = Entries
  BY <1>1 DEF Entries
<1>4. \A b \in Call : b # c => ~Unawarded(b) /\ ~Unawarded(b)'
  BY <1>1, <1>2 DEF Unawarded, Busy
<1>5. Undisturbed /\ rows \in Seq(Row) /\ \A b \in Call : b # c => access[b].step = "none"
  BY <1>2 DEF AloneInv, LedgerTypeOK, Row
<1>6. "communityPoints" \in Column
  BY DEF Column, Lifetime, Part
<1>7. Unawarded(c) <=> review[c].step = "award"
  BY <1>2 DEF Unawarded, Returned
<1>8. CASE access[c].step # "write"
  <2>1. rows' = rows \/ (rows = <<>> /\ Len(rows') = 1 /\ rows'[1] = Blank)
    BY <1>1, <1>5, <1>8, LedgerMovesAlone
  <2>2. Shown' = Shown
    <3>1. CASE rows' = rows
      BY <3>1 DEF Shown
    <3>2. CASE rows = <<>> /\ Len(rows') = 1 /\ rows'[1] = Blank
      <4>1. Blank["communityPoints"] = 0
        BY <1>6 DEF Blank
      <4>2. rows' # <<>>
        BY <3>2
      <4> QED
        BY <3>2, <4>1, <4>2 DEF Shown
    <3> QED
      BY <2>1, <3>1, <3>2
  <2>3. Owed' = Owed
    <3>1. CASE review[c].step = "award"
      <4>1. access[c].saves
        BY <1>2, <1>7, <3>1 DEF Errand, Unawarded
      <4>2. access'[c].step \in {"create", "reload", "write"}
        BY <1>1, <1>8, <4>1, LedgerMoves
      <4>3. Unawarded(c) /\ Unawarded(c)'
        BY <1>1, <1>7, <3>1, <4>2 DEF Unawarded, Returned
      <4>4. Owed = {review[c].want} /\ Owed' = {review'[c].want}
        BY <1>4, <4>3, OwedOne, OwedOneNext
      <4> QED
        BY <1>1, <4>4
    <3>2. CASE review[c].step # "award"
      <4>1. ~Unawarded(c) /\ ~Unawarded(c)'
        BY <1>1, <3>2 DEF Unawarded
      <4> QED
        BY <1>4, <4>1, OwedNothing, OwedNothingNext
    <3> QED
      BY <3>1, <3>2
  <2> QED
    BY <1>3, <2>2, <2>3 DEF Desk!deskVars
<1>9. CASE access[c].step = "write"
  <2>1. /\ rows # <<>> /\ Len(rows') = 1
        /\ rows'[1] = Plus(rows[1], access[c].gain)
        /\ access'[c].step = "done"
    BY <1>1, <1>5, <1>9, LedgerMoves, LedgerMovesAlone
  <2>2. Owed' = {}
    <3>1. ~Unawarded(c)'
      BY <2>1 DEF Unawarded, Returned
    <3> QED
      BY <1>4, <3>1, OwedNothingNext
  <2>3. rows[1]["communityPoints"] \in Nat
    <3>1. rows[1] \in Row
      BY <1>5, <2>1, OneRow DEF Undisturbed
    <3> QED
      BY <1>6, <3>1 DEF Row
  <2>4. /\ Shown = rows[1]["communityPoints"]
        /\ Shown' = rows[1]["communityPoints"] + access[c].gain["communityPoints"]
    <3>1. rows' # <<>>
      BY <2>1, LongIsNotEmpty
    <3>2. rows'[1]["communityPoints"]
             = rows[1]["communityPoints"] + access[c].gain["communityPoints"]
      BY <1>6, <2>1 DEF Plus
    <3> QED
      BY <2>1, <3>1, <3>2 DEF Shown
  <2>5. CASE review[c].step = "award"
    <3>1. access[c].gain = CommunityGain(review[c].want)
      BY <1>2, <1>7, <2>5 DEF Errand, Unawarded
    <3>2. access[c].gain["communityPoints"] = review[c].want
      BY <1>6, <3>1 DEF CommunityGain, Gain
    <3>3. Owed = {review[c].want}
      BY <1>4, <1>7, <2>5, OwedOne
    <3>4. Desk!Pay
      BY <1>3, <2>2, <2>4, <3>2, <3>3 DEF Desk!Pay
    <3> QED
      BY <3>4 DEF Desk!DeskNext
  <2>6. CASE review[c].step = "swap"
    <3>1. PICK n \in SwapPoints : access[c].gain = SwapGain(n)
      BY <1>2, <1>9, <2>6 DEF Errand, Returned
    <3>2. access[c].gain["communityPoints"] = 0
      BY <1>6, <3>1 DEF SwapGain, Gain
    <3>3. Shown' = Shown
      BY <2>3, <2>4, <3>2
    <3>4. Owed = {}
      BY <1>4, <1>7, <2>6, OwedNothing
    <3> QED
      BY <1>3, <2>2, <3>3, <3>4 DEF Desk!deskVars
  <2>7. review[c].step # "points"
    BY <1>2, <1>9 DEF Errand
  <2> QED
    BY <1>2, <2>5, <2>6, <2>7
<1> QED
  BY <1>8, <1>9

(* One request at a time, over any midnights and failures: a submission is *)
(* reviewed once and its verdict is final, its award is added to the row   *)
(* at most once and whole, and nothing else changes the community points   *)
(* (contributions.controller.ts:451, 504).                                 *)
THEOREM ContributionsImplementDesk == Crowd = 1 => (ContributionSpec => ImplementsDesk)
<1> SUFFICES ASSUME Crowd = 1 PROVE ContributionSpec => ImplementsDesk
  OBVIOUS
<1>1. ContributionInit => Desk!DeskInit
  <2> SUFFICES ASSUME ContributionInit PROVE Desk!DeskInit
    OBVIOUS
  <2>1. \A c \in Call : ~Unawarded(c)
    BY DEF ContributionInit, IdleReview, Unawarded
  <2>2. Owed = {}
    BY <2>1, OwedNothing
  <2>3. Shown = 0
    <3>1. Blank["communityPoints"] = 0 /\ <<Blank>> # <<>> /\ <<Blank>>[1] = Blank
      BY DEF Blank, Column, Lifetime, Part
    <3>2. rows = <<>> \/ rows = <<Blank>>
      BY DEF ContributionInit, LedgerInit
    <3> QED
      BY <3>1, <3>2 DEF Shown
  <2>4. Entries = [i \in 1 .. Len(Entries) |-> Desk!Waiting]
    <3>1. PICK g \in Category : \E n \in 0 .. WEEKLY_CATEGORY_LIMITS[g] :
             \E l \in [1 .. n -> Link] : submissions = [i \in 1 .. n |-> Pending(l[i], g, 0)]
      BY DEF ContributionInit
    <3>2. PICK n \in 0 .. WEEKLY_CATEGORY_LIMITS[g] :
             \E l \in [1 .. n -> Link] : submissions = [i \in 1 .. n |-> Pending(l[i], g, 0)]
      BY <3>1
    <3>3. PICK l \in [1 .. n -> Link] : submissions = [i \in 1 .. n |-> Pending(l[i], g, 0)]
      BY <3>2
    <3>4. Entries = [i \in 1 .. n |-> Desk!Waiting]
      BY <3>3 DEF Entries, Desk!Waiting, Pending
    <3>5. n \in Nat
      BY <3>2, ContributionAssumption
    <3>6. Len(Entries) = n
      BY <3>4, <3>5
    <3> QED
      BY <3>4, <3>6
  <2> QED
    BY <2>2, <2>3, <2>4 DEF Desk!DeskInit
<1>2. ReviewTypes /\ AloneInv /\ [ContributionNext]_contributionVars => [Desk!DeskNext]_Desk!deskVars
  <2> SUFFICES ASSUME ReviewTypes, AloneInv, [ContributionNext]_contributionVars
               PROVE  Desk!DeskNext \/ UNCHANGED Desk!deskVars
    OBVIOUS
  <2>1. LedgerTypeOK /\ RecordsOK /\ WantsInRange
    BY TwoHalves DEF ReviewTypes, ContributionTypeOK
  <2>2. ASSUME NEW c \in Call, Acts(c) PROVE Desk!DeskNext \/ UNCHANGED Desk!deskVars
    BY <2>1, <2>2, DeskActs
  <2>3. ASSUME NEW c \in Call, Statement(c) PROVE Desk!DeskNext \/ UNCHANGED Desk!deskVars
    BY <2>1, <2>3, DeskStatement
  <2>4. CASE NextDay \/ UNCHANGED contributionVars
    <3>1. UNCHANGED <<rows, access, submissions, review>>
      BY <2>4 DEF NextDay, Midnight, contributionVars, ledgerVars
    <3>2. Entries' = Entries /\ Shown' = Shown
      BY <3>1 DEF Entries, Shown
    <3>3. Owed' = Owed
      BY <3>1 DEF Owed, Unawarded, Returned
    <3> QED
      BY <3>2, <3>3 DEF Desk!deskVars
  <2> QED
    BY <2>2, <2>3, <2>4 DEF ContributionNext, Acts
<1>3. Crowd = 1 => (ContributionSpec => [](ReviewTypes /\ AloneInv))
  BY AloneInductive
<1> QED
  BY <1>1, <1>2, <1>3, PTL DEF ContributionSpec, ImplementsDesk, Desk!DeskSpec
=============================================================================
