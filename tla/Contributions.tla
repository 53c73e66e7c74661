---------------------------- MODULE Contributions ----------------------------
(* contributions.controller.ts for one wallet: it submits content, and      *)
(* administrators approve or reject it; an approval adds community points   *)
(* to the ledger, which swaps add to as well.  Every await is the end of a  *)
(* step.  Up to Crowd requests are served at once; a crowd of one is what   *)
(* the code does when nothing interferes.                                   *)
EXTENDS PointsLedger, FiniteSets, Functions

CONSTANTS
    Crowd,                            \* requests served at once
    Link,                             \* content links
    WEEKLY_CATEGORY_LIMITS,           \* submissions a week, of each category
    Points,                           \* the range of awards
    Asked,                            \* awards an administrator asks for
    SwapPoints,                       \* awards of the wallet's swaps
    COMMUNITY_POINTS_WEEKLY_CAP,
    COMMUNITY_POINTS_MAX_PERCENTAGE,
    MIN_POINTS_FOR_CAP_ENFORCEMENT

Category == DOMAIN WEEKLY_CATEGORY_LIMITS

ASSUME ContributionAssumption ==
    /\ Crowd \in Nat \ {0} /\ Link # {} /\ Category # {}
    /\ WEEKLY_CATEGORY_LIMITS \in [Category -> Nat]
    /\ Points \subseteq Nat \ {0} /\ Asked \subseteq Nat /\ Asked # {}
    /\ SwapPoints \subseteq Nat
    /\ COMMUNITY_POINTS_WEEKLY_CAP \in Nat
    /\ COMMUNITY_POINTS_MAX_PERCENTAGE \in 0 .. 100
    /\ MIN_POINTS_FOR_CAP_ENFORCEMENT \in Nat

(* Up to any state only finitely many requests have been made. *)
ASSUME FinitelyMany == IsFiniteSet(Call)

VARIABLES
    submissions,  \* contribution_submissions of the wallet, in any order
    review        \* the requests: where they are, the submission or the
                  \* link they are about, and the entity updateStatus saves

contributionVars == <<ledgerVars, submissions, review>>

Status == {"pending", "approved", "rejected"}
Submission == [link : Link, category : Category, created : Nat,
               status : Status, points : Points \union {0}, reviewed : Nat]
SubmissionField == {"link", "category", "created", "status", "points", "reviewed"}
ReviewStep == {"new", "limit", "create", "points", "find", "select", "update",
               "award", "swap", "over"}
ReviewRequest == [step : ReviewStep, id : Nat, link : Link, category : Category,
                  status : Status, want : Asked, entity : Submission,
                  changed : SUBSET SubmissionField]

Pending(l, g, d) == [link |-> l, category |-> g, created |-> d,
                     status |-> "pending", points |-> 0, reviewed |-> 0]

SomeLink == CHOOSE l \in Link : TRUE
SomeCategory == CHOOSE g \in Category : TRUE
IdleReview(step) == [step |-> step, id |-> 0, link |-> SomeLink, category |-> SomeCategory,
                     status |-> "pending", want |-> CHOOSE p \in Asked : TRUE,
                     entity |-> Pending(SomeLink, SomeCategory, 0), changed |-> {}]

(* Some links were submitted last week and wait for a review. *)
ContributionInit ==
    /\ LedgerInit
    /\ \E g \in Category : \E n \in 0 .. WEEKLY_CATEGORY_LIMITS[g] :
          \E l \in [1 .. n -> Link] :
             /\ \A i, j \in 1 .. n : l[i] = l[j] => i = j
             /\ submissions = [i \in 1 .. n |-> Pending(l[i], g, 0)]
    /\ review = [c \in Call |-> IdleReview("new")]

Stands(c, step) == review[c].step = step
Move(c, step) == review' = [review EXCEPT ![c].step = step]
Finish(c) == review' = [review EXCEPT ![c] = IdleReview("over")] /\ Leave(c)
Turn == Cardinality({c \in Call : review[c].step \notin {"new", "over"}}) < Crowd
Week(d) == d \div WEEK
Table == <<day, rows, due>>

-----------------------------------------------------------------------------
(* POST contributions/submit: the link must be new to the wallet. *)
Submit(c) ==
    /\ Stands(c, "new") /\ Turn
    /\ \E l \in Link, g \in Category :
          /\ \A i \in DOMAIN submissions : submissions[i].link # l
          /\ review' = [review EXCEPT ![c].step = "limit", ![c].link = l, ![c].category = g]
    /\ UNCHANGED <<Table, access, submissions>>

countByWalletCategoryThisWeek(g) ==
    Cardinality({i \in DOMAIN submissions :
        submissions[i].category = g /\ Week(submissions[i].created) >= Week(day)})

(* Mutant: one more than the limit. *)
ReachedAbove(g) == countByWalletCategoryThisWeek(g) > WEEKLY_CATEGORY_LIMITS[g]

hasReachedWeeklyLimit(g) == countByWalletCategoryThisWeek(g) >= WEEKLY_CATEGORY_LIMITS[g]

Limit(c) ==
    /\ Stands(c, "limit")
    /\ IF hasReachedWeeklyLimit(review[c].category)
         THEN Finish(c)
         ELSE Move(c, "create") /\ UNCHANGED access
    /\ UNCHANGED <<Table, submissions>>

(* The user's row is created before it; nothing here depends on that. *)
Create(c) ==
    /\ Stands(c, "create")
    /\ submissions' = Append(submissions, Pending(review[c].link, review[c].category, day))
    /\ Finish(c)
    /\ UNCHANGED Table

-----------------------------------------------------------------------------
(* Mutant: a reviewed submission can be approved. *)
ApproveAgain(c) ==
    /\ Stands(c, "new") /\ Turn
    /\ \E i \in DOMAIN submissions, p \in Asked \intersect Points :
          /\ review' = [review EXCEPT ![c].step = "points", ![c].id = i,
                                      ![c].status = "approved", ![c].want = p]
    /\ GetOrCreate(c)
    /\ UNCHANGED <<Table, submissions>>

(* POST admin/contributions/:id/approve: a pending submission is read, and *)
(* then the wallet's points.                                               *)
Approve(c) ==
    /\ Stands(c, "new") /\ Turn
    /\ \E i \in DOMAIN submissions, p \in Asked \intersect Points :
          /\ submissions[i].status = "pending"
          /\ review' = [review EXCEPT ![c].step = "points", ![c].id = i,
                                      ![c].status = "approved", ![c].want = p]
    /\ GetOrCreate(c)
    /\ UNCHANGED <<Table, submissions>>

Approved == {i \in DOMAIN submissions : submissions[i].status = "approved"}
PointsOf(S) == SumFunctionOnSet([i \in DOMAIN submissions |-> submissions[i].points], S)

(* Mutant: what was submitted this week is counted. *)
ApprovedOfThisWeeksSubmissions ==
    PointsOf({i \in Approved : Week(submissions[i].created) >= Week(day)})

getApprovedPointsThisWeek ==
    PointsOf({i \in Approved : Week(submissions[i].reviewed) >= Week(day)})

(* Mutant: the award is left out of the projection. *)
ShareNotProjected(row, p) ==
    /\ row.totalPoints >= MIN_POINTS_FOR_CAP_ENFORCEMENT
    /\ row.communityPoints * 100 > COMMUNITY_POINTS_MAX_PERCENTAGE * row.totalPoints

ExceedsShare(row, p) ==
    /\ row.totalPoints + p >= MIN_POINTS_FOR_CAP_ENFORCEMENT
    /\ (row.communityPoints + p) * 100
          > COMMUNITY_POINTS_MAX_PERCENTAGE * (row.totalPoints + p)

(* Mutant: the points are awarded before the status is saved. *)
CapsAwardingFirst(c) ==
    LET p == review[c].want IN
    /\ Stands(c, "points") /\ Returned(c)
    /\ IF p > COMMUNITY_POINTS_WEEKLY_CAP - getApprovedPointsThisWeek
            \/ ExceedsShare(access[c].record, p)
         THEN Finish(c)
         ELSE Move(c, "find") /\ Add(c, CommunityGain(p))
    /\ UNCHANGED <<Table, submissions>>

(* Both caps, with the row read before and the sum read now. *)
Caps(c) ==
    LET p == review[c].want IN
    /\ Stands(c, "points") /\ Returned(c)
    /\ IF p > COMMUNITY_POINTS_WEEKLY_CAP - getApprovedPointsThisWeek
            \/ ExceedsShare(access[c].record, p)
         THEN Finish(c)
         ELSE Move(c, "find") /\ Leave(c)
    /\ UNCHANGED <<Table, submissions>>

(* POST admin/contributions/:id/reject. *)
Reject(c) ==
    /\ Stands(c, "new") /\ Turn
    /\ \E i \in DOMAIN submissions :
          /\ submissions[i].status = "pending"
          /\ review' = [review EXCEPT ![c].step = "find", ![c].id = i, ![c].status = "rejected"]
    /\ UNCHANGED <<Table, access, submissions>>

(* updateStatus: the entity is read again and changed in memory, whatever  *)
(* its status is now; save selects the row and updates what differs.       *)
FindById(c) ==
    LET r == review[c]  s == submissions[r.id] IN
    /\ Stands(c, "find")
    /\ review' = [review EXCEPT ![c].step = "select", ![c].entity =
          [s EXCEPT !.status = r.status, !.reviewed = day,
                    !.points = IF r.status = "approved" THEN r.want ELSE @]]
    /\ UNCHANGED <<Table, access, submissions>>

SelectSubmission(c) ==
    LET r == review[c] IN
    /\ Stands(c, "select")
    /\ review' = [review EXCEPT ![c].step = "update", ![c].changed =
          {f \in DOMAIN r.entity : r.entity[f] # submissions[r.id][f]}]
    /\ UNCHANGED <<Table, access, submissions>>

StoreEntity(r) ==
    submissions' = [submissions EXCEPT ![r.id] =
        [f \in DOMAIN @ |-> IF f \in r.changed THEN r.entity[f] ELSE @[f]]]

(* The points are awarded after the status is saved. *)
UpdateSubmission(c) ==
    LET r == review[c] IN
    /\ Stands(c, "update")
    /\ StoreEntity(r)
    /\ IF r.status = "approved"
         THEN Move(c, "award") /\ Add(c, CommunityGain(r.want))
         ELSE Finish(c)
    /\ UNCHANGED Table

Awarded(c) ==
    /\ review[c].step \in {"award", "swap"} /\ Returned(c)
    /\ Finish(c)
    /\ UNCHANGED <<Table, submissions>>

-----------------------------------------------------------------------------
(* The wallet's swaps, as far as they change the ledger (PointsService). *)
SwapAward(c) ==
    /\ Stands(c, "new") /\ Turn
    /\ Move(c, "swap")
    /\ \E n \in SwapPoints : Add(c, SwapGain(n))
    /\ UNCHANGED <<Table, submissions>>

(* An await throws, or the replica stops: nothing is undone. *)
Break(c) ==
    /\ ~Stands(c, "new") /\ ~Stands(c, "over")
    /\ Finish(c)
    /\ UNCHANGED <<Table, submissions>>

Statement(c) == LedgerStep(c) /\ UNCHANGED <<submissions, review>>

NextDay == Midnight /\ UNCHANGED <<submissions, review>>

ContributionNext ==
    \/ \E c \in Call :
          \/ Submit(c) \/ Limit(c) \/ Create(c)
          \/ Approve(c) \/ Caps(c) \/ Reject(c)
          \/ FindById(c) \/ SelectSubmission(c) \/ UpdateSubmission(c) \/ Awarded(c)
          \/ SwapAward(c) \/ Statement(c) \/ Break(c)
    \/ NextDay

ContributionSpec == ContributionInit /\ [][ContributionNext]_contributionVars

-----------------------------------------------------------------------------
(* Properties *)

ContributionTypeOK ==
    /\ LedgerTypeOK
    /\ submissions \in Seq(Submission)
    /\ review \in [Call -> ReviewRequest]
    /\ \A c \in Call : review[c].step \in {"points", "find", "select", "update"} =>
          review[c].id \in DOMAIN submissions

(* "Upon approval, community points are awarded to the user"                *)
(* (contribution-submission.entity.ts:37): the row never shows more         *)
(* community points than the approved submissions say, whichever call       *)
(* failed between the two tables.                                           *)
CommunityBacked ==
    \A i \in DOMAIN rows : rows[i].communityPoints <= PointsOf(Approved)

(* "Weekly cap: 2,000 community points per wallet per week"                 *)
(* (contribution-submission.entity.ts:48), over midnights between the check *)
(* and the save.                                                            *)
WeeklyCap ==
    \A d \in 1 .. day :
        PointsOf({i \in Approved : Week(submissions[i].reviewed) = Week(d)})
            <= COMMUNITY_POINTS_WEEKLY_CAP

(* A link is submitted once, and a category within its limit of the week.   *)
SubmittedOnce ==
    /\ \A i, j \in DOMAIN submissions : submissions[i].link = submissions[j].link => i = j
    /\ \A d \in 1 .. day, g \in Category :
          Cardinality({i \in DOMAIN submissions :
              /\ submissions[i].category = g
              /\ Week(submissions[i].created) = Week(d)}) <= WEEKLY_CATEGORY_LIMITS[g]

(* "Max 30% of total wallet points from community contributions"            *)
(* (contribution-submission.entity.ts:49): no award brings a wallet above   *)
(* it that has enough points for the cap to be enforced.                    *)
ShareCapKept ==
    [][\A i \in DOMAIN rows :
          rows'[i].communityPoints > rows[i].communityPoints
            /\ rows'[i].totalPoints >= MIN_POINTS_FOR_CAP_ENFORCEMENT
          => rows'[i].communityPoints * 100
                <= COMMUNITY_POINTS_MAX_PERCENTAGE * rows'[i].totalPoints]_contributionVars

-----------------------------------------------------------------------------
(* One request at a time the contributions implement the abstract desk.    *)
(* An award is owed between the UPDATE of its submission and that of the   *)
(* wallet's row.                                                           *)
Unawarded(c) == review[c].step = "award" /\ ~Returned(c)

Entries == [i \in DOMAIN submissions |->
              [verdict |-> submissions[i].status, award |-> submissions[i].points]]
Owed == {review[c].want : c \in {b \in Call : Unawarded(b)}}
Shown == IF rows = <<>> THEN 0 ELSE rows[1].communityPoints

Desk == INSTANCE ReviewDesk WITH desk <- Entries, owed <- Owed, paid <- Shown

(* A submission is reviewed once ("Submission has already been reviewed",  *)
(* contributions.controller.ts:451), its award is added to the wallet's    *)
(* row at most once and whole, and nothing else, no swap and no failed     *)
(* call, changes the row's community points.                               *)
ImplementsDesk == Desk!DeskSpec
=============================================================================
