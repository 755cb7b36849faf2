-------------------------------- MODULE Reviews --------------------------------
(***************************************************************************)
(* Reviews of venues and of coaches (apps/api/src/reviews): the service,   *)
(* the forms in a player's list of bookings (apps/web/components/          *)
(* review-form.tsx, booking-list.tsx), and the public page of a venue or a *)
(* coach, which shows an average, a count and the latest reviews.  The two *)
(* come from two queries.                                                  *)
(***************************************************************************)
EXTENDS FiniteSets, Integers
SetsExt == INSTANCE FiniteSetsExt

CONSTANTS
  Completed,   \* bookings, of courts and of coaches, that may complete
  Reviewed,    \* the venue or coach that a booking is of
  WithForm,    \* the bookings of courts: no page has a form for the others
  Stars,       \* ratings a request may carry
  Reviewer,    \* API requests in flight at one time
  Subject,     \* the venue or coach whose page is open
  LatestRows   \* limit of the list: 20

ASSUME ReviewAssumption ==
  /\ Stars \subseteq Int /\ LatestRows \in Nat
  /\ IsFiniteSet(Completed) /\ WithForm \subseteq Completed

VARIABLES
  done,     \* the bookings that are COMPLETED
  review,   \* reviews.rating by booking, 0 without a row
  writing,  \* what each request in flight remembers
  form,     \* the form of each booking
  unseen,   \* history: bookings whose review their form was not told of
  summary,  \* what the page being rendered has read of the rating, ...
  latest,   \* ... and of the list
  badge,    \* what the page shows
  between   \* history: reviews written between the two queries

serverReviewVars == <<done, review>>
reviewPageVars == <<summary, latest, badge, between>>
reviewVars == <<serverReviewVars, writing, form, unseen, reviewPageVars>>

NoRequest == [at |-> "none"]
NotRead == [at |-> "none"]
FormState == {"none", "ready", "pending", "error", "done"}

ReviewRequest == [at : {"check", "create", "answer"}, booking : Completed, stars : Stars, clicked : BOOLEAN]

ReviewTypeOK ==
  /\ done \subseteq Completed
  /\ review \in [Completed -> 0 .. 5]
  /\ writing \in [Reviewer -> {NoRequest} \cup ReviewRequest]
  /\ form \in [Completed -> FormState]
  /\ unseen \subseteq Completed
  /\ summary = NotRead \/ summary \in [at : {"read"}, count : Nat, average : Int]
  /\ latest = NotRead \/ latest \in [at : {"read"}, rows : SUBSET Completed]
  /\ \/ badge = NotRead
     \/ badge \in [at : {"shown"}, count : Nat, average : Int, rows : SUBSET Completed, between : Nat]
  /\ between \in Nat

ReviewInit ==
  /\ done = {}
  /\ review = [b \in Completed |-> 0]
  /\ writing = [h \in Reviewer |-> NoRequest]
  /\ form = [b \in Completed |-> "none"]
  /\ unseen = {}
  /\ summary = NotRead
  /\ latest = NotRead
  /\ badge = NotRead
  /\ between = 0

---------------------------------------------------------------------------
(* The service, and the forms *)

(* The worker's job completes a booking (CourtBooking, CoachSession).      *)
Complete(b) ==
  /\ b \notin done
  /\ done' = done \cup {b}
  /\ UNCHANGED <<review, writing, form, unseen, reviewPageVars>>

(* The list of bookings is loaded, or refreshed: a completed booking that  *)
(* has no review gets a form, or keeps the one it has.                     *)
LoadBookings ==
  /\ form' = [b \in Completed |->
                IF b \notin WithForm \/ b \notin done \/ review[b] # 0 THEN "none"
                ELSE IF form[b] = "none" THEN "ready" ELSE form[b]]
  /\ UNCHANGED <<serverReviewVars, writing, unseen, reviewPageVars>>

(* onSubmit: the button is disabled until the answer comes.  Another tab,  *)
(* or a client without a form, may send what it likes.                     *)
SubmitReview(h, b, stars, clicked) ==
  /\ writing[h] = NoRequest
  /\ clicked => b \in WithForm /\ form[b] \in {"ready", "error"} /\ stars \in 1 .. 5
  /\ form' = IF clicked THEN [form EXCEPT ![b] = "pending"] ELSE form
  /\ writing' = [writing EXCEPT ![h] = [at |-> "check", booking |-> b, stars |-> stars, clicked |-> clicked]]
  /\ UNCHANGED <<serverReviewVars, unseen, reviewPageVars>>

(* The form of the request shows how it ended, if it is still there.       *)
Ends(h, outcome) ==
  LET b == writing[h].booking
  IN /\ form' = IF writing[h].clicked /\ form[b] = "pending" THEN [form EXCEPT ![b] = outcome] ELSE form
     /\ writing' = [writing EXCEPT ![h] = NoRequest]

(* assertRating and the checks of reviewCoachBooking; reviewCourtBooking   *)
(* does the same.                                                          *)
MayReview(h) ==
  /\ writing[h].stars \in 1 .. 5
  /\ writing[h].booking \in done
  /\ review[writing[h].booking] = 0

CheckReviewed(h) ==
  /\ writing[h].at = "check"
  /\ \/ MayReview(h) /\ writing' = [writing EXCEPT ![h].at = "create"] /\ UNCHANGED form
     \/ ~MayReview(h) /\ Ends(h, "error")
  /\ UNCHANGED <<serverReviewVars, unseen, reviewPageVars>>

OneQueryDone == (summary = NotRead) # (latest = NotRead)

(* The insert: the booking of a review is unique.                          *)
CreateReview(h) ==
  /\ writing[h].at = "create"
  /\ LET b == writing[h].booking
     IN /\ review[b] = 0
        /\ review' = [review EXCEPT ![b] = writing[h].stars]
        /\ unseen' = IF writing[h].clicked THEN unseen ELSE unseen \cup {b}
        /\ between' = IF Reviewed[b] = Subject /\ OneQueryDone THEN between + 1 ELSE between
  /\ writing' = [writing EXCEPT ![h].at = "answer"]
  /\ UNCHANGED <<done, form, summary, latest, badge>>

RefuseDuplicate(h) ==
  /\ writing[h].at = "create"
  /\ review[writing[h].booking] # 0
  /\ Ends(h, "error")
  /\ UNCHANGED <<serverReviewVars, unseen, reviewPageVars>>

AnswerReview(h) ==
  /\ writing[h].at = "answer"
  /\ Ends(h, "done")
  /\ UNCHANGED <<serverReviewVars, unseen, reviewPageVars>>

(* The request dies, or its answer is lost.                                *)
LoseReview(h) ==
  /\ writing[h].at # "none"
  /\ Ends(h, "error")
  /\ unseen' = IF writing[h].at = "answer" THEN unseen \cup {writing[h].booking} ELSE unseen
  /\ UNCHANGED <<serverReviewVars, reviewPageVars>>

---------------------------------------------------------------------------
(* The public page *)

(* Mutant: the rating is of all reviews.                                   *)
CountedEverywhere(s) == {b \in Completed : review[b] # 0}

ReviewsOf(s) == {b \in Completed : Reviewed[b] = s /\ review[b] # 0}

(* round1, in tenths: Math.round rounds a half up.                         *)
Round1(sum, count) == (20 * sum + count) \div (2 * count)

Average(s) ==
  IF ReviewsOf(s) = {} THEN 0
  ELSE Round1(SetsExt!MapThenSumSet(LAMBDA b : review[b], ReviewsOf(s)), Cardinality(ReviewsOf(s)))

(* venueRating and coachRating.  A page that is loaded again replaces the  *)
(* one before.                                                             *)
LoadRating ==
  /\ summary = NotRead
  /\ summary' = [at |-> "read", count |-> Cardinality(ReviewsOf(Subject)), average |-> Average(Subject)]
  /\ between' = IF latest = NotRead THEN 0 ELSE between
  /\ badge' = NotRead
  /\ UNCHANGED <<serverReviewVars, writing, form, unseen, latest>>

(* listVenueReviews and listCoachReviews: the latest, when they are many.  *)
ListOf(s) == {b \in Completed : Reviewed[b] = s /\ review[b] # 0}

LoadLatest ==
  /\ latest = NotRead
  /\ \E rows \in SUBSET ListOf(Subject) :
       /\ Cardinality(rows) <= LatestRows
       /\ rows = ListOf(Subject) \/ Cardinality(rows) = LatestRows
       /\ latest' = [at |-> "read", rows |-> rows]
  /\ between' = IF summary = NotRead THEN 0 ELSE between
  /\ badge' = NotRead
  /\ UNCHANGED <<serverReviewVars, writing, form, unseen, summary>>

ShowReviews ==
  /\ summary # NotRead /\ latest # NotRead
  /\ badge' = [at |-> "shown", count |-> summary.count, average |-> summary.average,
               rows |-> latest.rows, between |-> between]
  /\ summary' = NotRead /\ latest' = NotRead /\ between' = 0
  /\ UNCHANGED <<serverReviewVars, writing, form, unseen>>

(* The page shows no reviews when their call fails.                        *)
LoadReviewsFails ==
  /\ badge = NotRead
  /\ badge' = [at |-> "shown", count |-> 0, average |-> 0, rows |-> {}, between |-> 0]
  /\ summary' = NotRead /\ latest' = NotRead /\ between' = 0
  /\ UNCHANGED <<serverReviewVars, writing, form, unseen>>

ReviewNext ==
  \/ \E b \in Completed : Complete(b)
  \/ LoadBookings
  \/ \E h \in Reviewer :
       \/ \E b \in Completed, stars \in Stars, clicked \in BOOLEAN : SubmitReview(h, b, stars, clicked)
       \/ CheckReviewed(h) \/ CreateReview(h) \/ RefuseDuplicate(h)
       \/ AnswerReview(h) \/ LoseReview(h)
  \/ LoadRating \/ LoadLatest \/ ShowReviews \/ LoadReviewsFails

ReviewSpec == ReviewInit /\ [][ReviewNext]_reviewVars

---------------------------------------------------------------------------
Least(m, n) == IF m < n THEN m ELSE n
Gap(m, n) == IF m < n THEN n - m ELSE m - n

(* Count and list come from two queries: what the page counts and what it  *)
(* lists differ by no more than the reviews written between the two.       *)
CountMatchesTheList ==
  badge.at = "shown" =>
    Gap(Least(badge.count, LatestRows), Cardinality(badge.rows)) <= badge.between

(* The average lies between two reviews of the venue or coach, and is that *)
(* of no reviews only where none are counted.                              *)
AverageIsOfItsReviews ==
  badge.at = "shown" =>
    IF badge.count = 0 THEN badge.average = 0
    ELSE \E low, high \in ListOf(Subject) :
           10 * review[low] <= badge.average /\ badge.average <= 10 * review[high]

(* The page shows one set of reviews, by its count, its list and its       *)
(* average.                                                                *)
PageCountsReviews == CountMatchesTheList /\ AverageIsOfItsReviews

(* A form that thanks for a review has one, of a completed booking, and    *)
(* one that shows an error over a review was not told of it: the answer    *)
(* got lost, or the review came from elsewhere.                            *)
FormTellsTheReview ==
  \A b \in WithForm :
    /\ form[b] = "done" => review[b] # 0 /\ b \in done
    /\ form[b] = "error" /\ review[b] # 0 => b \in unseen
=============================================================================
