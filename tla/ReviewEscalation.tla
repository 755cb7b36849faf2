---------------------------- MODULE ReviewEscalation ----------------------------
(***************************************************************************)
(* The worker's job for overdue reviews (apps/worker/src/                  *)
(* review-escalation.ts), beside the court bookings of CourtBooking.  A    *)
(* proof is due for review ReviewSla after it was handed in; the job looks *)
(* for overdue bookings and then for overdue coaching sessions, a batch    *)
(* each, and commits the notifications of one of them together with its    *)
(* mark.  Coaching sessions are seen as the job sees them: CoachSession    *)
(* has their handlers.                                                     *)
(***************************************************************************)
EXTENDS CourtBooking, FiniteSets

CONSTANTS
  Session,    \* coach bookings
  Staff,      \* members of the business, one business for all courts
  CoachUser,  \* the users behind the coach profiles
  Admin,      \* super admins
  ReviewSla,  \* REVIEW_SLA_MS
  BatchSize,  \* take: 100
  MaxCrashes  \* bound on failed runs

VARIABLES
  session,           \* coach_bookings.status, as far as the job tells it apart
  reviewDueAt,       \* court_bookings and coach_bookings.reviewDueAt
  reviewEscalatedAt, \* whether it is set
  askedAt,           \* the clock submitProof read, by request
  job,               \* the run of the job
  notified,          \* notifications by booking and user
  crashes            \* number of failed runs so far

reviewVars == <<session, reviewDueAt, reviewEscalatedAt, notified>>
jobVars == <<job, crashes>>
allVars == <<vars, reviewVars, askedAt, jobVars>>

Review == Booking \cup Session
User == Staff \cup CoachUser \cup Admin

Resting == [at |-> "rest"]

ReviewInit ==
  /\ Init
  /\ session = [k \in Session |-> "HELD"]
  /\ reviewDueAt = [x \in Review |-> None]
  /\ reviewEscalatedAt = [x \in Review |-> FALSE]
  /\ askedAt = [r \in Request |-> 0]
  /\ job = Resting
  /\ notified = [x \in Review |-> [u \in User |-> 0]]
  /\ crashes = 0

---------------------------------------------------------------------------
(* Court bookings: submitProof computes the due time from the clock of its *)
(* checks and writes it with the status.  Everything else that happens to  *)
(* a booking leaves its review alone.                                      *)

HandIn(r) == \E b \in Booking, p \in Ref : SubmitProof(r, b, p)

ReadClock(r) ==
  /\ HandIn(r)
  /\ askedAt' = [askedAt EXCEPT ![r] = now]
  /\ UNCHANGED <<reviewVars, jobVars>>

WriteDueAt(r) ==
  /\ TransitionStatus(r)
  /\ reviewDueAt' = IF req[r].next = "PROOF_SUBMITTED"
                    THEN [reviewDueAt EXCEPT ![req[r].booking] = askedAt[r] + ReviewSla]
                    ELSE reviewDueAt
  /\ UNCHANGED <<session, reviewEscalatedAt, notified, askedAt, jobVars>>

KeepReviews == UNCHANGED <<reviewVars, askedAt, jobVars>>

OtherStep ==
  /\ Next
  /\ \A r \in Request : ~HandIn(r) /\ ~TransitionStatus(r)
  /\ KeepReviews

(* Coaching sessions: a proof is handed in, and decided.                   *)
SubmitSessionProof(k) ==
  /\ session[k] = "HELD"
  /\ session' = [session EXCEPT ![k] = "PROOF_SUBMITTED"]
  /\ reviewDueAt' = [reviewDueAt EXCEPT ![k] = now + ReviewSla]
  /\ UNCHANGED <<vars, reviewEscalatedAt, notified, askedAt, jobVars>>

DecideSession(k) ==
  /\ session[k] = "PROOF_SUBMITTED"
  /\ session' = [session EXCEPT ![k] = "DECIDED"]
  /\ UNCHANGED <<vars, reviewDueAt, reviewEscalatedAt, notified, askedAt, jobVars>>

---------------------------------------------------------------------------
(* The job *)

UnderReview(x) ==
  IF x \in Booking THEN status[x] = "PROOF_SUBMITTED" ELSE session[x] = "PROOF_SUBMITTED"

Overdue(x, time) ==
  UnderReview(x) /\ reviewDueAt[x] # None /\ reviewDueAt[x] < time

Found(x, time) == Overdue(x, time) /\ ~reviewEscalatedAt[x]

(* Up to BatchSize rows, in no order.                                      *)
Batches(rows, time) ==
  LET found == {x \in rows : Found(x, time)}
  IN {s \in SUBSET found :
        Cardinality(s) = IF Cardinality(found) < BatchSize THEN Cardinality(found) ELSE BatchSize}

(* BullMQ starts one run after another; a run reads the overdue bookings.  *)
FindCourtReviews ==
  /\ job.at = "rest"
  /\ \E batch \in Batches(Booking, now) :
       job' = [at |-> "courts", time |-> now, batch |-> batch]
  /\ UNCHANGED <<vars, reviewVars, askedAt, crashes>>

Recipients(x) == (IF x \in Booking THEN Staff ELSE CoachUser) \cup Admin

(* buildEscalationNotifications: one draft for each recipient.             *)
Drafts(x, u) == IF u \in Recipients(x) THEN 1 ELSE 0

(* Mutant: the notifications are committed without the mark.               *)
EscalateWithoutMark(x) ==
  /\ x \in job.batch
  /\ notified' = [notified EXCEPT ![x] = [u \in User |-> @[u] + Drafts(x, u)]]
  /\ job' = [job EXCEPT !.batch = @ \ {x}]
  /\ UNCHANGED <<vars, session, reviewDueAt, reviewEscalatedAt, askedAt, crashes>>

(* One booking of the batch: notifications and mark in one transaction,    *)
(* whatever became of the booking since it was found.                      *)
Escalate(x) ==
  /\ x \in job.batch
  /\ notified' = [notified EXCEPT ![x] = [u \in User |-> @[u] + Drafts(x, u)]]
  /\ reviewEscalatedAt' = [reviewEscalatedAt EXCEPT ![x] = TRUE]
  /\ job' = [job EXCEPT !.batch = @ \ {x}]
  /\ UNCHANGED <<vars, session, reviewDueAt, askedAt, crashes>>

(* Mutant: without an overdue court booking the run ends.                  *)
FindSessionReviewsAfterCourts ==
  /\ job.at = "courts" /\ job.batch = {}
  /\ IF \E x \in Booking : Overdue(x, now)
     THEN \E batch \in Batches(Session, job.time) :
            job' = [at |-> "coaches", time |-> job.time, batch |-> batch]
     ELSE job' = Resting
  /\ UNCHANGED <<vars, reviewVars, askedAt, crashes>>

FindSessionReviews ==
  /\ job.at = "courts" /\ job.batch = {}
  /\ \E batch \in Batches(Session, job.time) :
       job' = [at |-> "coaches", time |-> job.time, batch |-> batch]
  /\ UNCHANGED <<vars, reviewVars, askedAt, crashes>>

FinishRun ==
  /\ job.at = "coaches" /\ job.batch = {}
  /\ job' = Resting
  /\ UNCHANGED <<vars, reviewVars, askedAt, crashes>>

(* A query fails or the worker dies; a retry, or the next run of the       *)
(* schedule, starts from the beginning.                                    *)
CrashRun ==
  /\ job.at # "rest"
  /\ crashes < MaxCrashes
  /\ crashes' = crashes + 1
  /\ job' = Resting
  /\ UNCHANGED <<vars, reviewVars, askedAt>>

JobStep ==
  \/ FindCourtReviews
  \/ job.at # "rest" /\ \E x \in job.batch : Escalate(x)
  \/ FindSessionReviews
  \/ FinishRun

ReviewNext ==
  \/ \E r \in Request : ReadClock(r) \/ WriteDueAt(r)
  \/ OtherStep
  \/ \E k \in Session : SubmitSessionProof(k) \/ DecideSession(k)
  \/ JobStep
  \/ CrashRun

(* The schedulers of the worker never stop: the two jobs on bookings, and  *)
(* this one, whose runs go on to their next step.                          *)
ReviewSpec ==
  /\ ReviewInit /\ [][ReviewNext]_allVars
  /\ WF_allVars(ExpireStaleHolds /\ KeepReviews)
  /\ WF_allVars(CompletePastBookings /\ KeepReviews)
  /\ WF_allVars(JobStep)

---------------------------------------------------------------------------
(* Nobody is told twice of one overdue review, although runs fail between  *)
(* two bookings and start again from the beginning: the comment on         *)
(* escalateOverdueReviews says "exactly once (reviewEscalatedAt guards     *)
(* re-runs)".  Runs of one worker follow one another.                      *)
NotifiedOnce == \A x \in Review, u \in User : notified[x][u] <= 1

(* A proof that waits beyond its due time is escalated, unless somebody    *)
(* decides it first: neither the court reviews before it nor failed runs   *)
(* keep a coaching session from its turn for ever.                         *)
OverdueReviewEscalates ==
  \A x \in Review :
    (UnderReview(x) /\ reviewDueAt[x] # None /\ reviewDueAt[x] < now)
      ~> (reviewEscalatedAt[x] \/ ~UnderReview(x))
=============================================================================
