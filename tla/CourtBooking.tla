------------------------------ MODULE CourtBooking ------------------------------
(***************************************************************************)
(* The court booking, payment proof, refund and closure handlers of the    *)
(* API (apps/api/src/courts) with the two worker jobs that touch court     *)
(* bookings (apps/worker/src), over the PostgreSQL tables they share.      *)
(*                                                                         *)
(* The database runs at READ COMMITTED and no row is locked before it is   *)
(* read, so a handler is split at every read whose result it uses after    *)
(* another process may have committed: one step for the read, one for the  *)
(* commit of the writes decided by it.  What a request carries from one    *)
(* step to the next is its record in req.                                  *)
(***************************************************************************)
EXTENDS Intervals

CONSTANTS
  Booking,       \* rows of court_bookings that may come to exist
  Ref,           \* (channel, transactionRef) pairs: a submission row each
  Refund,        \* rows of court_refunds that may come to exist
  Request,       \* API requests in flight at one time
  Slot,          \* intervals a player may ask for
  Closure,       \* windows the staff may close
  None,          \* NULL
  HoldDuration,  \* HOLD_DURATION_MS
  RefundWindow,  \* REFUND_WINDOW_MS
  MaxTime        \* bound on the clock

ASSUME ConstantsAssumption ==
  /\ Slot \subseteq Interval /\ Closure \subseteq Interval
  /\ None \notin Slot /\ None \notin Booking
  /\ HoldDuration \in Nat /\ RefundWindow \in Nat /\ MaxTime \in Nat

VARIABLES
  now,          \* the clock the API and the worker read
  status,       \* court_bookings.status, "NONE" while the row does not exist
  slot,         \* court, startsAt and endsAt of the booking
  deadline,     \* court_bookings.proofDeadline
  subBooking,   \* court_payment_submissions.bookingId, by transaction reference
  subStatus,    \* court_payment_submissions.status, "NONE" before the insert
  refBooking,   \* court_refunds.bookingId
  refStatus,    \* court_refunds.status, "NONE" before the insert
  closed,       \* windows of court_closures
  closing,      \* windows whose createClosure holds its court's lock, checked
  req           \* what each API request in flight remembers

bookingVars == <<status, slot, deadline>>
submissionVars == <<subBooking, subStatus>>
refundVars == <<refBooking, refStatus>>
closureVars == <<closed, closing>>
vars == <<now, bookingVars, submissionVars, refundVars, closureVars, req>>

---------------------------------------------------------------------------
(* Types *)

BookingStatus ==
  {"NONE", "HELD", "PROOF_SUBMITTED", "CONFIRMED", "REJECTED", "EXPIRED",
   "CANCELLED", "COMPLETED", "REFUND_REQUESTED"}

Decision == {"APPROVED", "REJECTED"}
ProofStatus == {"NONE", "PENDING"} \cup Decision
RefundStatus == {"NONE", "REQUESTED", "COMPLETED"} \cup Decision

(* The statuses the exclusion constraint and createClosure count.          *)
Blocking == {"HELD", "PROOF_SUBMITTED", "CONFIRMED", "REFUND_REQUESTED"}

(* Where a request stands: the next thing it does to the database.         *)
Idle == [at |-> "idle"]
HoldReq     == [at : {"createHold"}, slot : Slot, deadline : Nat]
ProofReq    == [at : {"submitPayment"}, booking : Booking, ref : Ref]
StatusReq   == [at : {"readStatus", "writeStatus"}, booking : Booking,
                expected : {"HELD", "PROOF_SUBMITTED"},
                next : {"PROOF_SUBMITTED", "CONFIRMED", "REJECTED"}]
RefundReq   == [at : {"createRefundRequest", "venueCancel"}, booking : Booking]
DecisionReq == [at : {"decideRefund"}, refund : Refund, decision : Decision]
PayoutReq   == [at : {"completeRefund"}, refund : Refund]

RequestState ==
  {Idle} \cup HoldReq \cup ProofReq \cup StatusReq \cup RefundReq
         \cup DecisionReq \cup PayoutReq

TypeOK ==
  /\ now \in Nat
  /\ status \in [Booking -> BookingStatus]
  /\ slot \in [Booking -> Slot \cup {None}]
  /\ deadline \in [Booking -> Nat]
  /\ subBooking \in [Ref -> Booking \cup {None}]
  /\ subStatus \in [Ref -> ProofStatus]
  /\ refBooking \in [Refund -> Booking \cup {None}]
  /\ refStatus \in [Refund -> RefundStatus]
  /\ closed \subseteq Closure /\ closing \subseteq Closure
  /\ req \in [Request -> RequestState]

---------------------------------------------------------------------------
(* Helpers *)

ClosedFor(s) == \E w \in closed : Overlap(s, w)

(* Mutant: nobody waits for the lock.                                      *)
NoLock(court) == TRUE

(* The court's advisory lock: createClosure holds it from its check to its *)
(* commit; createHold takes it for its whole transaction, one step here.   *)
LockFree(court) == \A w \in closing : w.court # court

(* Mutant: the constraint of the initial migration, three statuses only.   *)
ExclusionOfInitialMigration(b, s) ==
  \A c \in Booking \ {b} :
    status[c] \in Blocking \ {"REFUND_REQUESTED"} => ~Overlap(slot[c], s)

(* court_bookings_no_active_overlap: PostgreSQL refuses to commit booking  *)
(* b on slot s in a blocking status while another booking blocks s.        *)
ExclusionAllows(b, s) ==
  \A c \in Booking \ {b} : status[c] \in Blocking => ~Overlap(slot[c], s)

(* Every write of a status to an existing row is an UPDATE by id alone.    *)
WriteStatus(b, new) ==
  /\ new \in Blocking => ExclusionAllows(b, slot[b])
  /\ status' = [status EXCEPT ![b] = new]

Remember(r, state) == req' = [req EXCEPT ![r] = state]
Finish(r) == Remember(r, Idle)

---------------------------------------------------------------------------
Init ==
  /\ now = 0
  /\ status = [b \in Booking |-> "NONE"]
  /\ slot = [b \in Booking |-> None]
  /\ deadline = [b \in Booking |-> 0]
  /\ subBooking = [p \in Ref |-> None]
  /\ subStatus = [p \in Ref |-> "NONE"]
  /\ refBooking = [f \in Refund |-> None]
  /\ refStatus = [f \in Refund |-> "NONE"]
  /\ closed = {} /\ closing = {}
  /\ req = [r \in Request |-> Idle]

---------------------------------------------------------------------------
(* Holds *)

(* BookingService.createHold up to the repository call: the clock is read  *)
(* and the interval quoted against the closures of that moment.            *)
QuoteHold(r, s) ==
  /\ req[r] = Idle
  /\ ~ClosedFor(s)
  /\ Remember(r, [at |-> "createHold", slot |-> s,
                  deadline |-> now + HoldDuration])
  /\ UNCHANGED <<now, bookingVars, submissionVars, refundVars, closureVars>>

(* PrismaBookingRepository.createHold: under the court's advisory lock the *)
(* closures are read again and the row is inserted.                        *)
CreateHold(r, b) ==
  /\ req[r].at = "createHold"
  /\ LockFree(req[r].slot.court)
  /\ status[b] = "NONE"
  /\ ~ClosedFor(req[r].slot)
  /\ ExclusionAllows(b, req[r].slot)
  /\ status' = [status EXCEPT ![b] = "HELD"]
  /\ slot' = [slot EXCEPT ![b] = req[r].slot]
  /\ deadline' = [deadline EXCEPT ![b] = req[r].deadline]
  /\ Finish(r)
  /\ UNCHANGED <<now, submissionVars, refundVars, closureVars>>

---------------------------------------------------------------------------
(* Payment proofs *)

(* BookingService.submitProof up to submitPayment: the checks.             *)
SubmitProof(r, b, p) ==
  /\ req[r] = Idle
  /\ status[b] = "HELD"
  /\ now <= deadline[b]
  /\ Remember(r, [at |-> "submitPayment", booking |-> b, ref |-> p])
  /\ UNCHANGED <<now, bookingVars, submissionVars, refundVars, closureVars>>

(* submitPayment commits the submission by itself; the status follows in   *)
(* another transaction.  A used reference violates the unique index.       *)
SubmitPayment(r) ==
  /\ req[r].at = "submitPayment"
  /\ LET b == req[r].booking
         p == req[r].ref
     IN  /\ subStatus[p] = "NONE"
         /\ subBooking' = [subBooking EXCEPT ![p] = b]
         /\ subStatus' = [subStatus EXCEPT ![p] = "PENDING"]
         /\ Remember(r, [at |-> "readStatus", booking |-> b,
                         expected |-> "HELD", next |-> "PROOF_SUBMITTED"])
  /\ UNCHANGED <<now, bookingVars, refundVars, closureVars>>

(* The route and the update fail unless both rows exist.                   *)
MayDecidePayment(b, p) == status[b] # "NONE" /\ subStatus[p] # "NONE"

(* approveProof and rejectProof: the venue staff's decision is written to  *)
(* the submission whatever its status and whatever the booking's.          *)
DecidePayment(r, b, p, decision) ==
  /\ req[r] = Idle
  /\ MayDecidePayment(b, p)
  /\ subStatus' = [subStatus EXCEPT ![p] = decision]
  /\ Remember(r, [at |-> "readStatus", booking |-> b,
                  expected |-> "PROOF_SUBMITTED",
                  next |-> IF decision = "APPROVED" THEN "CONFIRMED"
                                                    ELSE "REJECTED"])
  /\ UNCHANGED <<now, bookingVars, subBooking, refundVars, closureVars>>

(* Mutant: the expected status is not compared.                            *)
ReadStatusWithoutCheck(r) ==
  /\ req[r].at = "readStatus"
  /\ Remember(r, [req[r] EXCEPT !.at = "writeStatus"])
  /\ UNCHANGED <<now, bookingVars, submissionVars, refundVars, closureVars>>

(* transitionStatus, the read: the row must have the expected status.      *)
ReadStatus(r) ==
  /\ req[r].at = "readStatus"
  /\ status[req[r].booking] = req[r].expected
  /\ Remember(r, [req[r] EXCEPT !.at = "writeStatus"])
  /\ UNCHANGED <<now, bookingVars, submissionVars, refundVars, closureVars>>

(* transitionStatus, the update and commit.                                *)
TransitionStatus(r) ==
  /\ req[r].at = "writeStatus"
  /\ WriteStatus(req[r].booking, req[r].next)
  /\ Finish(r)
  /\ UNCHANGED <<now, slot, deadline, submissionVars, refundVars, closureVars>>

---------------------------------------------------------------------------
(* Refunds and cancellations.  The transaction of each repeats the check   *)
(* its service made, so the first step is the transaction's read.          *)

RequestRefund(r, b) ==
  /\ req[r] = Idle
  /\ status[b] = "CONFIRMED"
  /\ now + RefundWindow <= slot[b].from
  /\ Remember(r, [at |-> "createRefundRequest", booking |-> b])
  /\ UNCHANGED <<now, bookingVars, submissionVars, refundVars, closureVars>>

CreateRefundRequest(r, f) ==
  /\ req[r].at = "createRefundRequest"
  /\ refStatus[f] = "NONE"
  /\ refBooking' = [refBooking EXCEPT ![f] = req[r].booking]
  /\ refStatus' = [refStatus EXCEPT ![f] = "REQUESTED"]
  /\ WriteStatus(req[r].booking, "REFUND_REQUESTED")
  /\ Finish(r)
  /\ UNCHANGED <<now, slot, deadline, submissionVars, closureVars>>

MayDecideRefund(f) == refStatus[f] = "REQUESTED"

DecideRefund(r, f, decision) ==
  /\ req[r] = Idle
  /\ MayDecideRefund(f)
  /\ Remember(r, [at |-> "decideRefund", refund |-> f, decision |-> decision])
  /\ UNCHANGED <<now, bookingVars, submissionVars, refundVars, closureVars>>

(* Mutants: the two outcomes swapped; a rejection that hands back the hold.*)
SwappedOutcome(decision) == IF decision = "APPROVED" THEN "CONFIRMED" ELSE "CANCELLED"
RejectionToHeld(decision) == IF decision = "APPROVED" THEN "CANCELLED" ELSE "HELD"

(* The booking's status after a decision on one of its refunds.            *)
Outcome(decision) == IF decision = "APPROVED" THEN "CANCELLED" ELSE "CONFIRMED"

(* The booking takes its new status whatever it was.                       *)
ApplyRefundDecision(r) ==
  /\ req[r].at = "decideRefund"
  /\ refStatus' = [refStatus EXCEPT ![req[r].refund] = req[r].decision]
  /\ WriteStatus(refBooking[req[r].refund], Outcome(req[r].decision))
  /\ Finish(r)
  /\ UNCHANGED <<now, slot, deadline, submissionVars, refBooking, closureVars>>

(* completeRefund checks in the service; the update has no guard.          *)
CheckRefundApproved(r, f) ==
  /\ req[r] = Idle
  /\ refStatus[f] = "APPROVED"
  /\ Remember(r, [at |-> "completeRefund", refund |-> f])
  /\ UNCHANGED <<now, bookingVars, submissionVars, refundVars, closureVars>>

CompleteRefund(r) ==
  /\ req[r].at = "completeRefund"
  /\ refStatus' = [refStatus EXCEPT ![req[r].refund] = "COMPLETED"]
  /\ Finish(r)
  /\ UNCHANGED <<now, bookingVars, submissionVars, refBooking, closureVars>>

MayCancel(b) == status[b] \in {"CONFIRMED", "REFUND_REQUESTED"}

CancelByVenue(r, b) ==
  /\ req[r] = Idle
  /\ MayCancel(b)
  /\ Remember(r, [at |-> "venueCancel", booking |-> b])
  /\ UNCHANGED <<now, bookingVars, submissionVars, refundVars, closureVars>>

(* An approved refund of its own; an open request of the player stays.     *)
VenueCancel(r, f) ==
  /\ req[r].at = "venueCancel"
  /\ refStatus[f] = "NONE"
  /\ refBooking' = [refBooking EXCEPT ![f] = req[r].booking]
  /\ refStatus' = [refStatus EXCEPT ![f] = "APPROVED"]
  /\ WriteStatus(req[r].booking, "CANCELLED")
  /\ Finish(r)
  /\ UNCHANGED <<now, slot, deadline, submissionVars, closureVars>>

---------------------------------------------------------------------------
(* Closures *)

(* createClosure takes the court's advisory lock and looks for a booking   *)
(* in the way.  The lock keeps out createHold and other closures of the    *)
(* court, not the handlers that write a status.                            *)
CheckClosure(w) ==
  /\ LockFree(w.court)
  /\ \A b \in Booking : status[b] \in Blocking => ~Overlap(slot[b], w)
  /\ closing' = closing \cup {w}
  /\ UNCHANGED <<now, bookingVars, submissionVars, refundVars, closed, req>>

(* The insert and commit, whatever became of the bookings since the check. *)
CreateClosure(w) ==
  /\ w \in closing
  /\ closed' = closed \cup {w}
  /\ closing' = closing \ {w}
  /\ UNCHANGED <<now, bookingVars, submissionVars, refundVars, req>>

(* The transaction fails or its process dies: the lock goes with it.       *)
AbandonClosure(w) ==
  /\ w \in closing
  /\ closing' = closing \ {w}
  /\ UNCHANGED <<now, bookingVars, submissionVars, refundVars, closed, req>>

DeleteClosure(w) ==
  /\ w \in closed
  /\ closed' = closed \ {w}
  /\ UNCHANGED <<now, bookingVars, submissionVars, refundVars, closing, req>>

---------------------------------------------------------------------------
(* The worker: each job is one UPDATE ... WHERE over the table.            *)

(* Mutants: the comparisons the wrong way round.                           *)
StaleTooEarly(b) == status[b] = "HELD" /\ now < deadline[b]
PastTooEarly(b) == status[b] = "CONFIRMED" /\ now < slot[b].to

Stale(b) == status[b] = "HELD" /\ deadline[b] < now
Past(b) == status[b] = "CONFIRMED" /\ slot[b].to < now

ExpireStaleHolds ==
  /\ \E b \in Booking : Stale(b)
  /\ status' = [b \in Booking |-> IF Stale(b) THEN "EXPIRED" ELSE status[b]]
  /\ UNCHANGED <<now, slot, deadline, submissionVars, refundVars, closureVars, req>>

CompletePastBookings ==
  /\ \E b \in Booking : Past(b)
  /\ status' = [b \in Booking |-> IF Past(b) THEN "COMPLETED" ELSE status[b]]
  /\ UNCHANGED <<now, slot, deadline, submissionVars, refundVars, closureVars, req>>

---------------------------------------------------------------------------
(* A request ends early: a check or a constraint fails and an error goes   *)
(* back, or the API process dies.  What it committed stays committed.      *)
Abort(r) ==
  /\ req[r] # Idle
  /\ Finish(r)
  /\ UNCHANGED <<now, bookingVars, submissionVars, refundVars, closureVars>>

Tick ==
  /\ now < MaxTime
  /\ now' = now + 1
  /\ UNCHANGED <<bookingVars, submissionVars, refundVars, closureVars, req>>

(* The routes of refunds and cancellations.                                *)
RefundStep(r) ==
  \/ \E b \in Booking : RequestRefund(r, b) \/ CancelByVenue(r, b)
  \/ \E f \in Refund :
       \/ CreateRefundRequest(r, f)
       \/ \E decision \in Decision : DecideRefund(r, f, decision)
       \/ CheckRefundApproved(r, f)
       \/ VenueCancel(r, f)
  \/ ApplyRefundDecision(r)
  \/ CompleteRefund(r)

(* The routes of closures.                                                 *)
ClosureStep(w) ==
  CheckClosure(w) \/ CreateClosure(w) \/ AbandonClosure(w) \/ DeleteClosure(w)

RequestStep(r) ==
  \/ \E s \in Slot : QuoteHold(r, s)
  \/ \E b \in Booking :
       \/ CreateHold(r, b)
       \/ \E p \in Ref : SubmitProof(r, b, p)
       \/ \E p \in Ref, decision \in Decision : DecidePayment(r, b, p, decision)
  \/ SubmitPayment(r)
  \/ ReadStatus(r)
  \/ TransitionStatus(r)
  \/ RefundStep(r)
  \/ Abort(r)

Next ==
  \/ \E r \in Request : RequestStep(r)
  \/ \E w \in Closure : ClosureStep(w)
  \/ ExpireStaleHolds
  \/ CompletePastBookings
  \/ Tick

Spec == Init /\ [][Next]_vars

---------------------------------------------------------------------------
(* Properties *)

Exists(b) == b \in Booking /\ status[b] # "NONE"

HasProof(b) == \E p \in Ref : subBooking[p] = b

(* Submissions and refunds are of bookings that exist, and a refund is of  *)
(* a booking that has a payment submission: no order of the handlers pays  *)
(* back what nobody paid.                                                  *)
RowsExist ==
  /\ \A b \in Booking : slot[b] = None <=> status[b] = "NONE"
  /\ \A p \in Ref : subBooking[p] = None <=> subStatus[p] = "NONE"
  /\ \A p \in Ref : subStatus[p] # "NONE" => Exists(subBooking[p])
  /\ \A f \in Refund : refStatus[f] # "NONE" =>
       Exists(refBooking[f]) /\ HasProof(refBooking[f])

StillHolds(q) ==
  /\ q.at \in {"submitPayment", "readStatus", "writeStatus",
               "createRefundRequest", "venueCancel"} => Exists(q.booking)
  /\ q.at = "readStatus" /\ q.expected = "HELD" => HasProof(q.booking)
  /\ q.at \in {"writeStatus", "createRefundRequest", "venueCancel"}
       => HasProof(q.booking)
  /\ q.at = "decideRefund" => refStatus[q.refund] # "NONE"
  /\ q.at = "completeRefund" => refStatus[q.refund] \notin {"NONE", "REQUESTED"}

(* What a handler has read and still relies on when it writes, although    *)
(* others committed in between: the rows it names exist, a status it is    *)
(* about to write is for a booking with a submission, and a refund it is   *)
(* about to mark as paid has been decided.  (The status it read may well   *)
(* have changed: nothing here says it has not.)                            *)
ReadsStillHold == \A r \in Request : StillHolds(req[r])

(* No two bookings that block a court overlap on it, whatever requests and *)
(* jobs interleave and whichever of them wrote a status it had no right to *)
(* write any more: every write that puts a booking into a blocking status  *)
(* meets the exclusion constraint, which counts all four of them.          *)
NoDoubleBooking ==
  \A b, c \in Booking :
    /\ b # c
    /\ status[b] \in Blocking
    /\ status[c] \in Blocking
    => ~Overlap(slot[b], slot[c])

(* A hold never stands on a closed window: createHold and createClosure    *)
(* look at each other's table under the same advisory lock, and no other   *)
(* write returns a booking to HELD.  (Other bookings may: a late status or *)
(* a rejected refund commits between the closure's check and its insert.)  *)
HoldsAvoidClosures ==
  \A b \in Booking : status[b] = "HELD" => ~ClosedFor(slot[b])

(* No booking gets past its hold without a payment submission of its own,  *)
(* although the submission, the decision and the status are three commits  *)
(* of requests that may fail or be overtaken between any two of them.      *)
ProofBehindProgress ==
  \A b \in Booking : status[b] \notin {"NONE", "HELD", "EXPIRED"} => HasProof(b)

(* A booking waiting for a refund decision has an undecided refund, so the *)
(* staff's queue never shows a request that nobody can decide.             *)
OpenRefundBehindRequest ==
  \A b \in Booking : status[b] = "REFUND_REQUESTED" =>
    \E f \in Refund : refBooking[f] = b /\ refStatus[f] = "REQUESTED"

(* A cancelled booking has a refund that was granted: neither two          *)
(* decisions on one refund, nor a venue cancellation racing a player's     *)
(* request, cancels a booking and leaves every refund of it refused.       *)
RefundBehindCancellation ==
  \A b \in Booking : status[b] = "CANCELLED" =>
    \E f \in Refund : refBooking[f] = b /\ refStatus[f] \in {"APPROVED", "COMPLETED"}

(* The refunds stand behind the statuses of the bookings, both ways.       *)
RefundsBehindBookings == OpenRefundBehindRequest /\ RefundBehindCancellation

(* Only a hold whose deadline has passed expires: the job never takes the  *)
(* court from a booking whose proof was accepted, even if the deadline is  *)
(* long gone while the staff review it.                                    *)
ExpiryTakesOnlyOverdueHolds ==
  [][\A b \in Booking : status[b] # "EXPIRED" /\ status'[b] = "EXPIRED" =>
       status[b] = "HELD" /\ deadline[b] < now]_vars

(* A hold left behind by its player frees the court: after the deadline a  *)
(* booking without any submission does not block for ever, whatever        *)
(* requests died half-way.                                                 *)
AbandonedHoldFreesCourt ==
  \A b \in Booking :
    (status[b] = "HELD" /\ deadline[b] < now) ~>
      (status[b] \notin Blocking \/ HasProof(b))

(* A confirmed booking whose time is over leaves CONFIRMED, which is what  *)
(* makes it eligible for a review.                                         *)
PastBookingCompletes ==
  \A b \in Booking :
    (status[b] = "CONFIRMED" /\ slot[b].to < now) ~> (status[b] # "CONFIRMED")

(* The bookings, proofs and closures implement the abstract calendar.      *)
PhaseOf(st) ==
  IF st = "NONE" THEN "free"
  ELSE IF st = "HELD" THEN "tentative"
  ELSE IF st \in Blocking THEN "firm" ELSE "released"

Calendar == INSTANCE CourtCalendar WITH
  phase <- [b \in Booking |-> PhaseOf(status[b])],
  interval <- slot,
  paid <- {b \in Booking : HasProof(b)}

CalendarSpec == Calendar!Spec

=============================================================================
