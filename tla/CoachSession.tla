------------------------------ MODULE CoachSession ------------------------------
(***************************************************************************)
(* What happens to a coach booking once an offer is accepted: payment      *)
(* proofs, the coach's review, refunds, cancellation and the worker's      *)
(* completion job, composed with the marketplace of CoachMarket.  No job   *)
(* expires a coach hold.                                                   *)
(***************************************************************************)
EXTENDS CoachMarket

CONSTANTS
  Ref,          \* (channel, transactionRef) pairs of coach payments
  Refund,       \* rows of coach_refunds that may come to exist
  RefundWindow  \* the seven days of isRefundEligible

ASSUME RefundAssumption == None \notin CoachRequest /\ RefundWindow \in Nat

VARIABLES
  subBooking,  \* coach_payment_submissions.bookingId, by transaction reference
  subStatus,   \* coach_payment_submissions.status, "NONE" before the insert
  refBooking,  \* coach_refunds.bookingId
  refStatus    \* coach_refunds.status, "NONE" before the insert

submissionVars == <<subBooking, subStatus>>
refundVars == <<refBooking, refStatus>>
vars == <<marketVars, mem, submissionVars, refundVars>>

Decision == {"APPROVED", "REJECTED"}
ProofStatus == {"NONE", "PENDING"} \cup Decision
RefundStatus == {"NONE", "REQUESTED", "COMPLETED"} \cup Decision

ProofMem    == [at : {"submitPayment"}, booking : CoachRequest, ref : Ref]
StatusMem   == [at : {"readStatus", "writeStatus"}, booking : CoachRequest,
                expected : {"HELD", "PROOF_SUBMITTED"},
                next : {"PROOF_SUBMITTED", "CONFIRMED", "REJECTED"}]
RefundMem   == [at : {"createRefundRequest", "coachCancel"}, booking : CoachRequest]
DecisionMem == [at : {"decideRefund"}, refund : Refund, decision : Decision]
PayoutMem   == [at : {"completeRefund"}, refund : Refund]
SessionMem  == ProofMem \cup StatusMem \cup RefundMem \cup DecisionMem \cup PayoutMem

TypeOK ==
  /\ MarketTypeOK
  /\ mem \in [Handler -> MarketMem \cup SessionMem]
  /\ subBooking \in [Ref -> CoachRequest \cup {None}]
  /\ subStatus \in [Ref -> ProofStatus]
  /\ refBooking \in [Refund -> CoachRequest \cup {None}]
  /\ refStatus \in [Refund -> RefundStatus]

Init ==
  /\ MarketInit
  /\ subBooking = [p \in Ref |-> None]
  /\ subStatus = [p \in Ref |-> "NONE"]
  /\ refBooking = [f \in Refund |-> None]
  /\ refStatus = [f \in Refund |-> "NONE"]

(* An UPDATE of the booking's status by id alone, under the constraint.    *)
WriteStatus(b, new) ==
  /\ new \in Blocking => ExclusionAllows(b, coach[b])
  /\ status' = [status EXCEPT ![b] = new]
  /\ UNCHANGED <<now, requestVars, offerVars, bookingVars>>

---------------------------------------------------------------------------
(* Payment proofs *)

MaySubmitProof(b) == status[b] = "HELD" /\ now <= deadline[b]

(* submitProof up to submitPayment: the checks.                            *)
SubmitProof(h, b, p) ==
  /\ mem[h] = Idle
  /\ MaySubmitProof(b)
  /\ Remember(h, [at |-> "submitPayment", booking |-> b, ref |-> p])
  /\ UNCHANGED <<marketVars, submissionVars, refundVars>>

SubmitPayment(h) ==
  /\ mem[h].at = "submitPayment"
  /\ subStatus[mem[h].ref] = "NONE"
  /\ subBooking' = [subBooking EXCEPT ![mem[h].ref] = mem[h].booking]
  /\ subStatus' = [subStatus EXCEPT ![mem[h].ref] = "PENDING"]
  /\ Remember(h, [at |-> "readStatus", booking |-> mem[h].booking,
                  expected |-> "HELD", next |-> "PROOF_SUBMITTED"])
  /\ UNCHANGED <<marketVars, refundVars>>

MayDecidePayment(b, p) == status[b] # "NONE" /\ subStatus[p] # "NONE"

(* approveProof and rejectProof write the coach's decision first, whatever *)
(* the submission's and the booking's status.                              *)
DecidePayment(h, b, p, decision) ==
  /\ mem[h] = Idle
  /\ MayDecidePayment(b, p)
  /\ subStatus' = [subStatus EXCEPT ![p] = decision]
  /\ Remember(h, [at |-> "readStatus", booking |-> b, expected |-> "PROOF_SUBMITTED",
                  next |-> IF decision = "APPROVED" THEN "CONFIRMED" ELSE "REJECTED"])
  /\ UNCHANGED <<marketVars, subBooking, refundVars>>

(* Mutant: the expected status is not compared.                            *)
ReadStatusWithoutCheck(h) ==
  /\ mem[h].at = "readStatus"
  /\ Remember(h, [mem[h] EXCEPT !.at = "writeStatus"])
  /\ UNCHANGED <<marketVars, submissionVars, refundVars>>

ReadStatus(h) ==
  /\ mem[h].at = "readStatus"
  /\ status[mem[h].booking] = mem[h].expected
  /\ Remember(h, [mem[h] EXCEPT !.at = "writeStatus"])
  /\ UNCHANGED <<marketVars, submissionVars, refundVars>>

TransitionStatus(h) ==
  /\ mem[h].at = "writeStatus"
  /\ WriteStatus(mem[h].booking, mem[h].next)
  /\ Finish(h)
  /\ UNCHANGED <<submissionVars, refundVars>>

---------------------------------------------------------------------------
(* Refunds and cancellations *)

(* isRefundEligible.                                                       *)
MayRequestRefund(b) == status[b] = "CONFIRMED" /\ now + RefundWindow <= session[b].from

RequestRefund(h, b) ==
  /\ mem[h] = Idle
  /\ MayRequestRefund(b)
  /\ Remember(h, [at |-> "createRefundRequest", booking |-> b])
  /\ UNCHANGED <<marketVars, submissionVars, refundVars>>

CreateRefundRequest(h, f) ==
  /\ mem[h].at = "createRefundRequest"
  /\ refStatus[f] = "NONE"
  /\ refBooking' = [refBooking EXCEPT ![f] = mem[h].booking]
  /\ refStatus' = [refStatus EXCEPT ![f] = "REQUESTED"]
  /\ WriteStatus(mem[h].booking, "REFUND_REQUESTED")
  /\ Finish(h)
  /\ UNCHANGED submissionVars

DecideRefund(h, f, decision) ==
  /\ mem[h] = Idle
  /\ refStatus[f] = "REQUESTED"
  /\ Remember(h, [at |-> "decideRefund", refund |-> f, decision |-> decision])
  /\ UNCHANGED <<marketVars, submissionVars, refundVars>>

(* Mutant: the outcomes swapped.                                           *)
SwappedOutcome(decision) == IF decision = "APPROVED" THEN "CONFIRMED" ELSE "CANCELLED"

Outcome(decision) == IF decision = "APPROVED" THEN "CANCELLED" ELSE "CONFIRMED"

(* A rejection puts the booking back under the constraint, which may have  *)
(* let another session in meanwhile: then the rejection is rolled back.    *)
ApplyRefundDecision(h) ==
  /\ mem[h].at = "decideRefund"
  /\ refStatus' = [refStatus EXCEPT ![mem[h].refund] = mem[h].decision]
  /\ WriteStatus(refBooking[mem[h].refund], Outcome(mem[h].decision))
  /\ Finish(h)
  /\ UNCHANGED <<submissionVars, refBooking>>

CheckRefundApproved(h, f) ==
  /\ mem[h] = Idle
  /\ refStatus[f] = "APPROVED"
  /\ Remember(h, [at |-> "completeRefund", refund |-> f])
  /\ UNCHANGED <<marketVars, submissionVars, refundVars>>

CompleteRefund(h) ==
  /\ mem[h].at = "completeRefund"
  /\ refStatus' = [refStatus EXCEPT ![mem[h].refund] = "COMPLETED"]
  /\ Finish(h)
  /\ UNCHANGED <<marketVars, submissionVars, refBooking>>

MayCancel(b) == status[b] \in {"CONFIRMED", "REFUND_REQUESTED"}

CancelByCoach(h, b) ==
  /\ mem[h] = Idle
  /\ MayCancel(b)
  /\ Remember(h, [at |-> "coachCancel", booking |-> b])
  /\ UNCHANGED <<marketVars, submissionVars, refundVars>>

(* An approved refund of its own; an open request of the player stays.     *)
CoachCancel(h, f) ==
  /\ mem[h].at = "coachCancel"
  /\ refStatus[f] = "NONE"
  /\ refBooking' = [refBooking EXCEPT ![f] = mem[h].booking]
  /\ refStatus' = [refStatus EXCEPT ![f] = "APPROVED"]
  /\ WriteStatus(mem[h].booking, "CANCELLED")
  /\ Finish(h)
  /\ UNCHANGED submissionVars

---------------------------------------------------------------------------
Past(b) == status[b] = "CONFIRMED" /\ session[b].to < now

(* The coach half of the worker's completion job.                          *)
CompletePastBookings ==
  /\ \E b \in CoachRequest : Past(b)
  /\ status' = [b \in CoachRequest |-> IF Past(b) THEN "COMPLETED" ELSE status[b]]
  /\ UNCHANGED <<now, requestVars, offerVars, bookingVars, mem, submissionVars, refundVars>>

(* The routes of refunds and cancellations.                                *)
RefundStep(h) ==
  \/ \E b \in CoachRequest : RequestRefund(h, b) \/ CancelByCoach(h, b)
  \/ \E f \in Refund :
       \/ CreateRefundRequest(h, f)
       \/ \E decision \in Decision : DecideRefund(h, f, decision)
       \/ CheckRefundApproved(h, f)
       \/ CoachCancel(h, f)
  \/ ApplyRefundDecision(h)
  \/ CompleteRefund(h)

SessionStep(h) ==
  \/ \E b \in CoachRequest, p \in Ref :
       \/ SubmitProof(h, b, p)
       \/ \E decision \in Decision : DecidePayment(h, b, p, decision)
  \/ SubmitPayment(h)
  \/ ReadStatus(h)
  \/ TransitionStatus(h)
  \/ RefundStep(h)

Next ==
  \/ MarketStep /\ UNCHANGED <<submissionVars, refundVars>>
  \/ \E h \in Handler : SessionStep(h)
  \/ CompletePastBookings

Spec == Init /\ [][Next]_vars

---------------------------------------------------------------------------
(* Properties *)

Exists(b) == b \in CoachRequest /\ status[b] # "NONE"

HasProof(b) == \E p \in Ref : subBooking[p] = b

(* Bookings are of requests that exist, submissions and refunds of         *)
(* bookings that exist, and a refund is of a booking with a submission: no *)
(* order of the handlers pays back what nobody paid.                       *)
RowsExist ==
  /\ \A q \in CoachRequest : status[q] # "NONE" => requested[q] # "NONE"
  /\ \A p \in Ref : subBooking[p] = None <=> subStatus[p] = "NONE"
  /\ \A p \in Ref : subStatus[p] # "NONE" => Exists(subBooking[p])
  /\ \A f \in Refund : refStatus[f] # "NONE" =>
       Exists(refBooking[f]) /\ HasProof(refBooking[f])

StillHolds(m) ==
  /\ m.at = "answerRequest" => requested[m.request] # "NONE"
  /\ m.at \in {"createOffer", "acceptOffer"} =>
       /\ requested[m.offer[1]] \notin {"NONE", "PENDING_COACH"}
       /\ target[m.offer[1]] \in {None, m.offer[2]}
  /\ m.at \in {"submitPayment", "readStatus", "writeStatus",
               "createRefundRequest", "coachCancel"} => Exists(m.booking)
  /\ m.at = "readStatus" /\ m.expected = "HELD" => HasProof(m.booking)
  /\ m.at \in {"writeStatus", "createRefundRequest", "coachCancel"}
       => HasProof(m.booking)
  /\ m.at = "decideRefund" => refStatus[m.refund] # "NONE"
  /\ m.at = "completeRefund" => refStatus[m.refund] \notin {"NONE", "REQUESTED"}

(* What a handler has read and still relies on when it writes: its rows    *)
(* exist, an offer about to be inserted or accepted is on a request its    *)
(* coach may serve, a status about to be written is of a booking with a    *)
(* submission, a refund about to be marked as paid has been decided.       *)
ReadsStillHold == \A h \in Handler : StillHolds(mem[h])

(* No session gets past its hold without a payment submission of its own,  *)
(* although submission, decision and status are three commits.             *)
SessionNeedsProof ==
  \A b \in CoachRequest : status[b] \notin {"NONE", "HELD"} => HasProof(b)

(* A session waiting for a refund decision has a refund to decide, and a   *)
(* cancelled one has a refund that was granted.                            *)
RefundsMatchSessions ==
  \A b \in CoachRequest :
    /\ status[b] = "REFUND_REQUESTED" =>
         \E f \in Refund : refBooking[f] = b /\ refStatus[f] = "REQUESTED"
    /\ status[b] = "CANCELLED" =>
         \E f \in Refund : refBooking[f] = b /\ refStatus[f] \in {"APPROVED", "COMPLETED"}

(* Proofs and refunds stand behind the statuses of the sessions.           *)
PaymentsBehindSessions == SessionNeedsProof /\ RefundsMatchSessions

(* The sessions and their proofs implement the abstract calendar.          *)
PhaseOf(st) ==
  IF st = "NONE" THEN "free"
  ELSE IF st = "HELD" THEN "tentative"
  ELSE IF st \in Blocking THEN "firm" ELSE "released"

TimeOf(c, s) == [court |-> c, from |-> s.from, to |-> s.to]
TimesOfCoaches == {TimeOf(c, s) : c \in Coach, s \in Session}

Calendar == INSTANCE CourtCalendar WITH
  Court <- Coach,
  Booking <- CoachRequest,
  Slot <- TimesOfCoaches,
  Closure <- {},
  phase <- [q \in CoachRequest |-> PhaseOf(status[q])],
  interval <- [q \in CoachRequest |-> IF status[q] = "NONE" THEN None
                                                        ELSE TimeOf(coach[q], session[q])],
  paid <- {q \in CoachRequest : HasProof(q)},
  closed <- {},
  closing <- {}

CalendarSpec == Calendar!Spec

=============================================================================
