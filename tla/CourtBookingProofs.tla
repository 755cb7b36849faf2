-------------------------- MODULE CourtBookingProofs --------------------------
(* Proofs about CourtBooking for every value of its constants, and about   *)
(* what is composed with it: the worker's job for overdue reviews          *)
(* (ReviewEscalation), and the reviews and pages (BookingPages).           *)
EXTENDS ReviewEscalation, BookingPages, TLAPS, FiniteSetTheorems

(* What a request remembers is determined by where it stands.              *)
LEMMA RequestShape ==
  ASSUME TypeOK, NEW r \in Request
  PROVE  /\ req[r].at = "createHold" => req[r] \in HoldReq
         /\ req[r].at = "submitPayment" => req[r] \in ProofReq
         /\ req[r].at \in {"readStatus", "writeStatus"} => req[r] \in StatusReq
         /\ req[r].at \in {"createRefundRequest", "venueCancel"} => req[r] \in RefundReq
         /\ req[r].at = "decideRefund" => req[r] \in DecisionReq
         /\ req[r].at = "completeRefund" => req[r] \in PayoutReq
<1>1. req[r] \in RequestState
  BY DEF TypeOK
<1>2. QED
  BY <1>1 DEF RequestState, Idle, HoldReq, ProofReq, StatusReq, RefundReq,
              DecisionReq, PayoutReq

---------------------------------------------------------------------------
(* Type correctness.                                                       *)

LEMMA InitTypeOK == Init => TypeOK
BY ConstantsAssumption
   DEF Init, TypeOK, BookingStatus, ProofStatus, RefundStatus, RequestState

(* The states a request is sent to by its own steps.                       *)
LEMMA RequestTypes ==
  /\ Idle \in RequestState
  /\ \A s \in Slot, d \in Nat :
       [at |-> "createHold", slot |-> s, deadline |-> d] \in RequestState
  /\ \A b \in Booking, p \in Ref :
       [at |-> "submitPayment", booking |-> b, ref |-> p] \in RequestState
  /\ \A b \in Booking, e \in {"HELD", "PROOF_SUBMITTED"},
         n \in {"PROOF_SUBMITTED", "CONFIRMED", "REJECTED"} :
       [at |-> "readStatus", booking |-> b, expected |-> e, next |-> n] \in RequestState
  /\ \A q \in StatusReq : [q EXCEPT !.at = "writeStatus"] \in RequestState
  /\ \A b \in Booking : \A at \in {"createRefundRequest", "venueCancel"} :
       [at |-> at, booking |-> b] \in RequestState
  /\ \A f \in Refund, d \in Decision :
       [at |-> "decideRefund", refund |-> f, decision |-> d] \in RequestState
  /\ \A f \in Refund : [at |-> "completeRefund", refund |-> f] \in RequestState
<1>1. \A q \in StatusReq : [q EXCEPT !.at = "writeStatus"] \in StatusReq
  BY DEF StatusReq
<1>2. QED
  BY <1>1 DEF RequestState, HoldReq, ProofReq, StatusReq, RefundReq,
              DecisionReq, PayoutReq

(* A step that changes only what one request remembers.                    *)
LEMMA RememberTypeOK ==
  ASSUME TypeOK, NEW r \in Request, NEW state \in RequestState,
         Remember(r, state),
         UNCHANGED <<now, bookingVars, submissionVars, refundVars, closureVars>>
  PROVE  TypeOK'
BY DEF closureVars, TypeOK, Remember, bookingVars, submissionVars, refundVars

LEMMA StepTypeOK == TypeOK /\ [Next]_vars => TypeOK'
<1> SUFFICES ASSUME TypeOK, [Next]_vars
             PROVE  TypeOK'
  OBVIOUS
<1> USE ConstantsAssumption
<1>1. ASSUME NEW r \in Request, NEW s \in Slot, QuoteHold(r, s)
      PROVE  TypeOK'
  <2>1. now + HoldDuration \in Nat
    BY DEF TypeOK
  <2>2. QED
    BY <1>1, <2>1, RequestTypes, RememberTypeOK DEF QuoteHold
<1>2. ASSUME NEW r \in Request, NEW b \in Booking, CreateHold(r, b)
      PROVE  TypeOK'
  <2>1. req[r].slot \in Slot /\ req[r].deadline \in Nat
    BY <1>2, RequestShape DEF CreateHold, HoldReq
  <2>2. req' \in [Request -> RequestState]
    BY <1>2, RequestTypes DEF CreateHold, Finish, Remember, TypeOK
  <2>3. QED
    BY <1>2, <2>1, <2>2
       DEF closureVars, CreateHold, TypeOK, BookingStatus, submissionVars, refundVars
<1>3. ASSUME NEW r \in Request, NEW b \in Booking, NEW p \in Ref, SubmitProof(r, b, p)
      PROVE  TypeOK'
  BY <1>3, RequestTypes, RememberTypeOK DEF SubmitProof
<1>4. ASSUME NEW r \in Request, SubmitPayment(r)
      PROVE  TypeOK'
  <2>1. req[r].booking \in Booking /\ req[r].ref \in Ref
    BY <1>4, RequestShape DEF SubmitPayment, ProofReq
  <2>2. req' \in [Request -> RequestState]
    BY <1>4, <2>1, RequestTypes DEF SubmitPayment, Remember, TypeOK, BookingStatus
  <2>3. QED
    BY <1>4, <2>1, <2>2
       DEF closureVars, SubmitPayment, TypeOK, ProofStatus, bookingVars, refundVars
<1>5. ASSUME NEW r \in Request, NEW b \in Booking, NEW p \in Ref, NEW d \in Decision,
             DecidePayment(r, b, p, d)
      PROVE  TypeOK'
  <2>1. req' \in [Request -> RequestState]
    BY <1>5, RequestTypes DEF DecidePayment, Remember, TypeOK, BookingStatus
  <2>2. QED
    BY <1>5, <2>1
       DEF closureVars, DecidePayment, TypeOK, ProofStatus, Decision, bookingVars, refundVars
<1>6. ASSUME NEW r \in Request, ReadStatus(r)
      PROVE  TypeOK'
  <2>1. req[r] \in StatusReq
    BY <1>6, RequestShape DEF ReadStatus
  <2>2. QED
    BY <1>6, <2>1, RequestTypes, RememberTypeOK DEF ReadStatus
<1>7. ASSUME NEW r \in Request, TransitionStatus(r)
      PROVE  TypeOK'
  <2>1. req[r].booking \in Booking /\ req[r].next \in BookingStatus
    BY <1>7, RequestShape DEF TransitionStatus, StatusReq, BookingStatus
  <2>2. req' \in [Request -> RequestState]
    BY <1>7, RequestTypes DEF TransitionStatus, Finish, Remember, TypeOK
  <2>3. QED
    BY <1>7, <2>1, <2>2
       DEF closureVars, TransitionStatus, WriteStatus, TypeOK, submissionVars, refundVars
<1>8. ASSUME NEW r \in Request, NEW b \in Booking, RequestRefund(r, b)
      PROVE  TypeOK'
  BY <1>8, RequestTypes, RememberTypeOK DEF RequestRefund
<1>9. ASSUME NEW r \in Request, NEW f \in Refund, CreateRefundRequest(r, f)
      PROVE  TypeOK'
  <2>1. req[r].booking \in Booking
    BY <1>9, RequestShape DEF CreateRefundRequest, RefundReq
  <2>2. req' \in [Request -> RequestState]
    BY <1>9, RequestTypes DEF CreateRefundRequest, Finish, Remember, TypeOK
  <2>3. QED
    BY <1>9, <2>1, <2>2
       DEF closureVars, CreateRefundRequest, WriteStatus, TypeOK, BookingStatus, RefundStatus,
           submissionVars
<1>10. ASSUME NEW r \in Request, NEW f \in Refund, NEW d \in Decision,
              DecideRefund(r, f, d)
       PROVE  TypeOK'
  BY <1>10, RequestTypes, RememberTypeOK DEF DecideRefund
<1>11. ASSUME NEW r \in Request, ApplyRefundDecision(r)
       PROVE  TypeOK'
  <2>1. req[r].refund \in Refund /\ req[r].decision \in Decision
    BY <1>11, RequestShape DEF ApplyRefundDecision, DecisionReq
  <2>2. req' \in [Request -> RequestState]
    BY <1>11, RequestTypes DEF ApplyRefundDecision, Finish, Remember, TypeOK
  <2>3. QED
    BY <1>11, <2>1, <2>2
       DEF closureVars, ApplyRefundDecision, WriteStatus, Outcome, TypeOK, BookingStatus,
           RefundStatus, submissionVars
<1>12. ASSUME NEW r \in Request, NEW f \in Refund, CheckRefundApproved(r, f)
       PROVE  TypeOK'
  BY <1>12, RequestTypes, RememberTypeOK DEF CheckRefundApproved
<1>13. ASSUME NEW r \in Request, CompleteRefund(r)
       PROVE  TypeOK'
  <2>1. req[r].refund \in Refund
    BY <1>13, RequestShape DEF CompleteRefund, PayoutReq
  <2>2. req' \in [Request -> RequestState]
    BY <1>13, RequestTypes DEF CompleteRefund, Finish, Remember, TypeOK
  <2>3. QED
    BY <1>13, <2>1, <2>2
       DEF closureVars, CompleteRefund, TypeOK, RefundStatus, bookingVars, submissionVars
<1>14. ASSUME NEW r \in Request, NEW b \in Booking, CancelByVenue(r, b)
       PROVE  TypeOK'
  BY <1>14, RequestTypes, RememberTypeOK DEF CancelByVenue
<1>15. ASSUME NEW r \in Request, NEW f \in Refund, VenueCancel(r, f)
       PROVE  TypeOK'
  <2>1. req[r].booking \in Booking
    BY <1>15, RequestShape DEF VenueCancel, RefundReq
  <2>2. req' \in [Request -> RequestState]
    BY <1>15, RequestTypes DEF VenueCancel, Finish, Remember, TypeOK
  <2>3. QED
    BY <1>15, <2>1, <2>2
       DEF closureVars, VenueCancel, WriteStatus, TypeOK, BookingStatus, RefundStatus, Decision,
           submissionVars
<1>16. ASSUME NEW r \in Request, Abort(r)
       PROVE  TypeOK'
  BY <1>16, RequestTypes, RememberTypeOK DEF Abort, Finish
<1>17. ASSUME NEW w \in Closure, ClosureStep(w)
       PROVE  TypeOK'
  BY <1>17 DEF ClosureStep, CheckClosure, CreateClosure, AbandonClosure, DeleteClosure,
               TypeOK, bookingVars, submissionVars, refundVars
<1>18. CASE ExpireStaleHolds
  BY <1>18 DEF closureVars, ExpireStaleHolds, TypeOK, BookingStatus, submissionVars, refundVars
<1>19. CASE CompletePastBookings
  BY <1>19 DEF closureVars, CompletePastBookings, TypeOK, BookingStatus, submissionVars, refundVars
<1>20. CASE Tick
  BY <1>20 DEF closureVars, Tick, TypeOK, bookingVars, submissionVars, refundVars
<1>21. CASE UNCHANGED vars
  BY <1>21 DEF closureVars, vars, TypeOK, bookingVars, submissionVars, refundVars
<1>22. QED
  BY <1>1, <1>2, <1>3, <1>4, <1>5, <1>6, <1>7, <1>8, <1>9, <1>10, <1>11, <1>12,
     <1>13, <1>14, <1>15, <1>16, <1>17, <1>18, <1>19, <1>20, <1>21
     DEF Next, RequestStep, RefundStep

(* The tables and the requests keep their types.                           *)
THEOREM TypeCorrect == Spec => []TypeOK
BY InitTypeOK, StepTypeOK, PTL DEF Spec

---------------------------------------------------------------------------
(* What a step may do to the bookings, the submissions and the refunds.    *)

(* Statuses a request may write to an existing row.                        *)
Written == {"PROOF_SUBMITTED", "CONFIRMED", "REJECTED", "REFUND_REQUESTED", "CANCELLED"}

(* Every step leaves the bookings alone, inserts a hold, writes one status *)
(* over a row that has a submission, or is a job that retires bookings.    *)
BookingEffect ==
  \/ UNCHANGED bookingVars
  \/ \E r \in Request, b \in Booking : CreateHold(r, b)
  \/ /\ \E b \in Booking, new \in Written :
          Exists(b) /\ HasProof(b) /\ WriteStatus(b, new)
     /\ UNCHANGED <<slot, deadline>>
  \/ ExpireStaleHolds
  \/ CompletePastBookings

LEMMA StepBookingEffect ==
  ASSUME TypeOK, RowsExist, ReadsStillHold, [Next]_vars
  PROVE  BookingEffect
<1> USE DEF BookingEffect
<1>1. ASSUME NEW r \in Request, TransitionStatus(r)
      PROVE  BookingEffect
  <2>1. req[r].booking \in Booking /\ req[r].next \in Written
    BY <1>1, RequestShape DEF TransitionStatus, StatusReq, Written
  <2>2. Exists(req[r].booking) /\ HasProof(req[r].booking)
    BY <1>1 DEF TransitionStatus, ReadsStillHold, StillHolds
  <2>3. QED
    BY <1>1, <2>1, <2>2 DEF TransitionStatus
<1>2. ASSUME NEW r \in Request, NEW f \in Refund,
             CreateRefundRequest(r, f) \/ VenueCancel(r, f)
      PROVE  BookingEffect
  <2>1. Exists(req[r].booking) /\ HasProof(req[r].booking)
    BY <1>2 DEF CreateRefundRequest, VenueCancel, ReadsStillHold, StillHolds
  <2>2. QED
    BY <1>2, <2>1 DEF CreateRefundRequest, VenueCancel, Exists, Written
<1>3. ASSUME NEW r \in Request, ApplyRefundDecision(r)
      PROVE  BookingEffect
  <2>1. req[r].refund \in Refund
    BY <1>3, RequestShape DEF ApplyRefundDecision, DecisionReq
  <2>2. Exists(refBooking[req[r].refund]) /\ HasProof(refBooking[req[r].refund])
    BY <1>3, <2>1 DEF ApplyRefundDecision, RowsExist, ReadsStillHold, StillHolds
  <2>3. QED
    BY <1>3, <2>2 DEF ApplyRefundDecision, Exists, Outcome, Written
<1>4. QED
  BY <1>1, <1>2, <1>3
     DEF Next, RequestStep, RefundStep, vars, QuoteHold, SubmitProof, SubmitPayment, DecidePayment,
         ReadStatus, RequestRefund, DecideRefund, CheckRefundApproved, CompleteRefund,
         CancelByVenue, Abort, ClosureStep, CheckClosure, CreateClosure,
         AbandonClosure, DeleteClosure, Tick

(* Every step leaves the submissions alone, inserts one for a booking that *)
(* exists, or writes a decision over one.                                  *)
SubmissionEffect ==
  \/ UNCHANGED submissionVars
  \/ \E p \in Ref, b \in Booking :
       /\ subStatus[p] = "NONE" /\ Exists(b)
       /\ subBooking' = [subBooking EXCEPT ![p] = b]
       /\ subStatus' = [subStatus EXCEPT ![p] = "PENDING"]
  \/ \E p \in Ref, d \in Decision :
       /\ subStatus[p] # "NONE"
       /\ subStatus' = [subStatus EXCEPT ![p] = d]
       /\ UNCHANGED subBooking

LEMMA StepSubmissionEffect ==
  ASSUME TypeOK, RowsExist, ReadsStillHold, [Next]_vars
  PROVE  SubmissionEffect
<1> USE DEF SubmissionEffect
<1>1. ASSUME NEW r \in Request, SubmitPayment(r)
      PROVE  SubmissionEffect
  <2>1. req[r].booking \in Booking /\ req[r].ref \in Ref
    BY <1>1, RequestShape DEF SubmitPayment, ProofReq
  <2>2. Exists(req[r].booking)
    BY <1>1 DEF SubmitPayment, ReadsStillHold, StillHolds
  <2>3. QED
    BY <1>1, <2>1, <2>2 DEF SubmitPayment
<1>2. ASSUME NEW r \in Request, NEW b \in Booking, NEW p \in Ref, NEW d \in Decision,
             DecidePayment(r, b, p, d)
      PROVE  SubmissionEffect
  BY <1>2 DEF DecidePayment, MayDecidePayment
<1>3. QED
  BY <1>1, <1>2, ZenonT(40)
     DEF Next, RequestStep, RefundStep, vars, QuoteHold, CreateHold, SubmitProof,
         ReadStatus, TransitionStatus, RequestRefund, CreateRefundRequest, DecideRefund,
         ApplyRefundDecision, CheckRefundApproved, CompleteRefund, CancelByVenue,
         VenueCancel, Abort, ClosureStep, CheckClosure, CreateClosure,
         AbandonClosure, DeleteClosure, ExpireStaleHolds,
         CompletePastBookings, Tick

(* Every step leaves the refunds alone, inserts one for a booking with a   *)
(* submission, or writes a later status over one.                          *)
RefundEffect ==
  \/ UNCHANGED refundVars
  \/ \E f \in Refund, b \in Booking, new \in {"REQUESTED", "APPROVED"} :
       /\ refStatus[f] = "NONE" /\ Exists(b) /\ HasProof(b)
       /\ refBooking' = [refBooking EXCEPT ![f] = b]
       /\ refStatus' = [refStatus EXCEPT ![f] = new]
  \/ \E f \in Refund, new \in Decision \cup {"COMPLETED"} :
       /\ refStatus[f] # "NONE"
       /\ refStatus' = [refStatus EXCEPT ![f] = new]
       /\ UNCHANGED refBooking

LEMMA StepRefundEffect ==
  ASSUME TypeOK, RowsExist, ReadsStillHold, [Next]_vars
  PROVE  RefundEffect
<1> USE DEF RefundEffect
<1>1. ASSUME NEW r \in Request, NEW f \in Refund,
             CreateRefundRequest(r, f) \/ VenueCancel(r, f)
      PROVE  RefundEffect
  <2>1. req[r].booking \in Booking
    BY <1>1, RequestShape DEF CreateRefundRequest, VenueCancel, RefundReq
  <2>2. Exists(req[r].booking) /\ HasProof(req[r].booking)
    BY <1>1 DEF CreateRefundRequest, VenueCancel, ReadsStillHold, StillHolds
  <2>3. QED
    BY <1>1, <2>1, <2>2 DEF CreateRefundRequest, VenueCancel
<1>2. ASSUME NEW r \in Request, ApplyRefundDecision(r)
      PROVE  RefundEffect
  <2>1. req[r].refund \in Refund /\ req[r].decision \in Decision
    BY <1>2, RequestShape DEF ApplyRefundDecision, DecisionReq
  <2>2. refStatus[req[r].refund] # "NONE"
    BY <1>2 DEF ApplyRefundDecision, ReadsStillHold, StillHolds
  <2>3. QED
    BY <1>2, <2>1, <2>2 DEF ApplyRefundDecision
<1>3. ASSUME NEW r \in Request, CompleteRefund(r)
      PROVE  RefundEffect
  <2>1. req[r].refund \in Refund
    BY <1>3, RequestShape DEF CompleteRefund, PayoutReq
  <2>2. refStatus[req[r].refund] # "NONE"
    BY <1>3 DEF CompleteRefund, ReadsStillHold, StillHolds
  <2>3. QED
    BY <1>3, <2>1, <2>2 DEF CompleteRefund
<1>4. QED
  BY <1>1, <1>2, <1>3, ZenonT(40)
     DEF Next, RequestStep, RefundStep, vars, QuoteHold, CreateHold, SubmitProof,
         SubmitPayment, DecidePayment, ReadStatus, TransitionStatus, RequestRefund,
         DecideRefund, CheckRefundApproved, CancelByVenue, Abort, ClosureStep,
         CheckClosure, CreateClosure, AbandonClosure, DeleteClosure, ExpireStaleHolds,
         CompletePastBookings, Tick

(* Rows are never deleted and keep their booking.                          *)
LEMMA RowsStay ==
  ASSUME TypeOK, RowsExist, ReadsStillHold, [Next]_vars
  PROVE  /\ \A b : Exists(b) => Exists(b)'
         /\ \A p \in Ref : subStatus[p] # "NONE" =>
              subStatus'[p] # "NONE" /\ subBooking'[p] = subBooking[p]
         /\ \A f \in Refund : refStatus[f] # "NONE" =>
              refStatus'[f] # "NONE" /\ refBooking'[f] = refBooking[f]
<1>1. \A b : Exists(b) => Exists(b)'
  BY StepBookingEffect
     DEF BookingEffect, bookingVars, CreateHold, WriteStatus, Written, TypeOK, Exists,
         ExpireStaleHolds, CompletePastBookings
<1>2. \A p \in Ref : subStatus[p] # "NONE" =>
        subStatus'[p] # "NONE" /\ subBooking'[p] = subBooking[p]
  BY StepSubmissionEffect DEF SubmissionEffect, submissionVars, TypeOK, Decision
<1>3. \A f \in Refund : refStatus[f] # "NONE" =>
        refStatus'[f] # "NONE" /\ refBooking'[f] = refBooking[f]
  BY StepRefundEffect DEF RefundEffect, refundVars, TypeOK, Decision
<1>4. QED
  BY <1>1, <1>2, <1>3

---------------------------------------------------------------------------
(* While a closure is under way no hold overlaps its window: the check saw *)
(* none, and the lock admits none.                                         *)
HoldsAvoidClosing ==
  \A b \in Booking, w \in closing : status[b] = "HELD" => ~Overlap(slot[b], w)

(* The inductive invariant.  Safety of the refunds and of the proofs needs *)
(* what the requests in flight rely on (ReadsStillHold), because the       *)
(* writes themselves check nothing.                                        *)
Inv ==
  /\ TypeOK
  /\ RowsExist
  /\ ReadsStillHold
  /\ NoDoubleBooking
  /\ HoldsAvoidClosures /\ HoldsAvoidClosing
  /\ ProofBehindProgress
  /\ OpenRefundBehindRequest
  /\ RefundBehindCancellation

LEMMA InitInv == Init => Inv
<1> SUFFICES ASSUME Init PROVE Inv
  OBVIOUS
<1> USE DEF Init
<1>1. TypeOK
  BY InitTypeOK
<1>2. RowsExist /\ ReadsStillHold
  BY DEF RowsExist, ReadsStillHold, StillHolds, Idle
<1>3. NoDoubleBooking /\ HoldsAvoidClosures /\ HoldsAvoidClosing
  BY DEF NoDoubleBooking, HoldsAvoidClosures, HoldsAvoidClosing, Blocking
<1>4. ProofBehindProgress /\ OpenRefundBehindRequest /\ RefundBehindCancellation
  BY DEF ProofBehindProgress, OpenRefundBehindRequest, RefundBehindCancellation
<1>5. QED
  BY <1>1, <1>2, <1>3, <1>4 DEF Inv

LEMMA ProofsStay ==
  ASSUME TypeOK, RowsExist, ReadsStillHold, [Next]_vars, NEW b \in Booking, HasProof(b)
  PROVE  HasProof(b)'
<1>1. PICK p \in Ref : subBooking[p] = b
  BY DEF HasProof
<1>2. subStatus[p] # "NONE"
  BY <1>1, ConstantsAssumption DEF RowsExist
<1>3. subBooking'[p] = b
  BY <1>1, <1>2, RowsStay
<1>4. QED
  BY <1>3 DEF HasProof

(* No write puts two overlapping bookings into blocking statuses.          *)
LEMMA StepNoDoubleBooking ==
  ASSUME TypeOK, RowsExist, ReadsStillHold, NoDoubleBooking, [Next]_vars
  PROVE  NoDoubleBooking'
<1> SUFFICES ASSUME NEW b \in Booking, NEW c \in Booking, b # c,
                    status'[b] \in Blocking, status'[c] \in Blocking
             PROVE  ~Overlap(slot'[b], slot'[c])
  BY DEF NoDoubleBooking
<1> USE DEF TypeOK
<1>0. \A s, t \in Interval : Overlap(s, t) <=> Overlap(t, s)
  BY DEF Overlap
<1>1. CASE UNCHANGED bookingVars
  BY <1>1 DEF NoDoubleBooking, bookingVars
<1>2. ASSUME NEW r \in Request, NEW a \in Booking, CreateHold(r, a)
      PROVE  ~Overlap(slot'[b], slot'[c])
  BY <1>2, <1>0
     DEF CreateHold, ExclusionAllows, NoDoubleBooking, Overlap
<1>3. ASSUME NEW a \in Booking, NEW new \in Written, WriteStatus(a, new),
             UNCHANGED <<slot, deadline>>
      PROVE  ~Overlap(slot'[b], slot'[c])
  BY <1>3, <1>0 DEF WriteStatus, ExclusionAllows, NoDoubleBooking, Overlap
<1>4. CASE ExpireStaleHolds \/ CompletePastBookings
  BY <1>4 DEF ExpireStaleHolds, CompletePastBookings, NoDoubleBooking, Blocking
<1>5. QED
  BY <1>1, <1>2, <1>3, <1>4, StepBookingEffect DEF BookingEffect, Exists

LEMMA StepClosureEffect ==
  ASSUME [Next]_vars
  PROVE  UNCHANGED closureVars \/ \E w \in Closure : ClosureStep(w)
BY ZenonT(40) DEF Next, RequestStep, RefundStep, vars, QuoteHold, CreateHold, SubmitProof, SubmitPayment,
       DecidePayment, ReadStatus, TransitionStatus, RequestRefund, CreateRefundRequest,
       DecideRefund, ApplyRefundDecision, CheckRefundApproved, CompleteRefund,
       CancelByVenue, VenueCancel, Abort, ExpireStaleHolds, CompletePastBookings, Tick

LEMMA StepHoldsAvoidClosures ==
  ASSUME TypeOK, RowsExist, ReadsStillHold, HoldsAvoidClosures, HoldsAvoidClosing, [Next]_vars
  PROVE  HoldsAvoidClosures' /\ HoldsAvoidClosing'
<1> USE DEF HoldsAvoidClosures, HoldsAvoidClosing, ClosedFor
<1>1. ASSUME NEW w \in Closure, ClosureStep(w)
      PROVE  HoldsAvoidClosures' /\ HoldsAvoidClosing'
  BY <1>1 DEF ClosureStep, CheckClosure, CreateClosure, AbandonClosure, DeleteClosure,
              Blocking, bookingVars
<1>2. CASE UNCHANGED closureVars
  <2> USE DEF closureVars
  <2>1. ASSUME NEW r \in Request, NEW a \in Booking, CreateHold(r, a)
        PROVE  HoldsAvoidClosures' /\ HoldsAvoidClosing'
    <3>1. \A w \in closing : ~Overlap(req[r].slot, w)
      BY <2>1 DEF CreateHold, LockFree, Overlap
    <3>2. QED
      BY <2>1, <3>1, <1>2 DEF CreateHold, TypeOK
  <2>2. ASSUME NEW a \in Booking, NEW new \in Written, WriteStatus(a, new),
               UNCHANGED <<slot, deadline>>
        PROVE  HoldsAvoidClosures' /\ HoldsAvoidClosing'
    BY <2>2, <1>2 DEF WriteStatus, Written, TypeOK
  <2>3. CASE ExpireStaleHolds \/ CompletePastBookings
    BY <2>3, <1>2 DEF ExpireStaleHolds, CompletePastBookings, TypeOK
  <2>4. CASE UNCHANGED bookingVars
    BY <2>4, <1>2 DEF bookingVars
  <2>5. QED
    BY <2>1, <2>2, <2>3, <2>4, StepBookingEffect DEF BookingEffect, Exists
<1>3. QED
  BY <1>1, <1>2, StepClosureEffect

LEMMA StepRowsExist ==
  ASSUME TypeOK, RowsExist, ReadsStillHold, [Next]_vars
  PROVE  RowsExist'
<1> USE ConstantsAssumption
<1>1. ASSUME NEW b \in Booking
      PROVE  slot'[b] = None <=> status'[b] = "NONE"
  <2>1. ASSUME NEW r \in Request, NEW a \in Booking, CreateHold(r, a)
        PROVE  slot'[b] = None <=> status'[b] = "NONE"
    <3>1. req[r].slot \in Slot
      BY <2>1, RequestShape DEF CreateHold, HoldReq
    <3>2. QED
      BY <2>1, <3>1 DEF CreateHold, RowsExist, TypeOK
  <2>2. ASSUME NEW a \in Booking, NEW new \in Written, Exists(a), WriteStatus(a, new),
               UNCHANGED <<slot, deadline>>
        PROVE  slot'[b] = None <=> status'[b] = "NONE"
    BY <2>2 DEF WriteStatus, Written, Exists, RowsExist, TypeOK
  <2>3. CASE ExpireStaleHolds \/ CompletePastBookings
    BY <2>3 DEF ExpireStaleHolds, CompletePastBookings, Stale, Past, RowsExist, TypeOK
  <2>4. CASE UNCHANGED bookingVars
    BY <2>4 DEF bookingVars, RowsExist
  <2>5. QED
    BY <2>1, <2>2, <2>3, <2>4, StepBookingEffect DEF BookingEffect, Exists
<1>2. ASSUME NEW p \in Ref
      PROVE  /\ subBooking'[p] = None <=> subStatus'[p] = "NONE"
             /\ subStatus'[p] # "NONE" => Exists(subBooking[p])'
  <2>1. SubmissionEffect
    BY StepSubmissionEffect
  <2>2. subBooking'[p] = None <=> subStatus'[p] = "NONE"
    BY <2>1 DEF SubmissionEffect, submissionVars, RowsExist, TypeOK, Decision
  <2>3. subStatus'[p] # "NONE" => Exists(subBooking'[p])
    BY <2>1 DEF SubmissionEffect, submissionVars, RowsExist, TypeOK, Decision, Exists
  <2>4. subStatus'[p] # "NONE" => Exists(subBooking[p])'
    BY <2>3, RowsStay DEF Exists
  <2>5. QED
    BY <2>2, <2>4
<1>3. ASSUME NEW f \in Refund, refStatus'[f] # "NONE"
      PROVE  Exists(refBooking[f])' /\ HasProof(refBooking[f])'
  <2>1. RefundEffect
    BY StepRefundEffect
  <2>2. Exists(refBooking'[f]) /\ HasProof(refBooking'[f])
    BY <1>3, <2>1 DEF RefundEffect, refundVars, RowsExist, TypeOK, Exists, Decision
  <2>3. Exists(refBooking[f])'
    BY <2>2, RowsStay DEF Exists
  <2>4. HasProof(refBooking[f])'
    BY <2>2, ProofsStay DEF Exists, HasProof
  <2>5. QED
    BY <2>3, <2>4
<1>4. QED
  BY <1>1, <1>2, <1>3 DEF RowsExist

(* Whatever a request remembers, no step makes it stop holding.            *)
LEMMA StillHoldsStable ==
  ASSUME TypeOK, RowsExist, ReadsStillHold, [Next]_vars,
         NEW q \in RequestState, StillHolds(q)
  PROVE  StillHolds(q)'
<1> USE DEF StillHolds
<1>1. q.at \in {"submitPayment", "readStatus", "writeStatus",
               "createRefundRequest", "venueCancel"} => Exists(q.booking)'
  BY RowsStay
<1>2. q.at = "readStatus" /\ q.expected = "HELD" => HasProof(q.booking)'
  BY ProofsStay DEF Exists
<1>3. q.at \in {"writeStatus", "createRefundRequest", "venueCancel"} => HasProof(q.booking)'
  BY ProofsStay DEF Exists
<1>4. q.at \in {"decideRefund", "completeRefund"} => q.refund \in Refund
  BY DEF RequestState, Idle, HoldReq, ProofReq, StatusReq, RefundReq, DecisionReq, PayoutReq
<1>5. q.at = "decideRefund" => refStatus'[q.refund] # "NONE"
  BY <1>4, RowsStay
<1>6. q.at = "completeRefund" => refStatus'[q.refund] \notin {"NONE", "REQUESTED"}
  BY <1>4, StepRefundEffect DEF RefundEffect, refundVars, TypeOK, Decision
<1>7. QED
  BY <1>1, <1>2, <1>3, <1>5, <1>6

(* A step of request s that leaves it with a state of which everything     *)
(* still holds.                                                            *)
LEMMA RememberStillHolds ==
  ASSUME TypeOK, RowsExist, ReadsStillHold, [Next]_vars,
         NEW s \in Request, NEW state, Remember(s, state), StillHolds(state)'
  PROVE  ReadsStillHold'
<1> SUFFICES ASSUME NEW r \in Request
             PROVE  StillHolds(req[r])'
  BY DEF ReadsStillHold
<1>1. CASE r = s
  <2>1. req'[r] = state
    BY <1>1 DEF Remember, TypeOK
  <2>2. QED
    BY <2>1 DEF StillHolds
<1>2. CASE r # s
  <2>1. req'[r] = req[r] /\ req[r] \in RequestState
    BY <1>2 DEF Remember, TypeOK
  <2>2. StillHolds(req[r])
    BY DEF ReadsStillHold
  <2>3. ASSUME NEW q \in RequestState, StillHolds(q)
        PROVE  StillHolds(q)'
    BY <2>3, StillHoldsStable
  <2>4. QED
    BY <2>1, <2>2, <2>3 DEF StillHolds
<1>3. QED
  BY <1>1, <1>2

LEMMA StepReadsStillHold ==
  ASSUME TypeOK, RowsExist, ReadsStillHold, ProofBehindProgress, [Next]_vars
  PROVE  ReadsStillHold'
<1> USE DEF StillHolds
<1>1. ASSUME NEW r \in Request, Finish(r)
      PROVE  ReadsStillHold'
  <2>1. StillHolds(Idle)'
    BY DEF Idle
  <2>2. QED
    BY <1>1, <2>1, RememberStillHolds DEF Finish
<1>2. ASSUME NEW r \in Request, NEW s \in Slot, QuoteHold(r, s)
      PROVE  ReadsStillHold'
  <2>1. PICK d \in Nat : d = now + HoldDuration
    BY ConstantsAssumption DEF TypeOK
  <2> DEFINE q == [at |-> "createHold", slot |-> s, deadline |-> d]
  <2>2. StillHolds(q)'
    OBVIOUS
  <2>3. Remember(r, q)
    BY <1>2, <2>1 DEF QuoteHold
  <2>4. QED
    BY <2>2, <2>3, RememberStillHolds
<1>3. ASSUME NEW r \in Request, NEW b \in Booking, NEW p \in Ref, SubmitProof(r, b, p)
      PROVE  ReadsStillHold'
  <2> DEFINE q == [at |-> "submitPayment", booking |-> b, ref |-> p]
  <2>1. Exists(b)'
    BY <1>3, RowsStay DEF SubmitProof, Exists
  <2>2. StillHolds(q)'
    BY <2>1
  <2>3. Remember(r, q)
    BY <1>3 DEF SubmitProof
  <2>4. QED
    BY <2>2, <2>3, RememberStillHolds
<1>4. ASSUME NEW r \in Request, SubmitPayment(r)
      PROVE  ReadsStillHold'
  <2>1. PICK b \in Booking : b = req[r].booking
    BY <1>4, RequestShape DEF SubmitPayment, ProofReq
  <2> DEFINE q == [at |-> "readStatus", booking |-> b, expected |-> "HELD",
                   next |-> "PROOF_SUBMITTED"]
  <2>2. Exists(b)'
    BY <1>4, <2>1, RowsStay DEF SubmitPayment, ReadsStillHold
  <2>3. HasProof(b)'
    <3>1. req[r].ref \in Ref
      BY <1>4, RequestShape DEF SubmitPayment, ProofReq
    <3>2. QED
      BY <1>4, <2>1, <3>1 DEF SubmitPayment, TypeOK, HasProof
  <2>4. StillHolds(q)'
    BY <2>2, <2>3
  <2>5. Remember(r, q)
    BY <1>4, <2>1 DEF SubmitPayment
  <2>6. QED
    BY <2>4, <2>5, RememberStillHolds
<1>5. ASSUME NEW r \in Request, NEW b \in Booking, NEW p \in Ref, NEW d \in Decision,
             DecidePayment(r, b, p, d)
      PROVE  ReadsStillHold'
  <2> DEFINE q == [at |-> "readStatus", booking |-> b, expected |-> "PROOF_SUBMITTED",
                   next |-> IF d = "APPROVED" THEN "CONFIRMED" ELSE "REJECTED"]
  <2>1. Exists(b)'
    BY <1>5, RowsStay DEF DecidePayment, MayDecidePayment, Exists
  <2>2. StillHolds(q)'
    BY <2>1
  <2>3. Remember(r, q)
    BY <1>5 DEF DecidePayment
  <2>4. QED
    BY <2>2, <2>3, RememberStillHolds
<1>6. ASSUME NEW r \in Request, ReadStatus(r)
      PROVE  ReadsStillHold'
  <2>1. PICK q0 \in StatusReq : q0 = req[r]
    BY <1>6, RequestShape DEF ReadStatus
  <2> DEFINE q == [q0 EXCEPT !.at = "writeStatus"]
  <2>2. Exists(q0.booking)
    BY <1>6, <2>1 DEF ReadStatus, ReadsStillHold
  <2>3. HasProof(q0.booking)
    <3>1. CASE q0.expected = "HELD"
      BY <1>6, <2>1, <3>1 DEF ReadStatus, ReadsStillHold
    <3>2. CASE q0.expected = "PROOF_SUBMITTED"
      BY <1>6, <2>1, <2>2, <3>2 DEF ReadStatus, ProofBehindProgress, Exists
    <3>3. QED
      BY <3>1, <3>2 DEF StatusReq
  <2>4. Exists(q0.booking)' /\ HasProof(q0.booking)'
    BY <2>2, <2>3, RowsStay, ProofsStay DEF Exists
  <2>5. StillHolds(q)'
    BY <2>4 DEF StatusReq
  <2>6. Remember(r, q)
    BY <1>6, <2>1 DEF ReadStatus
  <2>7. QED
    BY <2>5, <2>6, RememberStillHolds
<1>7. ASSUME NEW r \in Request, NEW b \in Booking, RequestRefund(r, b) \/ CancelByVenue(r, b)
      PROVE  ReadsStillHold'
  <2>1. PICK at \in {"createRefundRequest", "venueCancel"} :
          Remember(r, [at |-> at, booking |-> b])
    BY <1>7 DEF RequestRefund, CancelByVenue
  <2>2. Exists(b) /\ HasProof(b)
    BY <1>7 DEF RequestRefund, CancelByVenue, MayCancel, Exists, ProofBehindProgress
  <2>3. Exists(b)' /\ HasProof(b)'
    BY <2>2, RowsStay, ProofsStay
  <2> DEFINE q == [at |-> at, booking |-> b]
  <2>4. StillHolds(q)'
    BY <2>3
  <2>5. QED
    BY <2>1, <2>4, RememberStillHolds
<1>8. ASSUME NEW r \in Request, NEW f \in Refund, NEW d \in Decision, DecideRefund(r, f, d)
      PROVE  ReadsStillHold'
  <2> DEFINE q == [at |-> "decideRefund", refund |-> f, decision |-> d]
  <2>1. refStatus'[f] # "NONE"
    BY <1>8, RowsStay DEF DecideRefund, MayDecideRefund
  <2>2. StillHolds(q)'
    BY <2>1
  <2>3. Remember(r, q)
    BY <1>8 DEF DecideRefund
  <2>4. QED
    BY <2>2, <2>3, RememberStillHolds
<1>9. ASSUME NEW r \in Request, NEW f \in Refund, CheckRefundApproved(r, f)
      PROVE  ReadsStillHold'
  <2> DEFINE q == [at |-> "completeRefund", refund |-> f]
  <2>1. refStatus'[f] = "APPROVED"
    BY <1>9 DEF CheckRefundApproved, refundVars
  <2>2. StillHolds(q)'
    BY <2>1
  <2>3. Remember(r, q)
    BY <1>9 DEF CheckRefundApproved
  <2>4. QED
    BY <2>2, <2>3, RememberStillHolds
<1>10. CASE UNCHANGED req
  <2> SUFFICES ASSUME NEW r \in Request
               PROVE  StillHolds(req[r])'
    BY DEF ReadsStillHold
  <2>1. PICK q \in RequestState : q = req[r]
    BY DEF TypeOK
  <2>2. StillHolds(q)
    BY <2>1 DEF ReadsStillHold
  <2>3. StillHolds(q)'
    BY <2>2, StillHoldsStable
  <2>4. QED
    BY <1>10, <2>1, <2>3
<1>11. QED
  <2>1. ASSUME NEW r \in Request, RequestStep(r)
        PROVE  ReadsStillHold'
    <3>1. \/ Finish(r)
          \/ \E s \in Slot : QuoteHold(r, s)
          \/ \E b \in Booking : \/ \E p \in Ref : SubmitProof(r, b, p)
                                \/ \E p \in Ref, d \in Decision : DecidePayment(r, b, p, d)
                                \/ RequestRefund(r, b) \/ CancelByVenue(r, b)
          \/ \E f \in Refund : \/ \E d \in Decision : DecideRefund(r, f, d)
                               \/ CheckRefundApproved(r, f)
          \/ SubmitPayment(r) \/ ReadStatus(r)
      BY <2>1 DEF RequestStep, RefundStep, CreateHold, TransitionStatus, CreateRefundRequest,
                  ApplyRefundDecision, CompleteRefund, VenueCancel, Abort
    <3>2. QED
      BY <3>1, <1>1, <1>2, <1>3, <1>4, <1>5, <1>6, <1>7, <1>8, <1>9
  <2>2. UNCHANGED req \/ \E r \in Request : RequestStep(r)
    BY DEF Next, vars, ClosureStep, CheckClosure, CreateClosure,
         AbandonClosure, DeleteClosure, ExpireStaleHolds,
           CompletePastBookings, Tick
  <2>3. QED
    BY <1>10, <2>1, <2>2

LEMMA StepProofBehindProgress ==
  ASSUME TypeOK, RowsExist, ReadsStillHold, ProofBehindProgress, [Next]_vars
  PROVE  ProofBehindProgress'
<1> SUFFICES ASSUME NEW b \in Booking, status'[b] \notin {"NONE", "HELD", "EXPIRED"}
             PROVE  HasProof(b)'
  BY DEF ProofBehindProgress
<1>1. HasProof(b)
  <2> USE DEF TypeOK, ProofBehindProgress
  <2>1. ASSUME NEW r \in Request, NEW a \in Booking, CreateHold(r, a)
        PROVE  HasProof(b)
    BY <2>1 DEF CreateHold
  <2>2. ASSUME NEW a \in Booking, NEW new \in Written, HasProof(a), WriteStatus(a, new)
        PROVE  HasProof(b)
    BY <2>2 DEF WriteStatus
  <2>3. CASE ExpireStaleHolds \/ CompletePastBookings
    BY <2>3 DEF ExpireStaleHolds, CompletePastBookings, Past
  <2>4. CASE UNCHANGED bookingVars
    BY <2>4 DEF bookingVars
  <2>5. QED
    BY <2>1, <2>2, <2>3, <2>4, StepBookingEffect DEF BookingEffect
<1>2. QED
  BY <1>1, ProofsStay

(* The two invariants that tie a booking's status to its refunds.  Only    *)
(* the four refund writes touch both; every other step leaves the refunds  *)
(* alone and writes neither REFUND_REQUESTED nor CANCELLED.                *)
LEMMA StepRefunds ==
  ASSUME TypeOK, RowsExist, ReadsStillHold, OpenRefundBehindRequest,
         RefundBehindCancellation, [Next]_vars
  PROVE  OpenRefundBehindRequest' /\ RefundBehindCancellation'
<1> USE DEF OpenRefundBehindRequest, RefundBehindCancellation
<1> DEFINE Kept == /\ OpenRefundBehindRequest'
                   /\ RefundBehindCancellation'
<1>1. ASSUME NEW r \in Request, NEW f \in Refund, CreateRefundRequest(r, f)
      PROVE  Kept
  BY <1>1 DEF CreateRefundRequest, WriteStatus, TypeOK
<1>2. ASSUME NEW r \in Request, NEW f \in Refund, VenueCancel(r, f)
      PROVE  Kept
  BY <1>2 DEF VenueCancel, WriteStatus, TypeOK
<1>3. ASSUME NEW r \in Request, ApplyRefundDecision(r)
      PROVE  Kept
  <2>1. req[r].refund \in Refund /\ req[r].decision \in Decision
    BY <1>3, RequestShape DEF ApplyRefundDecision, DecisionReq
  <2>2. Exists(refBooking[req[r].refund])
    BY <1>3, <2>1 DEF ApplyRefundDecision, RowsExist, ReadsStillHold, StillHolds
  <2> DEFINE f == req[r].refund
             b == refBooking[f]
             d == req[r].decision
  <2>3. status' = [status EXCEPT ![b] = Outcome(d)] /\ refStatus' = [refStatus EXCEPT ![f] = d]
    BY <1>3 DEF ApplyRefundDecision, WriteStatus
  <2>4. UNCHANGED refBooking
    BY <1>3 DEF ApplyRefundDecision
  <2>5. QED
    BY <2>1, <2>2, <2>3, <2>4 DEF Outcome, Decision, Exists, TypeOK
<1>4. ASSUME NEW r \in Request, CompleteRefund(r)
      PROVE  Kept
  <2>1. req[r].refund \in Refund
    BY <1>4, RequestShape DEF CompleteRefund, PayoutReq
  <2>2. refStatus[req[r].refund] # "REQUESTED"
    BY <1>4 DEF CompleteRefund, ReadsStillHold, StillHolds
  <2>3. QED
    BY <1>4, <2>1, <2>2 DEF CompleteRefund, TypeOK, bookingVars
<1>5. CASE /\ UNCHANGED refundVars
           /\ \A b \in Booking : \/ status'[b] = status[b]
                                 \/ status'[b] \notin {"REFUND_REQUESTED", "CANCELLED"}
  BY <1>5 DEF refundVars
<1>6. QED
  <2>1. ASSUME NEW r \in Request, NEW a \in Booking, CreateHold(r, a)
        PROVE  Kept
    BY <1>5, <2>1 DEF CreateHold, TypeOK
  <2>2. ASSUME NEW r \in Request, TransitionStatus(r)
        PROVE  Kept
    <3>1. req[r].next \notin {"REFUND_REQUESTED", "CANCELLED"}
      BY <2>2, RequestShape DEF TransitionStatus, StatusReq
    <3>2. QED
      BY <1>5, <2>2, <3>1 DEF TransitionStatus, WriteStatus, TypeOK
  <2>3. CASE ExpireStaleHolds \/ CompletePastBookings
    BY <1>5, <2>3 DEF ExpireStaleHolds, CompletePastBookings
  <2>4. CASE UNCHANGED <<bookingVars, refundVars>>
    BY <1>5, <2>4 DEF bookingVars
  <2>5. QED
    BY <1>1, <1>2, <1>3, <1>4, <2>1, <2>2, <2>3, <2>4
       DEF Next, RequestStep, RefundStep, vars, QuoteHold, SubmitProof, SubmitPayment, DecidePayment,
           ReadStatus, RequestRefund, DecideRefund, CheckRefundApproved, CancelByVenue,
           Abort, ClosureStep, CheckClosure, CreateClosure,
         AbandonClosure, DeleteClosure, Tick

LEMMA StepInv == Inv /\ [Next]_vars => Inv'
BY StepTypeOK, StepRowsExist, StepReadsStillHold, StepNoDoubleBooking,
   StepHoldsAvoidClosures, StepProofBehindProgress, StepRefunds
   DEF Inv

LEMMA Invariance == Spec => []Inv
BY InitInv, StepInv, PTL DEF Spec

---------------------------------------------------------------------------
(* Two bookings that block a court never overlap on it, for any number of  *)
(* bookings, requests, staff and jobs: the exclusion constraint guards     *)
(* every write that enters a blocking status, the late ones included.      *)
THEOREM DoubleBookingImpossible == Spec => []NoDoubleBooking
<1>1. Inv => NoDoubleBooking
  BY DEF Inv
<1>2. QED
  BY <1>1, Invariance, PTL

(* No hold stands on a closure: createHold and createClosure exclude each  *)
(* other's windows and nothing else returns a booking to HELD.             *)
THEOREM HoldsOffClosures == Spec => []HoldsAvoidClosures
<1>1. Inv => HoldsAvoidClosures
  BY DEF Inv
<1>2. QED
  BY <1>1, Invariance, PTL

(* No booking leaves its hold but by a payment submission or by expiring.  *)
THEOREM ProgressNeedsProof == Spec => []ProofBehindProgress
<1>1. Inv => ProofBehindProgress
  BY DEF Inv
<1>2. QED
  BY <1>1, Invariance, PTL

(* A booking in the refund queue has a refund that is still to be decided, *)
(* and a cancelled one a refund that was granted, although the refund and  *)
(* the booking are read and written by requests that do not wait for each  *)
(* other.                                                                  *)
THEOREM RefundsMatchBookings == Spec => []RefundsBehindBookings
<1>1. Inv => RefundsBehindBookings
  BY DEF Inv, RefundsBehindBookings
<1>2. QED
  BY <1>1, Invariance, PTL

(* Submissions and refunds belong to bookings that exist, refunds to paid  *)
(* ones, whatever order the handlers commit in.                            *)
THEOREM RowsAreSound == Spec => []RowsExist
<1>1. Inv => RowsExist
  BY DEF Inv
<1>2. QED
  BY <1>1, Invariance, PTL

(* What requests remember between two of their transactions still holds    *)
(* when they act on it, as far as the handlers rely on it.                 *)
THEOREM ReadsHoldUntilUsed == Spec => []ReadsStillHold
<1>1. Inv => ReadsStillHold
  BY DEF Inv
<1>2. QED
  BY <1>1, Invariance, PTL

(* Only the expiry job writes EXPIRED, and only over a hold whose deadline *)
(* has passed: never over a booking under review or confirmed.             *)
THEOREM ExpiryOnlyOverdue == Spec => ExpiryTakesOnlyOverdueHolds
<1> DEFINE OnlyHeld(b) == status[b] # "EXPIRED" /\ status'[b] = "EXPIRED" =>
                           status[b] = "HELD" /\ deadline[b] < now
<1>1. ASSUME Inv, [Next]_vars, NEW b \in Booking
      PROVE  OnlyHeld(b)
  <2> USE <1>1 DEF Inv, TypeOK
  <2>1. ASSUME NEW r \in Request, NEW a \in Booking, CreateHold(r, a)
        PROVE  OnlyHeld(b)
    BY <2>1 DEF CreateHold
  <2>2. ASSUME NEW a \in Booking, NEW new \in Written, WriteStatus(a, new)
        PROVE  OnlyHeld(b)
    BY <2>2 DEF WriteStatus, Written
  <2>3. CASE ExpireStaleHolds \/ CompletePastBookings
    BY <2>3 DEF ExpireStaleHolds, CompletePastBookings, Stale
  <2>4. CASE UNCHANGED bookingVars
    BY <2>4 DEF bookingVars
  <2>5. QED
    BY <2>1, <2>2, <2>3, <2>4, StepBookingEffect DEF BookingEffect
<1>2. Inv /\ [Next]_vars => \A b \in Booking : OnlyHeld(b)
  BY <1>1
<1>3. QED
  BY <1>2, Invariance, PTL DEF Spec, ExpiryTakesOnlyOverdueHolds

---------------------------------------------------------------------------
(* Refinement of CourtCalendar.                                            *)

Paid == {b \in Booking : HasProof(b)}
Phases == [b \in Booking |-> PhaseOf(status[b])]

LEMMA RefinementInit == Init => Calendar!Init
BY ConstantsAssumption DEF Init, Calendar!Init, PhaseOf, HasProof

(* Entering a blocking status secures the booking in the calendar; any     *)
(* other write releases it, or finds it released.                          *)
LEMMA RefinementWrite ==
  ASSUME Inv, UNCHANGED <<subBooking, closureVars, slot>>,
         NEW b \in Booking, NEW new \in Written,
         Exists(b), HasProof(b), WriteStatus(b, new)
  PROVE  [Calendar!Next]_Calendar!vars
<1> USE DEF Inv, TypeOK
<1>1. Paid' = Paid
  BY DEF Paid, HasProof
<1>2. Phases' = [Phases EXCEPT ![b] = PhaseOf(new)]
  BY DEF Phases, WriteStatus
<1>3. \A c \in Booking : Calendar!Live(c) <=> status[c] \in Blocking
  BY DEF Calendar!Live, PhaseOf, Blocking
<1>4. Phases[b] # "free"
  BY DEF Phases, PhaseOf, Exists, BookingStatus, Blocking
<1>5. CASE new \in Blocking
  <2>1. PhaseOf(new) = "firm"
    BY <1>5 DEF PhaseOf, Written
  <2>2. Calendar!Available(b, slot[b])
    BY <1>3, <1>5 DEF WriteStatus, ExclusionAllows, Calendar!Available, Calendar!Overlap, Overlap
  <2>3. Calendar!Secure(b)
    BY <1>1, <1>2, <1>4, <2>1, <2>2 DEF closureVars, Calendar!Secure, Paid, Phases
  <2>4. QED
    BY <2>3 DEF Calendar!Next
<1>6. CASE new \notin Blocking
  <2>1. PhaseOf(new) = "released"
    BY <1>6 DEF PhaseOf, Written, Blocking
  <2>2. CASE status[b] \in Blocking
    <3>1. Calendar!Release({b})
      BY <1>1, <1>2, <1>3, <2>1, <2>2 DEF closureVars, Calendar!Release, Paid, Phases
    <3>2. QED
      BY <3>1 DEF Calendar!Next
  <2>3. CASE status[b] \notin Blocking
    <3>1. Phases[b] = "released"
      BY <2>3 DEF Phases, PhaseOf, Exists, Blocking
    <3>2. Phases' = Phases
      BY <1>2, <2>1, <3>1 DEF Phases
    <3>3. QED
      BY <1>1, <3>2 DEF closureVars, Calendar!vars, Paid, Phases
  <2>4. QED
    BY <2>2, <2>3
<1>7. QED
  BY <1>5, <1>6

LEMMA OnlySubmitPaymentInserts ==
  ASSUME [Next]_vars
  PROVE  UNCHANGED subBooking \/ \E r \in Request : SubmitPayment(r)
<1>1. \/ UNCHANGED submissionVars
      \/ \E r \in Request : SubmitPayment(r)
      \/ \E r \in Request, b \in Booking, p \in Ref, d \in Decision : DecidePayment(r, b, p, d)
  BY ZenonT(40) DEF Next, RequestStep, RefundStep, vars, QuoteHold, CreateHold, SubmitProof, ReadStatus,
         TransitionStatus, RequestRefund, CreateRefundRequest, DecideRefund,
         ApplyRefundDecision, CheckRefundApproved, CompleteRefund, CancelByVenue,
         VenueCancel, Abort, ClosureStep, CheckClosure, CreateClosure,
         AbandonClosure, DeleteClosure, ExpireStaleHolds,
         CompletePastBookings, Tick
<1>2. QED
  BY <1>1 DEF submissionVars, DecidePayment

LEMMA RefinementStep == Inv /\ [Next]_vars => [Calendar!Next]_Calendar!vars
<1> SUFFICES ASSUME Inv, [Next]_vars
             PROVE  [Calendar!Next]_Calendar!vars
  OBVIOUS
<1> USE DEF Inv, TypeOK
<1>1. \A c \in Booking : Calendar!Live(c) <=> status[c] \in Blocking
  BY DEF Calendar!Live, PhaseOf, Blocking
<1>2. ASSUME NEW r \in Request, SubmitPayment(r)
      PROVE  Calendar!Next
  <2>1. req[r].booking \in Booking /\ req[r].ref \in Ref
    BY <1>2, RequestShape DEF SubmitPayment, ProofReq
  <2> DEFINE b == req[r].booking
  <2>2. Exists(b) /\ subStatus[req[r].ref] = "NONE"
    BY <1>2 DEF SubmitPayment, ReadsStillHold, StillHolds
  <2>3. subBooking[req[r].ref] = None
    BY <2>1, <2>2 DEF RowsExist
  <2>4. \A c \in Booking : HasProof(c)' <=> HasProof(c) \/ c = b
    BY <1>2, <2>1, <2>3, ConstantsAssumption DEF SubmitPayment, HasProof
  <2>5. Paid' = Paid \cup {b}
    BY <2>1, <2>4 DEF Paid
  <2>6. Phases[b] # "free"
    BY <2>1, <2>2 DEF Phases, PhaseOf, Exists, Blocking
  <2>7. Calendar!Pay(b)
    BY <1>2, <2>5, <2>6 DEF closureVars, SubmitPayment, Calendar!Pay, Paid, Phases, bookingVars
  <2>8. QED
    BY <2>1, <2>7 DEF Calendar!Next
<1>3. ASSUME NEW w \in Closure, ClosureStep(w)
      PROVE  Calendar!Next
  <2>1. Paid' = Paid /\ Phases' = Phases /\ slot' = slot
    BY <1>3 DEF ClosureStep, CheckClosure, CreateClosure, AbandonClosure, DeleteClosure,
                bookingVars, submissionVars, Paid, Phases, HasProof
  <2>2. \/ Calendar!BeginClosing(w) \/ Calendar!Close(w)
        \/ Calendar!Withdraw(w) \/ Calendar!Reopen(w)
    BY <1>1, <1>3, <2>1
       DEF ClosureStep, CheckClosure, CreateClosure, AbandonClosure, DeleteClosure,
           Calendar!BeginClosing, Calendar!Close, Calendar!Withdraw, Calendar!Reopen,
           Paid, Phases, Calendar!Overlap, Overlap
  <2>3. QED
    BY <2>2 DEF Calendar!Next
<1>4. CASE UNCHANGED <<subBooking, closureVars>>
  <2>1. Paid' = Paid
    BY <1>4 DEF Paid, HasProof
  <2>2. ASSUME NEW r \in Request, NEW b \in Booking, CreateHold(r, b)
        PROVE  Calendar!Next
    <3>1. req[r].slot \in Slot
      BY <2>2, RequestShape DEF CreateHold, HoldReq
    <3>2. Phases' = [Phases EXCEPT ![b] = "tentative"] /\ Phases[b] = "free"
      BY <2>2 DEF CreateHold, Phases, PhaseOf
    <3>3. /\ Calendar!Available(b, req[r].slot) /\ ~ClosedFor(req[r].slot)
          /\ \A w \in closing : ~Overlap(req[r].slot, w)
      BY <1>1, <2>2
         DEF CreateHold, LockFree, ExclusionAllows, Calendar!Available, Calendar!Overlap, Overlap
    <3>4. Calendar!Reserve(b, req[r].slot)
      BY <1>4, <2>1, <2>2, <3>2, <3>3
         DEF CreateHold, Calendar!Reserve, Paid, Phases, ClosedFor, Calendar!Overlap, Overlap,
             closureVars
    <3>5. QED
      BY <3>1, <3>4 DEF Calendar!Next
  <2>3. ASSUME NEW b \in Booking, NEW new \in Written, Exists(b), HasProof(b),
               WriteStatus(b, new), UNCHANGED <<slot, deadline>>
        PROVE  [Calendar!Next]_Calendar!vars
    BY <1>4, <2>3, RefinementWrite
  <2>4. ASSUME NEW B \in SUBSET Booking, NEW new \in {"EXPIRED", "COMPLETED"},
               \A b \in B : status[b] \in Blocking,
               status' = [b \in Booking |-> IF b \in B THEN new ELSE status[b]],
               UNCHANGED slot
        PROVE  Calendar!Next
    <3>1. Phases' = [b \in Booking |-> IF b \in B THEN "released" ELSE Phases[b]]
      BY <2>4 DEF Phases, PhaseOf, Blocking
    <3>2. Calendar!Release(B)
      BY <1>1, <1>4, <2>1, <2>4, <3>1 DEF closureVars, Calendar!Release, Paid, Phases
    <3>3. QED
      BY <3>2 DEF Calendar!Next
  <2>5. CASE ExpireStaleHolds
    <3> DEFINE B == {b \in Booking : Stale(b)}
    <3>1. \A b \in B : status[b] \in Blocking
      BY DEF Stale, Blocking
    <3>2. status' = [b \in Booking |-> IF b \in B THEN "EXPIRED" ELSE status[b]] /\ UNCHANGED slot
      BY <2>5 DEF ExpireStaleHolds
    <3>3. QED
      BY <2>4, <3>1, <3>2
  <2>6. CASE CompletePastBookings
    <3> DEFINE B == {b \in Booking : Past(b)}
    <3>1. \A b \in B : status[b] \in Blocking
      BY DEF Past, Blocking
    <3>2. status' = [b \in Booking |-> IF b \in B THEN "COMPLETED" ELSE status[b]] /\ UNCHANGED slot
      BY <2>6 DEF CompletePastBookings
    <3>3. QED
      BY <2>4, <3>1, <3>2
  <2>7. CASE UNCHANGED bookingVars
    BY <1>4, <2>1, <2>7 DEF closureVars, bookingVars, Calendar!vars, Paid
  <2>8. QED
    BY <2>2, <2>3, <2>5, <2>6, <2>7, StepBookingEffect DEF BookingEffect, Exists
<1>5. \/ UNCHANGED <<subBooking, closureVars>>
      \/ \E r \in Request : SubmitPayment(r)
      \/ \E w \in Closure : ClosureStep(w)
  BY StepClosureEffect, OnlySubmitPaymentInserts
<1>6. QED
  BY <1>2, <1>3, <1>4, <1>5

(* Court booking implements the calendar: every commit of a handler or a   *)
(* job is a reservation, a payment, a securing, a release, a closing or a  *)
(* reopening of the calendar, or is invisible there.                       *)
THEOREM Refinement == Spec => CalendarSpec
BY RefinementInit, RefinementStep, Invariance, PTL DEF Spec, CalendarSpec, Calendar!Spec


---------------------------------------------------------------------------
(* Who has been told *)

Told == [User -> Nat]

JobTyped ==
  /\ reviewEscalatedAt \in [Review -> BOOLEAN]
  /\ notified \in [Review -> Told]

(* The rows a run has in hand are not escalated, because it found them so  *)
(* and no other run is under way.                                          *)
BatchIsUntold ==
  job.at # "rest" =>
    /\ job \in [at : {"courts", "coaches"}, time : Nat, batch : SUBSET Review]
    /\ \A x \in job.batch : ~reviewEscalatedAt[x]

MarkedWhenTold ==
  \A x \in Review, u \in User :
    notified[x][u] = 0 \/ (reviewEscalatedAt[x] /\ notified[x][u] = 1)

JobInv == TypeOK /\ JobTyped /\ BatchIsUntold /\ MarkedWhenTold

LEMMA BookingStep == ReviewNext => [Next]_vars
BY DEF ReviewNext, ReadClock, HandIn, WriteDueAt, OtherStep, SubmitSessionProof, DecideSession,
       JobStep, FindCourtReviews, Escalate, FindSessionReviews, FinishRun, CrashRun, Next,
       RequestStep

LEMMA InitJobInv == ReviewInit => JobInv
<1> SUFFICES ASSUME ReviewInit PROVE JobInv
  OBVIOUS
<1>1. TypeOK
  BY InitTypeOK DEF ReviewInit
<1>2. job.at = "rest"
  BY DEF ReviewInit, Resting
<1>3. JobTyped /\ MarkedWhenTold
  BY DEF ReviewInit, JobTyped, MarkedWhenTold, Told
<1>4. QED
  BY <1>1, <1>2, <1>3 DEF JobInv, BatchIsUntold

LEMMA BatchesAreFound ==
  ASSUME NEW rows \in SUBSET Review, NEW time, NEW batch \in Batches(rows, time)
  PROVE  batch \in SUBSET Review /\ \A x \in batch : ~reviewEscalatedAt[x]
BY DEF Batches, Found

LEMMA StepJobInv == JobInv /\ [ReviewNext]_allVars => JobInv'
<1> SUFFICES ASSUME JobInv, [ReviewNext]_allVars PROVE JobInv'
  OBVIOUS
<1>0. TypeOK'
  BY BookingStep, StepTypeOK DEF JobInv, allVars
<1>1. ASSUME UNCHANGED <<notified, reviewEscalatedAt, jobVars>>
      PROVE  JobInv'
  BY <1>0, <1>1 DEF JobInv, JobTyped, BatchIsUntold, MarkedWhenTold, jobVars
<1>2. ASSUME UNCHANGED <<notified, reviewEscalatedAt>>, BatchIsUntold'
      PROVE  JobInv'
  BY <1>0, <1>2 DEF JobInv, JobTyped, MarkedWhenTold
<1>3. CASE FindCourtReviews
  <2>1. PICK batch \in Batches(Booking, now) : job' = [at |-> "courts", time |-> now, batch |-> batch]
    BY <1>3 DEF FindCourtReviews
  <2>2. batch \in SUBSET Review /\ \A x \in batch : ~reviewEscalatedAt[x]
    BY BatchesAreFound DEF Review
  <2>3. now \in Nat
    BY DEF JobInv, TypeOK
  <2>4. UNCHANGED <<notified, reviewEscalatedAt>>
    BY <1>3 DEF FindCourtReviews, reviewVars
  <2>5. BatchIsUntold'
    BY <2>1, <2>2, <2>3, <2>4 DEF BatchIsUntold
  <2>6. QED
    BY <1>2, <2>4, <2>5
<1>4. CASE FindSessionReviews
  <2>1. PICK batch \in Batches(Session, job.time) :
          job' = [at |-> "coaches", time |-> job.time, batch |-> batch]
    BY <1>4 DEF FindSessionReviews
  <2>2. batch \in SUBSET Review /\ \A x \in batch : ~reviewEscalatedAt[x]
    BY BatchesAreFound DEF Review
  <2>3. job.time \in Nat
    BY <1>4 DEF JobInv, BatchIsUntold, FindSessionReviews
  <2>4. UNCHANGED <<notified, reviewEscalatedAt>>
    BY <1>4 DEF FindSessionReviews, reviewVars
  <2>5. BatchIsUntold'
    BY <2>1, <2>2, <2>3, <2>4 DEF BatchIsUntold
  <2>6. QED
    BY <1>2, <2>4, <2>5
<1>5. CASE FinishRun \/ CrashRun
  <2>1. UNCHANGED <<notified, reviewEscalatedAt>> /\ job'.at = "rest"
    BY <1>5 DEF FinishRun, CrashRun, reviewVars, Resting
  <2>2. QED
    BY <1>2, <2>1 DEF BatchIsUntold
<1>6. ASSUME job.at # "rest", NEW x \in job.batch, Escalate(x)
      PROVE  JobInv'
  <2>1. /\ job \in [at : {"courts", "coaches"}, time : Nat, batch : SUBSET Review]
        /\ \A y \in job.batch : ~reviewEscalatedAt[y]
    BY <1>6 DEF JobInv, BatchIsUntold
  <2>2. x \in Review /\ \A u \in User : notified[x][u] = 0
    BY <1>6, <2>1 DEF JobInv, MarkedWhenTold
  <2>3. /\ reviewEscalatedAt' = [reviewEscalatedAt EXCEPT ![x] = TRUE]
        /\ notified' = [notified EXCEPT ![x] = [u \in User |-> @[u] + Drafts(x, u)]]
        /\ job' = [job EXCEPT !.batch = @ \ {x}]
    BY <1>6 DEF Escalate
  <2>4. [u \in User |-> notified[x][u] + Drafts(x, u)] \in Told
    BY <2>2 DEF Told, Drafts
  <2>5. notified'[x] = [u \in User |-> notified[x][u] + Drafts(x, u)]
    BY <2>2, <2>3 DEF JobInv, JobTyped
  <2>6. JobTyped'
    BY <2>2, <2>3, <2>4 DEF JobInv, JobTyped
  <2>7. job' \in [at : {"courts", "coaches"}, time : Nat, batch : SUBSET Review]
    BY <2>1, <2>3
  <2>8. \A y \in job'.batch : y \in job.batch /\ y # x
    BY <2>1, <2>3
  <2>9. BatchIsUntold'
    BY <2>1, <2>3, <2>7, <2>8 DEF BatchIsUntold, JobInv, JobTyped
  <2>10. ASSUME NEW y \in Review, NEW u \in User
         PROVE  notified'[y][u] = 0 \/ (reviewEscalatedAt'[y] /\ notified'[y][u] = 1)
    <3>1. CASE y = x
      <4>1. notified'[x][u] = 0 + Drafts(x, u)
        BY <2>2, <2>5
      <4>2. reviewEscalatedAt'[x]
        BY <2>2, <2>3 DEF JobInv, JobTyped
      <4>3. QED
        BY <3>1, <4>1, <4>2 DEF Drafts
    <3>2. CASE y # x
      BY <2>3, <3>2 DEF JobInv, JobTyped, MarkedWhenTold
    <3>3. QED
      BY <3>1, <3>2
  <2>11. QED
    BY <1>0, <2>6, <2>9, <2>10 DEF JobInv, MarkedWhenTold
<1>7. QED
  BY <1>1, <1>3, <1>4, <1>5, <1>6
     DEF ReviewNext, ReadClock, WriteDueAt, OtherStep, KeepReviews, SubmitSessionProof,
         DecideSession, JobStep, reviewVars, allVars

(* However often the job fails between two bookings and starts over, and   *)
(* whatever becomes of a booking between the query and its turn, nobody is *)
(* told twice of one review (review-escalation.ts, of one worker).         *)
THEOREM ToldOnce == ReviewSpec => []NotifiedOnce
<1>1. ReviewInit => JobInv
  BY InitJobInv
<1>2. JobInv /\ [ReviewNext]_allVars => JobInv'
  BY StepJobInv
<1>3. JobInv => NotifiedOnce
  BY DEF JobInv, MarkedWhenTold, NotifiedOnce
<1>4. QED
  BY <1>1, <1>2, <1>3, PTL DEF ReviewSpec

---------------------------------------------------------------------------
(* The compositions implement CourtBooking *)

(* The job for overdue reviews and the due times it reads leave every      *)
(* behaviour of the bookings as CourtBooking has it: what is proved of its *)
(* specification holds with the job beside it.                             *)
THEOREM EscalationKeepsBookings == ReviewSpec => Spec
<1>1. ReviewInit => Init
  BY DEF ReviewInit
<1>2. [ReviewNext]_allVars => [Next]_vars
  BY BookingStep DEF allVars
<1>3. QED
  BY <1>1, <1>2, PTL DEF ReviewSpec, Spec

(* The same of the players' reviews and the pages.                         *)
THEOREM PagesKeepBookings == PagesSpec => Spec
<1>1. PagesInit => Init
  BY DEF PagesInit
<1>2. [PagesNext]_<<vars, ratingVars>> => [Next]_vars
  BY DEF PagesNext, CheckReview, CreateCourtReview, AbortReview
<1>3. QED
  BY <1>1, <1>2, PTL DEF PagesSpec, Spec

(* With the pages and the reviews of players beside the handlers, courts   *)
(* are not booked twice, holds stay off closures, progress has its proof,  *)
(* refunds match their bookings, and CourtCalendar's promise is kept.      *)
THEOREM PagesKeepPromises ==
  PagesSpec => /\ [](NoDoubleBooking /\ HoldsAvoidClosures /\ ProofBehindProgress)
               /\ []RefundsBehindBookings
               /\ CalendarSpec
<1>1. PagesSpec => Spec
  BY PagesKeepBookings
<1>2. Spec => [](NoDoubleBooking /\ HoldsAvoidClosures /\ ProofBehindProgress)
  BY DoubleBookingImpossible, HoldsOffClosures, ProgressNeedsProof, PTL
<1>3. Spec => []RefundsBehindBookings
  BY RefundsMatchBookings, PTL
<1>4. Spec => CalendarSpec
  BY Refinement
<1>5. QED
  BY <1>1, <1>2, <1>3, <1>4, PTL

---------------------------------------------------------------------------
(* The lists and their buttons.                                            *)

(* A list that takes its first n rows leaves none out of n or fewer.       *)
LEMMA ShortListIsWhole ==
  ASSUME NEW rows, IsFiniteSet(rows), NEW n \in Nat, NEW L \in FirstRows(rows, n),
         ~(Cardinality(rows) > n)
  PROVE  L = rows
<1>1. Cardinality(rows) \in Nat
  BY FS_CardinalityType
<1>2. L \in SUBSET rows /\ Cardinality(L) = Cardinality(rows)
  BY <1>1 DEF FirstRows, LesserOf
<1>3. QED
  BY <1>2, FS_Subset

LEMMA QueueListsAll ==
  ASSUME NEW L \in QueueLists, ~(Cardinality(AwaitingVenue) > QueueRows)
  PROVE  L = AwaitingVenue
<1>1. IsFiniteSet(AwaitingVenue)
  BY PagesAssumption, FS_Subset DEF AwaitingVenue
<1>2. QED
  BY <1>1, PagesAssumption, ShortListIsWhole DEF QueueLists

LEMMA PlayerListsAll ==
  ASSUME NEW mine \in BookingsOfAPlayer, NEW L \in PlayerLists(mine),
         ~(Cardinality(mine) > PlayerRows)
  PROVE  L = mine
<1>1. IsFiniteSet(mine)
  BY PagesAssumption, FS_Subset DEF BookingsOfAPlayer
<1>2. QED
  BY <1>1, PagesAssumption, ShortListIsWhole DEF PlayerLists

(* A booking that blocks its court may be written back to a status that    *)
(* does: the constraint is met already.                                    *)
LEMMA BlockingIsAllowed ==
  ASSUME NoDoubleBooking, NEW b \in Booking, status[b] \in Blocking
  PROVE  ExclusionAllows(b, slot[b])
BY DEF NoDoubleBooking, ExclusionAllows, Overlap

(* A proof under review has its buttons, and the service takes them.       *)
LEMMA ProofsCanBeReviewed ==
  ASSUME TypeOK, RowsExist, ProofBehindProgress, NoDoubleBooking,
         NEW b \in Booking, status[b] = "PROOF_SUBMITTED"
  PROVE  ReviewButtons(b) # {} /\ \A x \in ReviewButtons(b) : Works(x)
<1>1. PICK p \in Ref : subBooking[p] = b
  BY DEF ProofBehindProgress, HasProof
<1>2. [do |-> "approveProof", booking |-> b, row |-> p] \in ReviewButtons(b)
  BY <1>1 DEF ReviewButtons, Submissions
<1>3. ASSUME NEW x \in ReviewButtons(b)
      PROVE  Works(x)
  <2>1. /\ x.do \in {"approveProof", "rejectProof"}
        /\ x.booking = b
        /\ x.row \in Ref /\ subBooking[x.row] = b
    BY <1>3 DEF ReviewButtons, Submissions
  <2>2. subStatus[x.row] # "NONE"
    BY <2>1, ConstantsAssumption DEF RowsExist
  <2>3. QED
    BY <2>1, <2>2, BlockingIsAllowed DEF Works, MayDecidePayment, Blocking
<1>4. QED
  BY <1>2, <1>3

(* So do those of a refund request, if its refund is the only one.         *)
LEMMA RefundsCanBeDecided ==
  ASSUME OpenRefundBehindRequest, NoDoubleBooking,
         NEW b \in Booking, status[b] = "REFUND_REQUESTED"
  PROVE  /\ RefundButtons(b) # {}
         /\ \/ \E f, g \in Refunds(b) : f # g
            \/ \A x \in RefundButtons(b) : Works(x)
         /\ Works(CancelButton(b))
<1>1. PICK f \in Refund : refBooking[f] = b /\ refStatus[f] = "REQUESTED"
  BY DEF OpenRefundBehindRequest
<1>2. f \in Refunds(b)
  BY <1>1 DEF Refunds
<1>3. [do |-> "approveRefund", booking |-> b, row |-> f] \in RefundButtons(b)
  BY <1>2 DEF RefundButtons
<1>4. ASSUME NEW x \in RefundButtons(b), x.row = f
      PROVE  Works(x)
  <2>1. x.do \in {"approveRefund", "rejectRefund"} /\ x.booking = b
    BY <1>4 DEF RefundButtons
  <2>2. QED
    BY <1>1, <1>4, <2>1, BlockingIsAllowed DEF Works, MayDecideRefund, Blocking
<1>5. \A x \in RefundButtons(b) : x.row \in Refunds(b)
  BY DEF RefundButtons
<1>6. Works(CancelButton(b))
  BY DEF Works, CancelButton, MayCancel
<1>7. QED
  BY <1>2, <1>3, <1>4, <1>5, <1>6

LEMMA PagesFollow ==
  ASSUME TypeOK, RowsExist, ProofBehindProgress, OpenRefundBehindRequest, NoDoubleBooking
  PROVE  PagesFollowTheService
<1>1. ASSUME NEW L \in QueueLists, NEW b \in Booking,
             status[b] \in {"PROOF_SUBMITTED", "REFUND_REQUESTED"}
      PROVE  b \in L \/ Cardinality(AwaitingVenue) > QueueRows
  BY <1>1, QueueListsAll DEF AwaitingVenue
<1>2. \A L \in QueueLists : L \subseteq Booking
  BY DEF QueueLists, FirstRows, AwaitingVenue
<1>3. ASSUME NEW mine \in BookingsOfAPlayer, NEW L \in PlayerLists(mine)
      PROVE  /\ \A b \in L : ReviewForms(b) # {} <=> MayReview(b)
             /\ \A b \in mine : MayReview(b) => b \in L \/ Cardinality(mine) > PlayerRows
  <2>1. ASSUME NEW b \in L
        PROVE  ReviewForms(b) # {} <=> b \notin reviewed /\ status[b] = "COMPLETED"
    BY DEF ReviewForms
  <2>2. QED
    BY <2>1, PlayerListsAll DEF MayReview
<1>4. QED
  BY <1>1, <1>2, <1>3, ProofsCanBeReviewed, RefundsCanBeDecided DEF PagesFollowTheService

(* Whatever the tables went through, the staff can work off their queue,   *)
(* players get a form for those of their listed bookings they may review,  *)
(* and a row is missing only from a list that is full                      *)
(* (PagesFollowTheService).                                                *)
THEOREM QueueCanBeWorkedOff == PagesSpec => []PagesFollowTheService
<1>1. PagesSpec => Spec
  BY PagesKeepBookings
<1>2. Spec => [](TypeOK /\ RowsExist /\ ProofBehindProgress /\ NoDoubleBooking)
  BY TypeCorrect, RowsAreSound, ProgressNeedsProof, DoubleBookingImpossible, PTL
<1>3. Spec => []RefundsBehindBookings
  BY RefundsMatchBookings
<1>4. TypeOK /\ RowsExist /\ ProofBehindProgress /\ NoDoubleBooking /\ RefundsBehindBookings
        => PagesFollowTheService
  BY PagesFollow DEF RefundsBehindBookings
<1>5. QED
  BY <1>1, <1>2, <1>3, <1>4, PTL

=============================================================================
