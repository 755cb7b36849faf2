--------------------------- MODULE CoachSessionProofs ---------------------------
(* Proofs about CoachSession, the CoachMarket in it and the pages over it  *)
(* (CoachPages), for every value of the constants.                         *)
EXTENDS CoachPages, TLAPS, FiniteSetTheorems

Mem == MarketMem \cup SessionMem

(* What a handler remembers is determined by where it stands.              *)
LEMMA MemShape ==
  ASSUME TypeOK, NEW h \in Handler
  PROVE  /\ mem[h].at = "answerRequest" => mem[h] \in AnswerMem
         /\ mem[h].at = "createOffer" => mem[h] \in OfferMem
         /\ mem[h].at = "acceptOffer" => mem[h] \in AcceptMem
         /\ mem[h].at = "submitPayment" => mem[h] \in ProofMem
         /\ mem[h].at \in {"readStatus", "writeStatus"} => mem[h] \in StatusMem
         /\ mem[h].at \in {"createRefundRequest", "coachCancel"} => mem[h] \in RefundMem
         /\ mem[h].at = "decideRefund" => mem[h] \in DecisionMem
         /\ mem[h].at = "completeRefund" => mem[h] \in PayoutMem
<1>1. mem[h] \in Mem
  BY DEF TypeOK, Mem
<1>2. QED
  BY <1>1 DEF Mem, MarketMem, SessionMem, Idle, AnswerMem, OfferMem, AcceptMem,
              ProofMem, StatusMem, RefundMem, DecisionMem, PayoutMem

(* The request and the coach of an offer.                                  *)
LEMMA OfferParts ==
  \A o \in Offer : o[1] \in CoachRequest /\ o[2] \in Coach /\ o = <<o[1], o[2]>>
BY DEF Offer

---------------------------------------------------------------------------
(* Type correctness.                                                       *)

LEMMA InitTypeOK == Init => TypeOK
BY MarketAssumption, RefundAssumption
   DEF Init, MarketInit, TypeOK, MarketTypeOK, RequestStatus, OfferStatus, BookingStatus,
       ProofStatus, RefundStatus, MarketMem

(* The states a handler is sent to by its own steps.                       *)
LEMMA MemTypes ==
  /\ Idle \in Mem
  /\ \A q \in CoachRequest, a \in {"OPEN", "DECLINED"} :
       [at |-> "answerRequest", request |-> q, status |-> a] \in Mem
  /\ \A o \in Offer, e \in Nat : [at |-> "createOffer", offer |-> o, expires |-> e] \in Mem
  /\ \A o \in Offer, d \in Nat : [at |-> "acceptOffer", offer |-> o, deadline |-> d] \in Mem
  /\ \A b \in CoachRequest, p \in Ref :
       [at |-> "submitPayment", booking |-> b, ref |-> p] \in Mem
  /\ \A b \in CoachRequest, e \in {"HELD", "PROOF_SUBMITTED"},
         n \in {"PROOF_SUBMITTED", "CONFIRMED", "REJECTED"} :
       [at |-> "readStatus", booking |-> b, expected |-> e, next |-> n] \in Mem
  /\ \A m \in StatusMem : [m EXCEPT !.at = "writeStatus"] \in Mem
  /\ \A b \in CoachRequest : \A at \in {"createRefundRequest", "coachCancel"} :
       [at |-> at, booking |-> b] \in Mem
  /\ \A f \in Refund, d \in Decision :
       [at |-> "decideRefund", refund |-> f, decision |-> d] \in Mem
  /\ \A f \in Refund : [at |-> "completeRefund", refund |-> f] \in Mem
<1>1. \A m \in StatusMem : [m EXCEPT !.at = "writeStatus"] \in StatusMem
  BY DEF StatusMem
<1>2. QED
  BY <1>1 DEF Mem, MarketMem, SessionMem, AnswerMem, OfferMem, AcceptMem,
              ProofMem, StatusMem, RefundMem, DecisionMem, PayoutMem

(* A step that changes only what one handler remembers.                    *)
LEMMA RememberTypeOK ==
  ASSUME TypeOK, NEW h \in Handler, NEW state \in Mem, Remember(h, state),
         UNCHANGED <<marketVars, submissionVars, refundVars>>
  PROVE  TypeOK'
BY DEF TypeOK, MarketTypeOK, Remember, Mem, marketVars, requestVars, offerVars,
       bookingVars, submissionVars, refundVars

(* The memory keeps its type in every step.                                *)
LEMMA FinishMem ==
  ASSUME TypeOK, NEW h \in Handler, Finish(h)
  PROVE  mem' \in [Handler -> Mem]
BY MemTypes DEF TypeOK, Finish, Remember, Mem

LEMMA MarketTypes ==
  ASSUME TypeOK, MarketStep, UNCHANGED <<submissionVars, refundVars>>
  PROVE  TypeOK'
<1> USE MarketAssumption
<1>1. ASSUME NEW q \in CoachRequest, NEW s \in Session, NEW c \in Coach \cup {None},
             CreateRequest(q, s, c)
      PROVE  TypeOK'
  BY <1>1 DEF CreateRequest, TypeOK, MarketTypeOK, RequestStatus, offerVars, bookingVars,
              submissionVars, refundVars
<1>2. ASSUME NEW h \in Handler, NEW q \in CoachRequest, NEW a \in {"OPEN", "DECLINED"},
             AnswerRequest(h, q, a)
      PROVE  TypeOK'
  BY <1>2, MemTypes, RememberTypeOK DEF AnswerRequest
<1>3. ASSUME NEW h \in Handler, UpdateRequestStatus(h)
      PROVE  TypeOK'
  <2>1. mem[h].request \in CoachRequest /\ mem[h].status \in RequestStatus
    BY <1>3, MemShape DEF UpdateRequestStatus, AnswerMem, RequestStatus
  <2>2. mem' \in [Handler -> Mem]
    BY <1>3, FinishMem DEF UpdateRequestStatus
  <2>3. QED
    BY <1>3, <2>1, <2>2 DEF UpdateRequestStatus, TypeOK, MarketTypeOK, Mem, offerVars,
                            bookingVars, submissionVars, refundVars
<1>4. ASSUME NEW h \in Handler, NEW q \in CoachRequest, NEW c \in Coach,
             NEW e \in 0 .. MaxTime, CheckOffer(h, q, c, e)
      PROVE  TypeOK'
  <2>1. <<q, c>> \in Offer /\ e \in Nat
    BY DEF Offer
  <2>2. QED
    BY <1>4, <2>1, MemTypes, RememberTypeOK DEF CheckOffer
<1>5. ASSUME NEW h \in Handler, CreateOffer(h)
      PROVE  TypeOK'
  <2>1. mem[h].offer \in Offer /\ mem[h].expires \in Nat
    BY <1>5, MemShape DEF CreateOffer, OfferMem
  <2>2. mem' \in [Handler -> Mem]
    BY <1>5, FinishMem DEF CreateOffer
  <2>3. QED
    BY <1>5, <2>1, <2>2 DEF CreateOffer, TypeOK, MarketTypeOK, Mem, OfferStatus,
                            requestVars, bookingVars, submissionVars, refundVars
<1>6. ASSUME NEW h \in Handler, NEW q \in CoachRequest, NEW c \in Coach,
             CheckAcceptance(h, q, c)
      PROVE  TypeOK'
  <2>1. <<q, c>> \in Offer /\ now + HoldDuration \in Nat
    BY DEF Offer, TypeOK, MarketTypeOK
  <2>2. QED
    BY <1>6, <2>1, MemTypes, RememberTypeOK DEF CheckAcceptance
<1>7. ASSUME NEW h \in Handler, AcceptOffer(h)
      PROVE  TypeOK'
  <2>1. mem[h].offer \in Offer /\ mem[h].deadline \in Nat
    BY <1>7, MemShape DEF AcceptOffer, AcceptMem
  <2>2. PICK q \in CoachRequest, c \in Coach : q = mem[h].offer[1] /\ c = mem[h].offer[2]
    BY <2>1, OfferParts
  <2>3. mem' \in [Handler -> Mem]
    BY <1>7, FinishMem DEF AcceptOffer
  <2>4. Accepted(q, c) \in [Offer -> OfferStatus]
    BY DEF Accepted, OfferStatus, TypeOK, MarketTypeOK
  <2>5. QED
    BY <1>7, <2>1, <2>2, <2>3, <2>4
       DEF AcceptOffer, TypeOK, MarketTypeOK, Mem, RequestStatus, BookingStatus,
           submissionVars, refundVars
<1>8. ASSUME NEW h \in Handler, Abort(h)
      PROVE  TypeOK'
  BY <1>8, MemTypes, RememberTypeOK DEF Abort, Finish
<1>9. CASE Tick
  BY <1>9 DEF Tick, TypeOK, MarketTypeOK, requestVars, offerVars, bookingVars,
              submissionVars, refundVars
<1>10. QED
  BY <1>1, <1>2, <1>3, <1>4, <1>5, <1>6, <1>7, <1>8, <1>9 DEF MarketStep

LEMMA StepTypeOK == TypeOK /\ [Next]_vars => TypeOK'
<1> SUFFICES ASSUME TypeOK, [Next]_vars
             PROVE  TypeOK'
  OBVIOUS
<1> USE DEF MarketTypeOK
<1>1. ASSUME NEW h \in Handler, NEW b \in CoachRequest, NEW p \in Ref, SubmitProof(h, b, p)
      PROVE  TypeOK'
  BY <1>1, MemTypes, RememberTypeOK DEF SubmitProof
<1>2. ASSUME NEW h \in Handler, SubmitPayment(h)
      PROVE  TypeOK'
  <2>1. mem[h].booking \in CoachRequest /\ mem[h].ref \in Ref
    BY <1>2, MemShape DEF SubmitPayment, ProofMem
  <2>2. mem' \in [Handler -> Mem]
    BY <1>2, <2>1, MemTypes DEF SubmitPayment, Remember, TypeOK, Mem
  <2>3. QED
    BY <1>2, <2>1, <2>2 DEF SubmitPayment, TypeOK, Mem, ProofStatus, marketVars,
                            requestVars, offerVars, bookingVars, refundVars
<1>3. ASSUME NEW h \in Handler, NEW b \in CoachRequest, NEW p \in Ref, NEW d \in Decision,
             DecidePayment(h, b, p, d)
      PROVE  TypeOK'
  <2>1. mem' \in [Handler -> Mem]
    BY <1>3, MemTypes DEF DecidePayment, Remember, TypeOK, Mem
  <2>2. QED
    BY <1>3, <2>1 DEF DecidePayment, TypeOK, Mem, ProofStatus, Decision, marketVars,
                      requestVars, offerVars, bookingVars, refundVars
<1>4. ASSUME NEW h \in Handler, ReadStatus(h)
      PROVE  TypeOK'
  <2>1. mem[h] \in StatusMem
    BY <1>4, MemShape DEF ReadStatus
  <2>2. QED
    BY <1>4, <2>1, MemTypes, RememberTypeOK DEF ReadStatus
<1>5. ASSUME NEW h \in Handler, TransitionStatus(h)
      PROVE  TypeOK'
  <2>1. mem[h].booking \in CoachRequest /\ mem[h].next \in BookingStatus
    BY <1>5, MemShape DEF TransitionStatus, StatusMem, BookingStatus
  <2>2. mem' \in [Handler -> Mem]
    BY <1>5, FinishMem DEF TransitionStatus
  <2>3. QED
    BY <1>5, <2>1, <2>2 DEF TransitionStatus, WriteStatus, TypeOK, Mem, requestVars,
                            offerVars, bookingVars, submissionVars, refundVars
<1>6. ASSUME NEW h \in Handler, NEW b \in CoachRequest,
             RequestRefund(h, b) \/ CancelByCoach(h, b)
      PROVE  TypeOK'
  BY <1>6, MemTypes, RememberTypeOK DEF RequestRefund, CancelByCoach
<1>7. ASSUME NEW h \in Handler, NEW f \in Refund,
             CreateRefundRequest(h, f) \/ CoachCancel(h, f)
      PROVE  TypeOK'
  <2>1. mem[h].booking \in CoachRequest
    BY <1>7, MemShape DEF CreateRefundRequest, CoachCancel, RefundMem
  <2>2. mem' \in [Handler -> Mem]
    BY <1>7, FinishMem DEF CreateRefundRequest, CoachCancel
  <2>3. QED
    BY <1>7, <2>1, <2>2
       DEF CreateRefundRequest, CoachCancel, WriteStatus, TypeOK, Mem, BookingStatus,
           RefundStatus, Decision, requestVars, offerVars, bookingVars, submissionVars
<1>8. ASSUME NEW h \in Handler, NEW f \in Refund, NEW d \in Decision, DecideRefund(h, f, d)
      PROVE  TypeOK'
  BY <1>8, MemTypes, RememberTypeOK DEF DecideRefund
<1>9. ASSUME NEW h \in Handler, ApplyRefundDecision(h)
      PROVE  TypeOK'
  <2>1. mem[h].refund \in Refund /\ mem[h].decision \in Decision
    BY <1>9, MemShape DEF ApplyRefundDecision, DecisionMem
  <2>2. mem' \in [Handler -> Mem]
    BY <1>9, FinishMem DEF ApplyRefundDecision
  <2>3. QED
    BY <1>9, <2>1, <2>2
       DEF ApplyRefundDecision, WriteStatus, Outcome, TypeOK, Mem, BookingStatus,
           RefundStatus, requestVars, offerVars, bookingVars, submissionVars
<1>10. ASSUME NEW h \in Handler, NEW f \in Refund, CheckRefundApproved(h, f)
       PROVE  TypeOK'
  BY <1>10, MemTypes, RememberTypeOK DEF CheckRefundApproved
<1>11. ASSUME NEW h \in Handler, CompleteRefund(h)
       PROVE  TypeOK'
  <2>1. mem[h].refund \in Refund
    BY <1>11, MemShape DEF CompleteRefund, PayoutMem
  <2>2. mem' \in [Handler -> Mem]
    BY <1>11, FinishMem DEF CompleteRefund
  <2>3. QED
    BY <1>11, <2>1, <2>2
       DEF CompleteRefund, TypeOK, Mem, RefundStatus, marketVars, requestVars, offerVars,
           bookingVars, submissionVars
<1>12. CASE CompletePastBookings
  BY <1>12 DEF CompletePastBookings, TypeOK, BookingStatus, requestVars, offerVars,
               bookingVars, submissionVars, refundVars
<1>13. CASE UNCHANGED vars
  BY <1>13 DEF vars, TypeOK, marketVars, requestVars, offerVars, bookingVars,
               submissionVars, refundVars
<1>14. CASE MarketStep /\ UNCHANGED <<submissionVars, refundVars>>
  BY <1>14, MarketTypes
<1>15. QED
  BY <1>1, <1>2, <1>3, <1>4, <1>5, <1>6, <1>7, <1>8, <1>9, <1>10, <1>11, <1>12, <1>13,
     <1>14 DEF Next, SessionStep, RefundStep

(* The tables and the handlers keep their types.                           *)
THEOREM TypeCorrect == Spec => []TypeOK
BY InitTypeOK, StepTypeOK, PTL DEF Spec

---------------------------------------------------------------------------
(* What a step may do to the tables.                                       *)

(* A request whose coach may be c: answered if it is directed.             *)
MayServe(q, c) == requested[q] \notin {"NONE", "PENDING_COACH"} /\ target[q] \in {None, c}

(* The writes of acceptOfferTransactionally, whoever makes them.           *)
Acceptance(q, c) ==
  /\ status[q] = "NONE"
  /\ MayServe(q, c)
  /\ ExclusionAllows(q, c)
  /\ offer' = Accepted(q, c)
  /\ requested' = [requested EXCEPT ![q] = "MATCHED"]
  /\ status' = [status EXCEPT ![q] = "HELD"]
  /\ coach' = [coach EXCEPT ![q] = c]
  /\ UNCHANGED <<target, session>>

LEMMA AcceptOfferEffect ==
  ASSUME TypeOK, ReadsStillHold, NEW h \in Handler, AcceptOffer(h)
  PROVE  \E q \in CoachRequest, c \in Coach : Acceptance(q, c)
<1>1. mem[h].offer \in Offer
  BY MemShape DEF AcceptOffer, AcceptMem
<1>2. PICK q \in CoachRequest, c \in Coach : q = mem[h].offer[1] /\ c = mem[h].offer[2]
  BY <1>1, OfferParts
<1>3. MayServe(q, c)
  BY <1>2 DEF AcceptOffer, ReadsStillHold, StillHolds, MayServe
<1>4. QED
  BY <1>2, <1>3 DEF AcceptOffer, Acceptance

(* Every step leaves the requests alone, inserts one, answers one that     *)
(* exists, or matches one.                                                 *)
RequestEffect ==
  \/ UNCHANGED requestVars
  \/ \E q \in CoachRequest, s \in Session, c \in Coach \cup {None} : CreateRequest(q, s, c)
  \/ /\ \E h \in Handler, q \in CoachRequest, new \in {"OPEN", "DECLINED"} :
          /\ mem[h].at = "answerRequest" /\ mem[h].request = q
          /\ requested[q] # "NONE" /\ requested' = [requested EXCEPT ![q] = new]
     /\ UNCHANGED <<target, session>>
  \/ \E q \in CoachRequest, c \in Coach : Acceptance(q, c)

LEMMA StepRequestEffect ==
  ASSUME TypeOK, ReadsStillHold, [Next]_vars
  PROVE  RequestEffect
<1> USE DEF RequestEffect
<1>1. ASSUME NEW h \in Handler, UpdateRequestStatus(h)
      PROVE  RequestEffect
  <2>1. mem[h].request \in CoachRequest /\ mem[h].status \in {"OPEN", "DECLINED"}
    BY <1>1, MemShape DEF UpdateRequestStatus, AnswerMem
  <2>2. requested[mem[h].request] # "NONE"
    BY <1>1 DEF UpdateRequestStatus, ReadsStillHold, StillHolds
  <2>3. QED
    BY <1>1, <2>1, <2>2 DEF UpdateRequestStatus
<1>2. ASSUME NEW h \in Handler, AcceptOffer(h)
      PROVE  RequestEffect
  BY <1>2, AcceptOfferEffect
<1>3. CASE MarketStep
  BY <1>1, <1>2, <1>3 DEF MarketStep, AnswerRequest, CheckOffer, CreateOffer,
                          CheckAcceptance, Abort, Tick, marketVars
<1>4. ASSUME NEW h \in Handler, SessionStep(h)
      PROVE  UNCHANGED requestVars
  BY <1>4 DEF SessionStep, RefundStep, SubmitProof, SubmitPayment, DecidePayment, ReadStatus,
              TransitionStatus, WriteStatus, RequestRefund, CreateRefundRequest,
              DecideRefund, ApplyRefundDecision, CheckRefundApproved, CompleteRefund,
              CancelByCoach, CoachCancel, marketVars
<1>5. QED
  BY <1>3, <1>4 DEF Next, vars, marketVars, CompletePastBookings

(* Every step leaves the offers alone, inserts one its coach may make, or  *)
(* accepts one.                                                            *)
OfferEffect ==
  \/ UNCHANGED offerVars
  \/ \E q \in CoachRequest, c \in Coach :
       /\ MayServe(q, c) /\ offer[<<q, c>>] = "NONE"
       /\ offer' = [offer EXCEPT ![<<q, c>>] = "ACTIVE"]
  \/ \E q \in CoachRequest, c \in Coach : Acceptance(q, c)

LEMMA StepOfferEffect ==
  ASSUME TypeOK, ReadsStillHold, [Next]_vars
  PROVE  OfferEffect
<1> USE DEF OfferEffect
<1>1. ASSUME NEW h \in Handler, CreateOffer(h)
      PROVE  OfferEffect
  <2>1. mem[h].offer \in Offer
    BY <1>1, MemShape DEF CreateOffer, OfferMem
  <2>2. PICK q \in CoachRequest, c \in Coach : mem[h].offer = <<q, c>>
    BY <2>1, OfferParts
  <2>3. MayServe(q, c)
    BY <1>1, <2>2 DEF CreateOffer, ReadsStillHold, StillHolds, MayServe
  <2>4. QED
    BY <1>1, <2>2, <2>3 DEF CreateOffer
<1>2. ASSUME NEW h \in Handler, AcceptOffer(h)
      PROVE  OfferEffect
  BY <1>2, AcceptOfferEffect
<1>3. CASE MarketStep
  BY <1>1, <1>2, <1>3 DEF MarketStep, CreateRequest, AnswerRequest, UpdateRequestStatus,
                          CheckOffer, CheckAcceptance, Abort, Tick, marketVars
<1>4. ASSUME NEW h \in Handler, SessionStep(h)
      PROVE  UNCHANGED offerVars
  BY <1>4 DEF SessionStep, RefundStep, SubmitProof, SubmitPayment, DecidePayment, ReadStatus,
              TransitionStatus, WriteStatus, RequestRefund, CreateRefundRequest,
              DecideRefund, ApplyRefundDecision, CheckRefundApproved, CompleteRefund,
              CancelByCoach, CoachCancel, marketVars
<1>5. QED
  BY <1>3, <1>4 DEF Next, vars, marketVars, CompletePastBookings

(* Statuses a handler may write to an existing booking.                    *)
Written == {"PROOF_SUBMITTED", "CONFIRMED", "REJECTED", "REFUND_REQUESTED", "CANCELLED"}

(* Every step leaves the bookings alone, inserts one, writes one status    *)
(* over a row that has a submission, or completes past ones.               *)
BookingEffect ==
  \/ UNCHANGED <<status, bookingVars>>
  \/ \E q \in CoachRequest, c \in Coach : Acceptance(q, c)
  \/ \E b \in CoachRequest, new \in Written :
       Exists(b) /\ HasProof(b) /\ WriteStatus(b, new)
  \/ CompletePastBookings

LEMMA StepBookingEffect ==
  ASSUME TypeOK, RowsExist, ReadsStillHold, [Next]_vars
  PROVE  BookingEffect
<1> USE DEF BookingEffect
<1>1. ASSUME NEW h \in Handler, TransitionStatus(h)
      PROVE  BookingEffect
  <2>1. mem[h].booking \in CoachRequest /\ mem[h].next \in Written
    BY <1>1, MemShape DEF TransitionStatus, StatusMem, Written
  <2>2. Exists(mem[h].booking) /\ HasProof(mem[h].booking)
    BY <1>1 DEF TransitionStatus, ReadsStillHold, StillHolds
  <2>3. QED
    BY <1>1, <2>1, <2>2 DEF TransitionStatus
<1>2. ASSUME NEW h \in Handler, NEW f \in Refund,
             CreateRefundRequest(h, f) \/ CoachCancel(h, f)
      PROVE  BookingEffect
  <2>1. Exists(mem[h].booking) /\ HasProof(mem[h].booking)
    BY <1>2 DEF CreateRefundRequest, CoachCancel, ReadsStillHold, StillHolds
  <2>2. QED
    BY <1>2, <2>1 DEF CreateRefundRequest, CoachCancel, Exists, Written
<1>3. ASSUME NEW h \in Handler, ApplyRefundDecision(h)
      PROVE  BookingEffect
  <2>1. mem[h].refund \in Refund
    BY <1>3, MemShape DEF ApplyRefundDecision, DecisionMem
  <2>2. Exists(refBooking[mem[h].refund]) /\ HasProof(refBooking[mem[h].refund])
    BY <1>3, <2>1 DEF ApplyRefundDecision, RowsExist, ReadsStillHold, StillHolds
  <2>3. QED
    BY <1>3, <2>2 DEF ApplyRefundDecision, Exists, Outcome, Written
<1>4. ASSUME NEW h \in Handler, AcceptOffer(h)
      PROVE  BookingEffect
  BY <1>4, AcceptOfferEffect
<1>5. CASE MarketStep
  BY <1>4, <1>5 DEF MarketStep, CreateRequest, AnswerRequest, UpdateRequestStatus,
                    CheckOffer, CreateOffer, CheckAcceptance, Abort, Tick, marketVars
<1>6. ASSUME NEW h \in Handler, SessionStep(h)
      PROVE  BookingEffect
  BY <1>1, <1>2, <1>3, <1>6
     DEF SessionStep, RefundStep, SubmitProof, SubmitPayment, DecidePayment, ReadStatus,
         RequestRefund, DecideRefund, CheckRefundApproved, CompleteRefund,
         CancelByCoach, marketVars
<1>7. QED
  BY <1>5, <1>6 DEF Next, vars, marketVars

(* Every step leaves the submissions alone, inserts one for a booking that *)
(* exists, or writes a decision over one.                                  *)
SubmissionEffect ==
  \/ UNCHANGED submissionVars
  \/ \E p \in Ref, b \in CoachRequest :
       /\ subStatus[p] = "NONE" /\ Exists(b)
       /\ subBooking' = [subBooking EXCEPT ![p] = b]
       /\ subStatus' = [subStatus EXCEPT ![p] = "PENDING"]
  \/ \E p \in Ref, d \in Decision :
       /\ subStatus[p] # "NONE"
       /\ subStatus' = [subStatus EXCEPT ![p] = d]
       /\ UNCHANGED subBooking

LEMMA StepSubmissionEffect ==
  ASSUME TypeOK, ReadsStillHold, [Next]_vars
  PROVE  SubmissionEffect
<1> USE DEF SubmissionEffect
<1>1. ASSUME NEW h \in Handler, SubmitPayment(h)
      PROVE  SubmissionEffect
  <2>1. mem[h].booking \in CoachRequest /\ mem[h].ref \in Ref
    BY <1>1, MemShape DEF SubmitPayment, ProofMem
  <2>2. Exists(mem[h].booking)
    BY <1>1 DEF SubmitPayment, ReadsStillHold, StillHolds
  <2>3. QED
    BY <1>1, <2>1, <2>2 DEF SubmitPayment
<1>2. ASSUME NEW h \in Handler, NEW b \in CoachRequest, NEW p \in Ref, NEW d \in Decision,
             DecidePayment(h, b, p, d)
      PROVE  SubmissionEffect
  BY <1>2 DEF DecidePayment, MayDecidePayment
<1>3. QED
  BY <1>1, <1>2
     DEF Next, SessionStep, RefundStep, vars, SubmitProof, ReadStatus, TransitionStatus, RequestRefund,
         CreateRefundRequest, DecideRefund, ApplyRefundDecision, CheckRefundApproved,
         CompleteRefund, CancelByCoach, CoachCancel, CompletePastBookings

(* Every step leaves the refunds alone, inserts one for a booking with a   *)
(* submission, or writes a later status over one.                          *)
RefundEffect ==
  \/ UNCHANGED refundVars
  \/ \E f \in Refund, b \in CoachRequest, new \in {"REQUESTED", "APPROVED"} :
       /\ refStatus[f] = "NONE" /\ Exists(b) /\ HasProof(b)
       /\ refBooking' = [refBooking EXCEPT ![f] = b]
       /\ refStatus' = [refStatus EXCEPT ![f] = new]
  \/ \E f \in Refund, new \in Decision \cup {"COMPLETED"} :
       /\ refStatus[f] # "NONE"
       /\ refStatus' = [refStatus EXCEPT ![f] = new]
       /\ UNCHANGED refBooking

LEMMA StepRefundEffect ==
  ASSUME TypeOK, RowsExist, ReadsStillHold, [Next]_vars
  PROVE  RefundEffect
<1> USE DEF RefundEffect
<1>1. ASSUME NEW h \in Handler, NEW f \in Refund,
             CreateRefundRequest(h, f) \/ CoachCancel(h, f)
      PROVE  RefundEffect
  <2>1. mem[h].booking \in CoachRequest
    BY <1>1, MemShape DEF CreateRefundRequest, CoachCancel, RefundMem
  <2>2. Exists(mem[h].booking) /\ HasProof(mem[h].booking)
    BY <1>1 DEF CreateRefundRequest, CoachCancel, ReadsStillHold, StillHolds
  <2>3. QED
    BY <1>1, <2>1, <2>2 DEF CreateRefundRequest, CoachCancel
<1>2. ASSUME NEW h \in Handler, ApplyRefundDecision(h)
      PROVE  RefundEffect
  <2>1. mem[h].refund \in Refund /\ mem[h].decision \in Decision
    BY <1>2, MemShape DEF ApplyRefundDecision, DecisionMem
  <2>2. refStatus[mem[h].refund] # "NONE"
    BY <1>2 DEF ApplyRefundDecision, ReadsStillHold, StillHolds
  <2>3. QED
    BY <1>2, <2>1, <2>2 DEF ApplyRefundDecision
<1>3. ASSUME NEW h \in Handler, CompleteRefund(h)
      PROVE  RefundEffect
  <2>1. mem[h].refund \in Refund
    BY <1>3, MemShape DEF CompleteRefund, PayoutMem
  <2>2. refStatus[mem[h].refund] # "NONE"
    BY <1>3 DEF CompleteRefund, ReadsStillHold, StillHolds
  <2>3. QED
    BY <1>3, <2>1, <2>2 DEF CompleteRefund
<1>4. QED
  BY <1>1, <1>2, <1>3
     DEF Next, SessionStep, RefundStep, vars, SubmitProof, SubmitPayment, DecidePayment, ReadStatus,
         TransitionStatus, RequestRefund, DecideRefund, CheckRefundApproved, CancelByCoach,
         CompletePastBookings

(* Rows are never deleted and keep their booking, and a request never goes *)
(* back to waiting for its coach.                                          *)
LEMMA RowsStay ==
  ASSUME TypeOK, RowsExist, ReadsStillHold, [Next]_vars
  PROVE  /\ \A q \in CoachRequest : requested[q] # "NONE" =>
              /\ requested'[q] # "NONE" /\ session'[q] = session[q]
              /\ \A c \in Coach : MayServe(q, c) => MayServe(q, c)'
         /\ \A b : Exists(b) => Exists(b)'
         /\ \A p \in Ref : subStatus[p] # "NONE" =>
              subStatus'[p] # "NONE" /\ subBooking'[p] = subBooking[p]
         /\ \A f \in Refund : refStatus[f] # "NONE" =>
              refStatus'[f] # "NONE" /\ refBooking'[f] = refBooking[f]
<1>1. ASSUME NEW q \in CoachRequest, requested[q] # "NONE"
      PROVE  /\ requested'[q] # "NONE" /\ session'[q] = session[q]
             /\ \A c \in Coach : MayServe(q, c) => MayServe(q, c)'
  BY <1>1, StepRequestEffect
     DEF RequestEffect, requestVars, CreateRequest, Acceptance, MayServe, TypeOK, MarketTypeOK
<1>2. \A b : Exists(b) => Exists(b)'
  BY StepBookingEffect
     DEF BookingEffect, Acceptance, WriteStatus, Written, TypeOK, MarketTypeOK, Exists,
         CompletePastBookings
<1>3. \A p \in Ref : subStatus[p] # "NONE" =>
        subStatus'[p] # "NONE" /\ subBooking'[p] = subBooking[p]
  BY StepSubmissionEffect DEF SubmissionEffect, submissionVars, TypeOK, Decision
<1>4. \A f \in Refund : refStatus[f] # "NONE" =>
        refStatus'[f] # "NONE" /\ refBooking'[f] = refBooking[f]
  BY StepRefundEffect DEF RefundEffect, refundVars, TypeOK, Decision
<1>5. QED
  BY <1>1, <1>2, <1>3, <1>4

LEMMA ProofsStay ==
  ASSUME TypeOK, RowsExist, ReadsStillHold, [Next]_vars, NEW b \in CoachRequest, HasProof(b)
  PROVE  HasProof(b)'
<1>1. PICK p \in Ref : subBooking[p] = b
  BY DEF HasProof
<1>2. subStatus[p] # "NONE"
  BY <1>1, RefundAssumption DEF RowsExist
<1>3. subBooking'[p] = b
  BY <1>1, <1>2, RowsStay
<1>4. QED
  BY <1>3 DEF HasProof

---------------------------------------------------------------------------
(* The inductive invariant.  As for the courts, the writes check nothing:  *)
(* what the handlers in flight rely on (ReadsStillHold) carries the        *)
(* argument, and for an acceptance it follows from OffersNeedApproval.     *)
Inv ==
  /\ TypeOK
  /\ RowsExist
  /\ ReadsStillHold
  /\ AcceptedOfferIsBooked
  /\ OffersNeedApproval
  /\ NoCoachDoubleBooking
  /\ SessionNeedsProof
  /\ RefundsMatchSessions

LEMMA InitInv == Init => Inv
<1> SUFFICES ASSUME Init PROVE Inv
  OBVIOUS
<1> USE DEF Init, MarketInit
<1>1. TypeOK
  BY InitTypeOK
<1>2. RowsExist /\ ReadsStillHold
  BY DEF RowsExist, ReadsStillHold, StillHolds, Idle
<1>3. AcceptedOfferIsBooked /\ OffersNeedApproval
  BY DEF AcceptedOfferIsBooked, OffersNeedApproval, Offer
<1>4. NoCoachDoubleBooking /\ SessionNeedsProof /\ RefundsMatchSessions
  BY DEF NoCoachDoubleBooking, Blocking, SessionNeedsProof, RefundsMatchSessions
<1>5. QED
  BY <1>1, <1>2, <1>3, <1>4 DEF Inv

(* No write puts two overlapping sessions of a coach into blocking         *)
(* statuses.                                                               *)
LEMMA StepNoCoachDoubleBooking ==
  ASSUME TypeOK, RowsExist, ReadsStillHold, NoCoachDoubleBooking, [Next]_vars
  PROVE  NoCoachDoubleBooking'
<1> SUFFICES ASSUME NEW p \in CoachRequest, NEW q \in CoachRequest, p # q,
                    status'[p] \in Blocking, status'[q] \in Blocking, coach'[p] = coach'[q]
             PROVE  ~Clash(session'[p], session'[q])
  BY DEF NoCoachDoubleBooking
<1> USE DEF TypeOK, MarketTypeOK
<1>0. \A s, t : Clash(s, t) <=> Clash(t, s)
  BY DEF Clash
<1> SUFFICES ~Clash(session[p], session[q])
  <2>1. CASE requested[p] # "NONE" /\ requested[q] # "NONE"
    BY <2>1, RowsStay
  <2>2. CASE requested[p] = "NONE" \/ requested[q] = "NONE"
    <3>1. \A b \in CoachRequest : requested[b] = "NONE" => status'[b] \notin Blocking
      BY StepBookingEffect
         DEF BookingEffect, RowsExist, Acceptance, MayServe, WriteStatus, Exists, Blocking,
             CompletePastBookings, Past
    <3>2. QED
      BY <2>2, <3>1
  <2>3. QED
    BY <2>1, <2>2
<1>1. CASE UNCHANGED <<status, bookingVars>>
  BY <1>1 DEF NoCoachDoubleBooking, bookingVars
<1>2. ASSUME NEW a \in CoachRequest, NEW c \in Coach, Acceptance(a, c)
      PROVE  ~Clash(session[p], session[q])
  BY <1>2, <1>0 DEF Acceptance, ExclusionAllows, NoCoachDoubleBooking
<1>3. ASSUME NEW a \in CoachRequest, NEW new \in Written, WriteStatus(a, new)
      PROVE  ~Clash(session[p], session[q])
  BY <1>3, <1>0 DEF WriteStatus, ExclusionAllows, NoCoachDoubleBooking, bookingVars
<1>4. CASE CompletePastBookings
  BY <1>4 DEF CompletePastBookings, NoCoachDoubleBooking, Blocking, bookingVars
<1>5. QED
  BY <1>1, <1>2, <1>3, <1>4, StepBookingEffect DEF BookingEffect, Exists

LEMMA StepRowsExist ==
  ASSUME TypeOK, RowsExist, ReadsStillHold, [Next]_vars
  PROVE  RowsExist'
<1> USE RefundAssumption
<1>1. ASSUME NEW q \in CoachRequest, status'[q] # "NONE"
      PROVE  requested'[q] # "NONE"
  <2>1. requested[q] # "NONE"
    BY <1>1, StepBookingEffect
       DEF BookingEffect, RowsExist, Acceptance, MayServe, WriteStatus, Exists,
           CompletePastBookings, Past, TypeOK, MarketTypeOK
  <2>2. QED
    BY <2>1, RowsStay
<1>2. ASSUME NEW p \in Ref
      PROVE  /\ subBooking'[p] = None <=> subStatus'[p] = "NONE"
             /\ subStatus'[p] # "NONE" => Exists(subBooking[p])'
  <2>1. SubmissionEffect
    BY StepSubmissionEffect
  <2>2. subBooking'[p] = None <=> subStatus'[p] = "NONE"
    BY <2>1 DEF SubmissionEffect, submissionVars, RowsExist, TypeOK, Decision
  <2>3. subStatus'[p] # "NONE" => Exists(subBooking'[p])
    BY <2>1 DEF SubmissionEffect, submissionVars, RowsExist, TypeOK, Decision, Exists
  <2>4. subStatus'[p] # "NONE" => Exists(subBooking[p])'
    BY <2>3, RowsStay DEF Exists
  <2>5. QED
    BY <2>2, <2>4
<1>3. ASSUME NEW f \in Refund, refStatus'[f] # "NONE"
      PROVE  Exists(refBooking[f])' /\ HasProof(refBooking[f])'
  <2>1. RefundEffect
    BY StepRefundEffect
  <2>2. Exists(refBooking'[f]) /\ HasProof(refBooking'[f])
    BY <1>3, <2>1 DEF RefundEffect, refundVars, RowsExist, TypeOK, Exists, Decision
  <2>3. Exists(refBooking[f])'
    BY <2>2, RowsStay DEF Exists
  <2>4. HasProof(refBooking[f])'
    BY <2>2, ProofsStay DEF Exists, HasProof
  <2>5. QED
    BY <2>3, <2>4
<1>4. QED
  BY <1>1, <1>2, <1>3 DEF RowsExist

(* Whatever a handler remembers, no step makes it stop holding.            *)
LEMMA StillHoldsStable ==
  ASSUME TypeOK, RowsExist, ReadsStillHold, [Next]_vars,
         NEW m \in Mem, StillHolds(m)
  PROVE  StillHolds(m)'
<1> USE DEF StillHolds
<1>1. m.at = "answerRequest" => requested'[m.request] # "NONE"
  <2>1. m.at = "answerRequest" => m.request \in CoachRequest
    BY DEF Mem, MarketMem, SessionMem, Idle, AnswerMem, OfferMem, AcceptMem,
           ProofMem, StatusMem, RefundMem, DecisionMem, PayoutMem
  <2>2. QED
    BY <2>1, RowsStay
<1>2. m.at \in {"createOffer", "acceptOffer"} =>
        /\ requested'[m.offer[1]] \notin {"NONE", "PENDING_COACH"}
        /\ target'[m.offer[1]] \in {None, m.offer[2]}
  <2> SUFFICES ASSUME m.at \in {"createOffer", "acceptOffer"}
               PROVE  /\ requested'[m.offer[1]] \notin {"NONE", "PENDING_COACH"}
                      /\ target'[m.offer[1]] \in {None, m.offer[2]}
    OBVIOUS
  <2>1. m.offer \in Offer
    BY DEF Mem, MarketMem, SessionMem, Idle, AnswerMem, OfferMem, AcceptMem,
           ProofMem, StatusMem, RefundMem, DecisionMem, PayoutMem
  <2>2. PICK q \in CoachRequest, c \in Coach : q = m.offer[1] /\ c = m.offer[2]
    BY <2>1, OfferParts
  <2>3. MayServe(q, c)
    BY <2>2 DEF MayServe
  <2>4. MayServe(q, c)'
    BY <2>3, RowsStay DEF MayServe
  <2>5. QED
    BY <2>2, <2>4 DEF MayServe
<1>3. m.at \in {"submitPayment", "readStatus", "writeStatus",
               "createRefundRequest", "coachCancel"} => Exists(m.booking)'
  BY RowsStay
<1>4. m.at = "readStatus" /\ m.expected = "HELD" => HasProof(m.booking)'
  BY ProofsStay DEF Exists
<1>5. m.at \in {"writeStatus", "createRefundRequest", "coachCancel"} => HasProof(m.booking)'
  BY ProofsStay DEF Exists
<1>6. m.at \in {"decideRefund", "completeRefund"} => m.refund \in Refund
  BY DEF Mem, MarketMem, SessionMem, Idle, AnswerMem, OfferMem, AcceptMem,
         ProofMem, StatusMem, RefundMem, DecisionMem, PayoutMem
<1>7. m.at = "decideRefund" => refStatus'[m.refund] # "NONE"
  BY <1>6, RowsStay
<1>8. m.at = "completeRefund" => refStatus'[m.refund] \notin {"NONE", "REQUESTED"}
  BY <1>6, StepRefundEffect DEF RefundEffect, refundVars, TypeOK, Decision
<1>9. QED
  BY <1>1, <1>2, <1>3, <1>4, <1>5, <1>7, <1>8

(* A step of handler s that leaves it with a memory of which everything    *)
(* still holds.                                                            *)
LEMMA RememberStillHolds ==
  ASSUME TypeOK, RowsExist, ReadsStillHold, [Next]_vars,
         NEW s \in Handler, NEW state, Remember(s, state), StillHolds(state)'
  PROVE  ReadsStillHold'
<1> SUFFICES ASSUME NEW h \in Handler
             PROVE  StillHolds(mem[h])'
  BY DEF ReadsStillHold
<1>1. CASE h = s
  <2>1. mem'[h] = state
    BY <1>1 DEF Remember, TypeOK
  <2>2. QED
    BY <2>1 DEF StillHolds
<1>2. CASE h # s
  <2>1. mem'[h] = mem[h] /\ mem[h] \in Mem
    BY <1>2 DEF Remember, TypeOK, Mem
  <2>2. StillHolds(mem[h])
    BY DEF ReadsStillHold
  <2>3. ASSUME NEW m \in Mem, StillHolds(m)
        PROVE  StillHolds(m)'
    BY <2>3, StillHoldsStable
  <2>4. QED
    BY <2>1, <2>2, <2>3 DEF StillHolds
<1>3. QED
  BY <1>1, <1>2

LEMMA StepReadsStillHold ==
  ASSUME TypeOK, RowsExist, ReadsStillHold, OffersNeedApproval, SessionNeedsProof,
         [Next]_vars
  PROVE  ReadsStillHold'
<1> USE DEF StillHolds
<1>1. ASSUME NEW h \in Handler, Finish(h)
      PROVE  ReadsStillHold'
  <2>1. StillHolds(Idle)'
    BY DEF Idle
  <2>2. QED
    BY <1>1, <2>1, RememberStillHolds DEF Finish
<1>2. ASSUME NEW h \in Handler, NEW q \in CoachRequest, NEW a \in {"OPEN", "DECLINED"},
             AnswerRequest(h, q, a)
      PROVE  ReadsStillHold'
  <2> DEFINE m == [at |-> "answerRequest", request |-> q, status |-> a]
  <2>1. requested'[q] # "NONE"
    BY <1>2, RowsStay DEF AnswerRequest, MayAnswer
  <2>2. StillHolds(m)'
    BY <2>1
  <2>3. Remember(h, m)
    BY <1>2 DEF AnswerRequest
  <2>4. QED
    BY <2>2, <2>3, RememberStillHolds
<1>3. ASSUME NEW h \in Handler, NEW q \in CoachRequest, NEW c \in Coach,
             NEW e \in 0 .. MaxTime, CheckOffer(h, q, c, e)
      PROVE  ReadsStillHold'
  <2> DEFINE m == [at |-> "createOffer", offer |-> <<q, c>>, expires |-> e]
  <2>1. MayServe(q, c)
    BY <1>3 DEF CheckOffer, MayOfferUntil, MayOffer, MayServe
  <2>2. MayServe(q, c)'
    BY <2>1, RowsStay DEF MayServe
  <2>3. StillHolds(m)'
    BY <2>2 DEF MayServe
  <2>4. Remember(h, m)
    BY <1>3 DEF CheckOffer
  <2>5. QED
    BY <2>3, <2>4, RememberStillHolds
<1>4. ASSUME NEW h \in Handler, NEW q \in CoachRequest, NEW c \in Coach,
             CheckAcceptance(h, q, c)
      PROVE  ReadsStillHold'
  <2>1. PICK d \in Nat : d = now + HoldDuration
    BY MarketAssumption DEF TypeOK, MarketTypeOK
  <2> DEFINE m == [at |-> "acceptOffer", offer |-> <<q, c>>, deadline |-> d]
  <2>2. MayServe(q, c)
    BY <1>4 DEF CheckAcceptance, MayAccept, OffersNeedApproval, MayServe
  <2>3. MayServe(q, c)'
    BY <2>2, RowsStay DEF MayServe
  <2>4. StillHolds(m)'
    BY <2>3 DEF MayServe
  <2>5. Remember(h, m)
    BY <1>4, <2>1 DEF CheckAcceptance
  <2>6. QED
    BY <2>4, <2>5, RememberStillHolds
<1>5. ASSUME NEW h \in Handler, NEW b \in CoachRequest, NEW p \in Ref, SubmitProof(h, b, p)
      PROVE  ReadsStillHold'
  <2> DEFINE m == [at |-> "submitPayment", booking |-> b, ref |-> p]
  <2>1. Exists(b)'
    BY <1>5, RowsStay DEF SubmitProof, MaySubmitProof, Exists
  <2>2. StillHolds(m)'
    BY <2>1
  <2>3. Remember(h, m)
    BY <1>5 DEF SubmitProof
  <2>4. QED
    BY <2>2, <2>3, RememberStillHolds
<1>6. ASSUME NEW h \in Handler, SubmitPayment(h)
      PROVE  ReadsStillHold'
  <2>1. PICK b \in CoachRequest : b = mem[h].booking
    BY <1>6, MemShape DEF SubmitPayment, ProofMem
  <2> DEFINE m == [at |-> "readStatus", booking |-> b, expected |-> "HELD",
                   next |-> "PROOF_SUBMITTED"]
  <2>2. Exists(b)'
    BY <1>6, <2>1, RowsStay DEF SubmitPayment, ReadsStillHold
  <2>3. HasProof(b)'
    <3>1. mem[h].ref \in Ref
      BY <1>6, MemShape DEF SubmitPayment, ProofMem
    <3>2. QED
      BY <1>6, <2>1, <3>1 DEF SubmitPayment, TypeOK, HasProof
  <2>4. StillHolds(m)'
    BY <2>2, <2>3
  <2>5. Remember(h, m)
    BY <1>6, <2>1 DEF SubmitPayment
  <2>6. QED
    BY <2>4, <2>5, RememberStillHolds
<1>7. ASSUME NEW h \in Handler, NEW b \in CoachRequest, NEW p \in Ref, NEW d \in Decision,
             DecidePayment(h, b, p, d)
      PROVE  ReadsStillHold'
  <2> DEFINE m == [at |-> "readStatus", booking |-> b, expected |-> "PROOF_SUBMITTED",
                   next |-> IF d = "APPROVED" THEN "CONFIRMED" ELSE "REJECTED"]
  <2>1. Exists(b)'
    BY <1>7, RowsStay DEF DecidePayment, MayDecidePayment, Exists
  <2>2. StillHolds(m)'
    BY <2>1
  <2>3. Remember(h, m)
    BY <1>7 DEF DecidePayment
  <2>4. QED
    BY <2>2, <2>3, RememberStillHolds
<1>8. ASSUME NEW h \in Handler, ReadStatus(h)
      PROVE  ReadsStillHold'
  <2>1. PICK m0 \in StatusMem : m0 = mem[h]
    BY <1>8, MemShape DEF ReadStatus
  <2> DEFINE m == [m0 EXCEPT !.at = "writeStatus"]
  <2>2. Exists(m0.booking)
    BY <1>8, <2>1 DEF ReadStatus, ReadsStillHold
  <2>3. HasProof(m0.booking)
    <3>1. CASE m0.expected = "HELD"
      BY <1>8, <2>1, <3>1 DEF ReadStatus, ReadsStillHold
    <3>2. CASE m0.expected = "PROOF_SUBMITTED"
      BY <1>8, <2>1, <2>2, <3>2 DEF ReadStatus, SessionNeedsProof, Exists
    <3>3. QED
      BY <3>1, <3>2 DEF StatusMem
  <2>4. Exists(m0.booking)' /\ HasProof(m0.booking)'
    BY <2>2, <2>3, RowsStay, ProofsStay DEF Exists
  <2>5. StillHolds(m)'
    BY <2>4 DEF StatusMem
  <2>6. Remember(h, m)
    BY <1>8, <2>1 DEF ReadStatus
  <2>7. QED
    BY <2>5, <2>6, RememberStillHolds
<1>9. ASSUME NEW h \in Handler, NEW b \in CoachRequest,
             RequestRefund(h, b) \/ CancelByCoach(h, b)
      PROVE  ReadsStillHold'
  <2>1. PICK at \in {"createRefundRequest", "coachCancel"} :
          Remember(h, [at |-> at, booking |-> b])
    BY <1>9 DEF RequestRefund, CancelByCoach
  <2>2. Exists(b) /\ HasProof(b)
    BY <1>9 DEF RequestRefund, CancelByCoach, MayRequestRefund, MayCancel, Exists,
                SessionNeedsProof
  <2>3. Exists(b)' /\ HasProof(b)'
    BY <2>2, RowsStay, ProofsStay
  <2> DEFINE m == [at |-> at, booking |-> b]
  <2>4. StillHolds(m)'
    BY <2>3
  <2>5. QED
    BY <2>1, <2>4, RememberStillHolds
<1>10. ASSUME NEW h \in Handler, NEW f \in Refund, NEW d \in Decision, DecideRefund(h, f, d)
       PROVE  ReadsStillHold'
  <2> DEFINE m == [at |-> "decideRefund", refund |-> f, decision |-> d]
  <2>1. refStatus'[f] # "NONE"
    BY <1>10, RowsStay DEF DecideRefund
  <2>2. StillHolds(m)'
    BY <2>1
  <2>3. Remember(h, m)
    BY <1>10 DEF DecideRefund
  <2>4. QED
    BY <2>2, <2>3, RememberStillHolds
<1>11. ASSUME NEW h \in Handler, NEW f \in Refund, CheckRefundApproved(h, f)
       PROVE  ReadsStillHold'
  <2> DEFINE m == [at |-> "completeRefund", refund |-> f]
  <2>1. refStatus'[f] = "APPROVED"
    BY <1>11 DEF CheckRefundApproved, refundVars
  <2>2. StillHolds(m)'
    BY <2>1
  <2>3. Remember(h, m)
    BY <1>11 DEF CheckRefundApproved
  <2>4. QED
    BY <2>2, <2>3, RememberStillHolds
<1>12. CASE UNCHANGED mem
  <2> SUFFICES ASSUME NEW h \in Handler
               PROVE  StillHolds(mem[h])'
    BY DEF ReadsStillHold
  <2>1. PICK m \in Mem : m = mem[h]
    BY DEF TypeOK, Mem
  <2>2. StillHolds(m)
    BY <2>1 DEF ReadsStillHold
  <2>3. StillHolds(m)'
    BY <2>2, StillHoldsStable
  <2>4. QED
    BY <1>12, <2>1, <2>3
<1>13. CASE MarketStep
  BY <1>1, <1>2, <1>3, <1>4, <1>12, <1>13
     DEF MarketStep, CreateRequest, UpdateRequestStatus, CreateOffer, AcceptOffer, Abort, Tick
<1>14. ASSUME NEW h \in Handler, SessionStep(h)
       PROVE  ReadsStillHold'
  <2>1. \/ Finish(h)
        \/ \E b \in CoachRequest :
             \/ \E p \in Ref : SubmitProof(h, b, p)
             \/ \E p \in Ref, d \in Decision : DecidePayment(h, b, p, d)
             \/ RequestRefund(h, b) \/ CancelByCoach(h, b)
        \/ \E f \in Refund : \/ \E d \in Decision : DecideRefund(h, f, d)
                             \/ CheckRefundApproved(h, f)
        \/ SubmitPayment(h) \/ ReadStatus(h)
    BY <1>14 DEF SessionStep, RefundStep, TransitionStatus, CreateRefundRequest, ApplyRefundDecision,
                 CompleteRefund, CoachCancel
  <2>2. QED
    BY <2>1, <1>1, <1>5, <1>6, <1>7, <1>8, <1>9, <1>10, <1>11
<1>15. QED
  BY <1>12, <1>13, <1>14 DEF Next, vars, CompletePastBookings

LEMMA StepSessionNeedsProof ==
  ASSUME TypeOK, RowsExist, ReadsStillHold, SessionNeedsProof, [Next]_vars
  PROVE  SessionNeedsProof'
<1> SUFFICES ASSUME NEW b \in CoachRequest, status'[b] \notin {"NONE", "HELD"}
             PROVE  HasProof(b)'
  BY DEF SessionNeedsProof
<1>1. HasProof(b)
  <2> USE DEF TypeOK, MarketTypeOK, SessionNeedsProof
  <2>1. ASSUME NEW q \in CoachRequest, NEW c \in Coach, Acceptance(q, c)
        PROVE  HasProof(b)
    BY <2>1 DEF Acceptance
  <2>2. ASSUME NEW a \in CoachRequest, NEW new \in Written, HasProof(a), WriteStatus(a, new)
        PROVE  HasProof(b)
    BY <2>2 DEF WriteStatus
  <2>3. CASE CompletePastBookings
    BY <2>3 DEF CompletePastBookings, Past
  <2>4. CASE UNCHANGED <<status, bookingVars>>
    BY <2>4
  <2>5. QED
    BY <2>1, <2>2, <2>3, <2>4, StepBookingEffect DEF BookingEffect
<1>2. QED
  BY <1>1, ProofsStay

(* The two halves of RefundsMatchSessions.  Only the four refund writes    *)
(* touch both tables; every other step leaves the refunds alone and writes *)
(* neither REFUND_REQUESTED nor CANCELLED.                                 *)
LEMMA StepRefundsMatchSessions ==
  ASSUME TypeOK, RowsExist, ReadsStillHold, RefundsMatchSessions, [Next]_vars
  PROVE  RefundsMatchSessions'
<1> USE DEF RefundsMatchSessions
<1> DEFINE Kept == RefundsMatchSessions'
<1>1. ASSUME NEW h \in Handler, NEW f \in Refund, CreateRefundRequest(h, f)
      PROVE  Kept
  BY <1>1 DEF CreateRefundRequest, WriteStatus, TypeOK, MarketTypeOK
<1>2. ASSUME NEW h \in Handler, NEW f \in Refund, CoachCancel(h, f)
      PROVE  Kept
  BY <1>2 DEF CoachCancel, WriteStatus, TypeOK, MarketTypeOK
<1>3. ASSUME NEW h \in Handler, ApplyRefundDecision(h)
      PROVE  Kept
  <2>1. mem[h].refund \in Refund /\ mem[h].decision \in Decision
    BY <1>3, MemShape DEF ApplyRefundDecision, DecisionMem
  <2>2. Exists(refBooking[mem[h].refund])
    BY <1>3, <2>1 DEF ApplyRefundDecision, RowsExist, ReadsStillHold, StillHolds
  <2> DEFINE f == mem[h].refund
             b == refBooking[f]
             d == mem[h].decision
  <2>3. status' = [status EXCEPT ![b] = Outcome(d)] /\ refStatus' = [refStatus EXCEPT ![f] = d]
    BY <1>3 DEF ApplyRefundDecision, WriteStatus
  <2>4. UNCHANGED refBooking
    BY <1>3 DEF ApplyRefundDecision
  <2>5. QED
    BY <2>1, <2>2, <2>3, <2>4 DEF Outcome, Decision, Exists, TypeOK, MarketTypeOK
<1>4. ASSUME NEW h \in Handler, CompleteRefund(h)
      PROVE  Kept
  <2>1. mem[h].refund \in Refund
    BY <1>4, MemShape DEF CompleteRefund, PayoutMem
  <2>2. refStatus[mem[h].refund] # "REQUESTED"
    BY <1>4 DEF CompleteRefund, ReadsStillHold, StillHolds
  <2>3. QED
    BY <1>4, <2>1, <2>2 DEF CompleteRefund, TypeOK, marketVars
<1>5. CASE /\ UNCHANGED refundVars
           /\ \A b \in CoachRequest : \/ status'[b] = status[b]
                                      \/ status'[b] \notin {"REFUND_REQUESTED", "CANCELLED"}
  BY <1>5 DEF refundVars
<1>6. CASE UNCHANGED <<status, refundVars>>
  BY <1>5, <1>6
<1>7. CASE MarketStep /\ UNCHANGED <<submissionVars, refundVars>>
  <2>1. ASSUME NEW h \in Handler, AcceptOffer(h)
        PROVE  Kept
    BY <1>5, <1>7, <2>1, AcceptOfferEffect DEF Acceptance, TypeOK, MarketTypeOK
  <2>2. QED
    BY <1>6, <1>7, <2>1
       DEF MarketStep, CreateRequest, AnswerRequest, UpdateRequestStatus, CheckOffer,
           CreateOffer, CheckAcceptance, Abort, Tick, marketVars
<1>8. ASSUME NEW h \in Handler, TransitionStatus(h)
      PROVE  Kept
  <2>1. mem[h].next \notin {"REFUND_REQUESTED", "CANCELLED"}
    BY <1>8, MemShape DEF TransitionStatus, StatusMem
  <2>2. QED
    BY <1>5, <1>8, <2>1 DEF TransitionStatus, WriteStatus, TypeOK, MarketTypeOK
<1>9. CASE CompletePastBookings
  BY <1>5, <1>9 DEF CompletePastBookings
<1>10. QED
  BY <1>1, <1>2, <1>3, <1>4, <1>6, <1>7, <1>8, <1>9
     DEF Next, SessionStep, RefundStep, vars, marketVars, SubmitProof, SubmitPayment, DecidePayment,
         ReadStatus, RequestRefund, DecideRefund, CheckRefundApproved, CancelByCoach

(* Only an acceptance settles offers, matches requests or inserts bookings.*)
LEMMA StepAcceptedOfferIsBooked ==
  ASSUME TypeOK, RowsExist, ReadsStillHold, AcceptedOfferIsBooked, [Next]_vars
  PROVE  AcceptedOfferIsBooked'
<1> USE DEF TypeOK, MarketTypeOK
<1>0. \A q \in CoachRequest, c \in Coach : <<q, c>> \in Offer
  BY DEF Offer
<1>1. ASSUME NEW q \in CoachRequest, NEW c \in Coach, Acceptance(q, c)
      PROVE  AcceptedOfferIsBooked'
  <2>1. ASSUME NEW p \in CoachRequest, NEW d \in Coach
        PROVE  /\ offer'[<<p, d>>] = "ACCEPTED" <=> status'[p] # "NONE" /\ coach'[p] = d
               /\ offer'[<<p, d>>] = "REJECTED" => status'[p] # "NONE"
    <3>1. offer'[<<p, d>>] =
            IF p = q /\ d = c THEN "ACCEPTED"
            ELSE IF p = q /\ offer[<<p, d>>] = "ACTIVE" THEN "REJECTED" ELSE offer[<<p, d>>]
      BY <1>0, <1>1 DEF Acceptance, Accepted
    <3>2. CASE p = q
      BY <1>1, <3>1, <3>2 DEF Acceptance, AcceptedOfferIsBooked
    <3>3. CASE p # q
      BY <1>1, <3>1, <3>3 DEF Acceptance, AcceptedOfferIsBooked
    <3>4. QED
      BY <3>2, <3>3
  <2>2. ASSUME NEW p \in CoachRequest, requested'[p] = "MATCHED"
        PROVE  status'[p] # "NONE"
    BY <1>1, <2>2 DEF Acceptance, AcceptedOfferIsBooked
  <2>3. QED
    BY <2>1, <2>2 DEF AcceptedOfferIsBooked
<1>2. CASE ~ \E q \in CoachRequest, c \in Coach : Acceptance(q, c)
  <2>1. ASSUME NEW q \in CoachRequest, NEW c \in Coach, NEW s \in {"ACCEPTED", "REJECTED"}
        PROVE  offer'[<<q, c>>] = s <=> offer[<<q, c>>] = s
    BY <1>0, <1>2, StepOfferEffect DEF OfferEffect, offerVars
  <2>2. ASSUME NEW q \in CoachRequest
        PROVE  (status'[q] # "NONE" <=> status[q] # "NONE") /\ coach'[q] = coach[q]
    BY <1>2, StepBookingEffect
       DEF BookingEffect, bookingVars, WriteStatus, Written, Exists, CompletePastBookings, Past
  <2>3. ASSUME NEW q \in CoachRequest, requested'[q] = "MATCHED"
        PROVE  requested[q] = "MATCHED"
    BY <1>2, <2>3, StepRequestEffect DEF RequestEffect, requestVars, CreateRequest
  <2>4. QED
    BY <2>1, <2>2, <2>3 DEF AcceptedOfferIsBooked
<1>3. QED
  BY <1>1, <1>2

(* An offer appears only where its coach may serve, and stays there.       *)
LEMMA StepOffersNeedApproval ==
  ASSUME TypeOK, RowsExist, ReadsStillHold, OffersNeedApproval, [Next]_vars
  PROVE  OffersNeedApproval'
<1> SUFFICES ASSUME NEW q \in CoachRequest, NEW c \in Coach, offer'[<<q, c>>] # "NONE"
             PROVE  MayServe(q, c)'
  BY DEF OffersNeedApproval, MayServe
<1>1. <<q, c>> \in Offer
  BY DEF Offer
<1>2. offer[<<q, c>>] # "NONE" => MayServe(q, c)
  BY DEF OffersNeedApproval, MayServe
<1>3. MayServe(q, c)
  <2>1. CASE UNCHANGED offerVars
    BY <1>2, <2>1 DEF offerVars
  <2>2. ASSUME NEW p \in CoachRequest, NEW d \in Coach, MayServe(p, d),
               offer' = [offer EXCEPT ![<<p, d>>] = "ACTIVE"]
        PROVE  MayServe(q, c)
    <3>1. CASE p = q /\ d = c
      BY <2>2, <3>1
    <3>2. CASE <<p, d>> # <<q, c>>
      BY <1>1, <1>2, <2>2, <3>2 DEF TypeOK, MarketTypeOK
    <3>3. QED
      BY <3>1, <3>2
  <2>3. ASSUME NEW p \in CoachRequest, NEW d \in Coach, Acceptance(p, d)
        PROVE  MayServe(q, c)
    <3>1. CASE p = q /\ d = c
      BY <2>3, <3>1 DEF Acceptance
    <3>2. CASE <<p, d>> # <<q, c>>
      BY <1>1, <1>2, <2>3, <3>2 DEF Acceptance, Accepted
    <3>3. QED
      BY <3>1, <3>2
  <2>4. QED
    BY <2>1, <2>2, <2>3, StepOfferEffect DEF OfferEffect
<1>4. MayServe(q, c) => requested[q] # "NONE"
  BY DEF MayServe
<1>5. QED
  BY <1>3, <1>4, RowsStay

LEMMA StepInv == Inv /\ [Next]_vars => Inv'
BY StepTypeOK, StepRowsExist, StepReadsStillHold, StepAcceptedOfferIsBooked,
   StepOffersNeedApproval, StepNoCoachDoubleBooking, StepSessionNeedsProof,
   StepRefundsMatchSessions
   DEF Inv

LEMMA Invariance == Spec => []Inv
BY InitInv, StepInv, PTL DEF Spec

---------------------------------------------------------------------------
(* Rows refer to rows that exist and refunds to paid bookings, whatever    *)
(* the handlers interleave.                                                *)
THEOREM RowsAreSound == Spec => []RowsExist
<1>1. Inv => RowsExist
  BY DEF Inv
<1>2. QED
  BY <1>1, Invariance, PTL

(* What a handler checked before it writes still holds when it writes.     *)
THEOREM ChecksSurvive == Spec => []ReadsStillHold
<1>1. Inv => ReadsStillHold
  BY DEF Inv
<1>2. QED
  BY <1>1, Invariance, PTL

(* Any number of players' acceptances leave one booking per request, made  *)
(* with the one accepted offer, and refuse no offer without it.            *)
THEOREM AcceptanceIsAtomic == Spec => []AcceptedOfferIsBooked
<1>1. Inv => AcceptedOfferIsBooked
  BY DEF Inv
<1>2. QED
  BY <1>1, Invariance, PTL

(* No coach offers on a directed request before its coach approved it, and *)
(* no other coach ever does.                                               *)
THEOREM ApprovalBeforeOffers == Spec => []OffersNeedApproval
<1>1. Inv => OffersNeedApproval
  BY DEF Inv
<1>2. QED
  BY <1>1, Invariance, PTL

(* A coach is never booked for two overlapping sessions, the rejected      *)
(* refunds that revive a session included.                                 *)
THEOREM CoachBookedOnce == Spec => []NoCoachDoubleBooking
<1>1. Inv => NoCoachDoubleBooking
  BY DEF Inv
<1>2. QED
  BY <1>1, Invariance, PTL

(* No session is confirmed, completed, refunded or rejected without a      *)
(* payment submission of its own; one awaiting its refund has an open one, *)
(* a cancelled one a granted one (PaymentsBehindSessions).                 *)
THEOREM PaymentsMatch == Spec => []PaymentsBehindSessions
<1>1. Inv => PaymentsBehindSessions
  BY DEF Inv, PaymentsBehindSessions
<1>2. QED
  BY <1>1, Invariance, PTL

---------------------------------------------------------------------------
(* Every request that exists is for a session.                             *)
SessionsAreGiven == \A q \in CoachRequest : requested[q] # "NONE" => session[q] # None

LEMMA StepSessionsAreGiven ==
  ASSUME TypeOK, ReadsStillHold, SessionsAreGiven, [Next]_vars
  PROVE  SessionsAreGiven'
<1> USE MarketAssumption DEF SessionsAreGiven, TypeOK, MarketTypeOK
<1>1. CASE UNCHANGED requestVars
  BY <1>1 DEF requestVars
<1>2. ASSUME NEW q \in CoachRequest, NEW s \in Session, NEW c \in Coach \cup {None},
             CreateRequest(q, s, c)
      PROVE  SessionsAreGiven'
  BY <1>2 DEF CreateRequest
<1>3. ASSUME NEW q \in CoachRequest, NEW new \in {"OPEN", "DECLINED"},
             requested[q] # "NONE", requested' = [requested EXCEPT ![q] = new],
             UNCHANGED <<target, session>>
      PROVE  SessionsAreGiven'
  BY <1>3
<1>4. ASSUME NEW q \in CoachRequest, NEW c \in Coach, Acceptance(q, c)
      PROVE  SessionsAreGiven'
  BY <1>4 DEF Acceptance, MayServe
<1>5. QED
  BY <1>1, <1>2, <1>3, <1>4, StepRequestEffect DEF RequestEffect

LEMMA SessionsGiven == Spec => []SessionsAreGiven
<1>1. Init => SessionsAreGiven
  BY DEF Init, MarketInit, SessionsAreGiven
<1>2. Inv /\ SessionsAreGiven /\ [Next]_vars => SessionsAreGiven'
  BY StepSessionsAreGiven DEF Inv
<1>3. QED
  BY <1>1, <1>2, Invariance, PTL DEF Spec

---------------------------------------------------------------------------
(* Refinement of CourtCalendar: a coach is what a court is there.          *)

Paid == {q \in CoachRequest : HasProof(q)}
Phases == [q \in CoachRequest |-> PhaseOf(status[q])]
Times == [q \in CoachRequest |->
            IF status[q] = "NONE" THEN None ELSE TimeOf(coach[q], session[q])]

LEMMA RefinementInit == Init => Calendar!Init
BY RefundAssumption DEF Init, MarketInit, Calendar!Init, PhaseOf, HasProof

(* Live bookings of the calendar are the blocking ones, and two of them    *)
(* overlap there if they are of one coach and their sessions clash.        *)
LEMMA LiveMeansBlocking == \A q \in CoachRequest : Calendar!Live(q) <=> status[q] \in Blocking
BY DEF Calendar!Live, PhaseOf, Blocking

LEMMA AllowedIsAvailable ==
  ASSUME NEW q \in CoachRequest, NEW c, ExclusionAllows(q, c)
  PROVE  Calendar!Available(q, TimeOf(c, session[q]))
<1> SUFFICES ASSUME NEW p \in CoachRequest \ {q}, Calendar!Live(p)
             PROVE  ~Calendar!Overlap(Times[p], TimeOf(c, session[q]))
  BY DEF Calendar!Available, Times
<1>1. status[p] \in Blocking
  BY LiveMeansBlocking
<1>2. Times[p] = TimeOf(coach[p], session[p])
  BY <1>1 DEF Times, Blocking
<1>3. coach[p] = c => ~Clash(session[p], session[q])
  BY <1>1 DEF ExclusionAllows
<1>4. QED
  BY <1>2, <1>3 DEF Calendar!Overlap, TimeOf, Clash

(* Entering a blocking status secures the session in the calendar; any     *)
(* other write releases it, or finds it released.                          *)
LEMMA RefinementWrite ==
  ASSUME Inv, UNCHANGED subBooking, NEW q \in CoachRequest, NEW new \in Written,
         Exists(q), HasProof(q), WriteStatus(q, new)
  PROVE  [Calendar!Next]_Calendar!vars
<1> USE DEF Inv, TypeOK, MarketTypeOK
<1>1. Paid' = Paid
  BY DEF Paid, HasProof
<1>2. Phases' = [Phases EXCEPT ![q] = PhaseOf(new)]
  BY DEF Phases, WriteStatus
<1>3. Times' = Times
  BY DEF Times, WriteStatus, Written, Exists, bookingVars, requestVars
<1>4. Phases[q] # "free"
  BY DEF Phases, PhaseOf, Exists, BookingStatus, Blocking
<1>5. CASE new \in Blocking
  <2>1. PhaseOf(new) = "firm"
    BY <1>5 DEF PhaseOf, Written
  <2>2. Calendar!Available(q, Times[q])
    BY <1>5, AllowedIsAvailable DEF WriteStatus, Times, Exists
  <2>3. Calendar!Secure(q)
    BY <1>1, <1>2, <1>3, <1>4, <2>1, <2>2 DEF Calendar!Secure, Paid, Phases, Times
  <2>4. QED
    BY <2>3 DEF Calendar!Next
<1>6. CASE new \notin Blocking
  <2>1. PhaseOf(new) = "released"
    BY <1>6 DEF PhaseOf, Written, Blocking
  <2>2. CASE status[q] \in Blocking
    <3>1. Calendar!Release({q})
      BY <1>1, <1>2, <1>3, <2>1, <2>2, LiveMeansBlocking
         DEF Calendar!Release, Paid, Phases, Times
    <3>2. QED
      BY <3>1 DEF Calendar!Next
  <2>3. CASE status[q] \notin Blocking
    <3>1. Phases[q] = "released"
      BY <2>3 DEF Phases, PhaseOf, Exists, Blocking
    <3>2. Phases' = Phases
      BY <1>2, <2>1, <3>1 DEF Phases
    <3>3. QED
      BY <1>1, <1>3, <3>2 DEF Calendar!vars, Paid, Phases, Times
  <2>4. QED
    BY <2>2, <2>3
<1>7. QED
  BY <1>5, <1>6

LEMMA OnlySubmitPaymentInserts ==
  ASSUME [Next]_vars
  PROVE  UNCHANGED subBooking \/ \E h \in Handler : SubmitPayment(h)
<1>1. \/ UNCHANGED submissionVars
      \/ \E h \in Handler : SubmitPayment(h)
      \/ \E h \in Handler, b \in CoachRequest, p \in Ref, d \in Decision :
           DecidePayment(h, b, p, d)
  BY DEF Next, SessionStep, RefundStep, vars, SubmitProof, ReadStatus, TransitionStatus,
         RequestRefund, CreateRefundRequest, DecideRefund, ApplyRefundDecision,
         CheckRefundApproved, CompleteRefund, CancelByCoach, CoachCancel,
         CompletePastBookings
<1>2. QED
  BY <1>1 DEF submissionVars, DecidePayment

LEMMA RefinementStep == Inv /\ SessionsAreGiven /\ [Next]_vars => [Calendar!Next]_Calendar!vars
<1> SUFFICES ASSUME Inv, SessionsAreGiven, [Next]_vars
             PROVE  [Calendar!Next]_Calendar!vars
  OBVIOUS
<1> USE DEF Inv, TypeOK, MarketTypeOK
<1>1. ASSUME NEW h \in Handler, SubmitPayment(h)
      PROVE  Calendar!Next
  <2>1. mem[h].booking \in CoachRequest /\ mem[h].ref \in Ref
    BY <1>1, MemShape DEF SubmitPayment, ProofMem
  <2> DEFINE b == mem[h].booking
  <2>2. Exists(b) /\ subStatus[mem[h].ref] = "NONE"
    BY <1>1 DEF SubmitPayment, ReadsStillHold, StillHolds
  <2>3. subBooking[mem[h].ref] = None
    BY <2>1, <2>2 DEF RowsExist
  <2>4. \A c \in CoachRequest : HasProof(c)' <=> HasProof(c) \/ c = b
    BY <1>1, <2>1, <2>3, RefundAssumption DEF SubmitPayment, HasProof
  <2>5. Paid' = Paid \cup {b}
    BY <2>1, <2>4 DEF Paid
  <2>6. Phases[b] # "free"
    BY <2>1, <2>2 DEF Phases, PhaseOf, Exists, Blocking
  <2>7. Phases' = Phases /\ Times' = Times
    BY <1>1 DEF SubmitPayment, marketVars, requestVars, bookingVars, Phases, Times
  <2>8. Calendar!Pay(b)
    BY <2>5, <2>6, <2>7 DEF Calendar!Pay, Paid, Phases, Times
  <2>9. QED
    BY <2>1, <2>8 DEF Calendar!Next
<1>2. CASE UNCHANGED subBooking
  <2>1. Paid' = Paid
    BY <1>2 DEF Paid, HasProof
  <2>2. \A q \in CoachRequest : status[q] # "NONE" => session'[q] = session[q]
    BY RowsStay DEF RowsExist
  <2>3. ASSUME NEW q \in CoachRequest, NEW c \in Coach, Acceptance(q, c)
        PROVE  Calendar!Next
    <3>1. PICK s \in TimesOfCoaches : s = TimeOf(c, session[q])
      BY <2>3 DEF Acceptance, MayServe, SessionsAreGiven, TimesOfCoaches
    <3>2. Phases' = [Phases EXCEPT ![q] = "tentative"] /\ Phases[q] = "free"
      BY <2>3 DEF Acceptance, Phases, PhaseOf
    <3>3. Times' = [Times EXCEPT ![q] = s]
      BY <2>3, <3>1 DEF Acceptance, Times
    <3>4. Calendar!Available(q, s)
      BY <2>3, <3>1, AllowedIsAvailable DEF Acceptance
    <3>5. Calendar!Reserve(q, s)
      BY <2>1, <3>2, <3>3, <3>4 DEF Calendar!Reserve, Paid, Phases, Times
    <3>6. QED
      BY <3>5 DEF Calendar!Next
  <2>4. CASE CompletePastBookings
    <3> DEFINE B == {q \in CoachRequest : Past(q)}
    <3>1. Phases' = [q \in CoachRequest |-> IF q \in B THEN "released" ELSE Phases[q]]
      BY <2>4 DEF CompletePastBookings, Phases, PhaseOf, Blocking
    <3>2. Times' = Times
      BY <2>4 DEF CompletePastBookings, Past, Times, bookingVars, requestVars
    <3>3. \A q \in B : Calendar!Live(q)
      BY LiveMeansBlocking DEF Past, Blocking
    <3>4. Calendar!Release(B)
      BY <2>1, <3>1, <3>2, <3>3 DEF Calendar!Release, Paid, Phases, Times
    <3>5. B \in SUBSET CoachRequest
      OBVIOUS
    <3>6. QED
      BY <3>4, <3>5 DEF Calendar!Next
  <2>5. CASE UNCHANGED <<status, bookingVars>>
    <3>1. Phases' = Phases /\ Times' = Times
      BY <2>2, <2>5 DEF Phases, Times, bookingVars
    <3>2. QED
      BY <2>1, <3>1 DEF Calendar!vars, Paid, Phases, Times
  <2>6. QED
    BY <1>2, <2>3, <2>4, <2>5, RefinementWrite, StepBookingEffect DEF BookingEffect
<1>3. QED
  BY <1>1, <1>2, OnlySubmitPaymentInserts

(* Coaching implements the calendar that court booking implements: every   *)
(* commit of a handler or of the completion job is a reservation of the    *)
(* coach, a payment, a securing or a release, or is invisible there.       *)
THEOREM Refinement == Spec => CalendarSpec
BY RefinementInit, RefinementStep, Invariance, SessionsGiven, PTL
   DEF Spec, CalendarSpec, Calendar!Spec

---------------------------------------------------------------------------
(* A session is some coach's, and only a directed request is answered, so  *)
(* one that is open to all stays matched once it is booked.                *)
OpenIsUnbooked ==
  /\ \A q \in CoachRequest : requested[q] = "PENDING_COACH" => target[q] # None
  /\ \A h \in Handler : mem[h].at = "answerRequest" => target[mem[h].request] # None
  /\ \A q \in CoachRequest : target[q] = None /\ status[q] # "NONE" => requested[q] = "MATCHED"
  /\ \A q \in CoachRequest : status[q] # "NONE" => coach[q] \in Coach

(* A handler comes to an answer from the check of that answer.             *)
LEMMA AnswersAreChecked ==
  ASSUME TypeOK, [Next]_vars, NEW h \in Handler, mem'[h].at = "answerRequest"
  PROVE  \/ mem'[h] = mem[h]
         \/ \E q \in CoachRequest, answer \in {"OPEN", "DECLINED"} : AnswerRequest(h, q, answer)
<1> USE DEF TypeOK
<1>1. ASSUME NEW k \in Handler, NEW state, Remember(k, state), state.at # "answerRequest"
      PROVE  mem'[h] = mem[h]
  BY <1>1 DEF Remember
<1>2. ASSUME NEW k \in Handler, Finish(k)
      PROVE  mem'[h] = mem[h]
  BY <1>1, <1>2 DEF Finish, Idle
<1>3. ASSUME NEW k \in Handler, NEW q \in CoachRequest, NEW answer \in {"OPEN", "DECLINED"},
             AnswerRequest(k, q, answer)
      PROVE  mem'[h] = mem[h] \/ AnswerRequest(h, q, answer)
  BY <1>3 DEF AnswerRequest, Remember
<1>4. ASSUME NEW k \in Handler, ReadStatus(k)
      PROVE  mem'[h] = mem[h]
  <2>1. [mem[k] EXCEPT !.at = "writeStatus"].at = "writeStatus"
    BY <1>4, MemShape DEF ReadStatus, StatusMem
  <2>2. QED
    BY <1>1, <1>4, <2>1 DEF ReadStatus
<1>5. CASE MarketStep
  BY <1>1, <1>2, <1>3, <1>5
     DEF MarketStep, CreateRequest, UpdateRequestStatus, CheckOffer, CreateOffer,
         CheckAcceptance, AcceptOffer, Abort, Tick
<1>6. ASSUME NEW k \in Handler, SessionStep(k)
      PROVE  mem'[h] = mem[h]
  BY <1>1, <1>2, <1>4, <1>6
     DEF SessionStep, RefundStep, SubmitProof, SubmitPayment, DecidePayment,
         TransitionStatus, RequestRefund, CreateRefundRequest, DecideRefund,
         ApplyRefundDecision, CheckRefundApproved, CompleteRefund, CancelByCoach, CoachCancel
<1>7. QED
  BY <1>5, <1>6 DEF Next, vars, CompletePastBookings

LEMMA StepOpenIsUnbooked ==
  ASSUME TypeOK, RowsExist, ReadsStillHold, OpenIsUnbooked, [Next]_vars
  PROVE  OpenIsUnbooked'
<1> USE DEF TypeOK, MarketTypeOK
<1>1. \A q \in CoachRequest : requested[q] # "NONE" => target'[q] = target[q]
  BY StepRequestEffect DEF RequestEffect, requestVars, CreateRequest, Acceptance
<1>2. ASSUME NEW q \in CoachRequest, requested'[q] = "PENDING_COACH"
      PROVE  target'[q] # None
  BY <1>2, StepRequestEffect, MarketAssumption
     DEF RequestEffect, requestVars, CreateRequest, Acceptance, OpenIsUnbooked
<1>3. ASSUME NEW h \in Handler, mem'[h].at = "answerRequest"
      PROVE  target'[mem'[h].request] # None
  <2>1. CASE mem'[h] = mem[h]
    <3>1. mem[h].request \in CoachRequest /\ requested[mem[h].request] # "NONE"
      BY <1>3, <2>1, MemShape DEF AnswerMem, ReadsStillHold, StillHolds
    <3>2. QED
      BY <1>1, <1>3, <2>1, <3>1 DEF OpenIsUnbooked
  <2>2. ASSUME NEW q \in CoachRequest, NEW answer \in {"OPEN", "DECLINED"},
               AnswerRequest(h, q, answer)
        PROVE  target'[mem'[h].request] # None
    <3>1. mem'[h].request = q /\ requested[q] = "PENDING_COACH"
      BY <2>2 DEF AnswerRequest, MayAnswer, Remember
    <3>2. QED
      BY <1>1, <3>1 DEF OpenIsUnbooked
  <2>3. QED
    BY <1>3, <2>1, <2>2, AnswersAreChecked
<1>4. ASSUME NEW q \in CoachRequest, target'[q] = None, status'[q] # "NONE"
      PROVE  requested'[q] = "MATCHED"
  <2>1. ASSUME NEW p \in CoachRequest, NEW c \in Coach, Acceptance(p, c)
        PROVE  requested'[q] = "MATCHED"
    BY <1>4, <2>1 DEF Acceptance, OpenIsUnbooked
  <2>2. CASE ~ \E p \in CoachRequest, c \in Coach : Acceptance(p, c)
    <3>1. status[q] # "NONE"
      BY <1>4, <2>2, StepBookingEffect
         DEF BookingEffect, WriteStatus, Exists, CompletePastBookings, Past
    <3>2. requested[q] # "NONE"
      BY <3>1 DEF RowsExist
    <3>3. requested[q] = "MATCHED" /\ target[q] = None
      BY <1>1, <1>4, <3>1, <3>2 DEF OpenIsUnbooked
    <3>4. QED
      BY <2>2, <3>3, StepRequestEffect
         DEF RequestEffect, requestVars, CreateRequest, OpenIsUnbooked
  <2>3. QED
    BY <2>1, <2>2
<1>5. ASSUME NEW q \in CoachRequest, status'[q] # "NONE"
      PROVE  coach'[q] \in Coach
  BY <1>5, StepBookingEffect
     DEF BookingEffect, bookingVars, Acceptance, WriteStatus, Exists, CompletePastBookings, Past,
         OpenIsUnbooked
<1>6. QED
  BY <1>2, <1>3, <1>4, <1>5 DEF OpenIsUnbooked

LEMMA OpenUnbooked == Spec => []OpenIsUnbooked
<1>1. Init => OpenIsUnbooked
  BY DEF Init, MarketInit, OpenIsUnbooked, Idle
<1>2. Inv /\ OpenIsUnbooked /\ [Next]_vars => OpenIsUnbooked'
  BY StepOpenIsUnbooked DEF Inv
<1>3. QED
  BY <1>1, <1>2, Invariance, PTL DEF Spec

---------------------------------------------------------------------------
(* The pages.                                                              *)

(* The beginning of a session is a time.                                   *)
LEMMA SessionBegins ==
  ASSUME TypeOK, SessionsAreGiven, NEW q \in CoachRequest, requested[q] # "NONE"
  PROVE  session[q].from \in Nat
BY MarketAssumption DEF TypeOK, MarketTypeOK, SessionsAreGiven

(* A list that takes its first n rows leaves none out of n or fewer.       *)
LEMMA ShortListIsWhole ==
  ASSUME NEW rows \in SUBSET CoachRequest, NEW n \in Nat, NEW L \in FirstRows(rows, n),
         ~(Cardinality(rows) > n)
  PROVE  L = rows
<1>1. IsFiniteSet(rows)
  BY PageAssumption, FS_Subset
<1>2. Cardinality(rows) \in Nat
  BY <1>1, FS_CardinalityType
<1>3. L \in SUBSET rows /\ Cardinality(L) = Cardinality(rows)
  BY <1>2 DEF FirstRows, LesserOf
<1>4. QED
  BY <1>1, <1>3, FS_Subset

(* A session that blocks its coach may be written back to a status that    *)
(* does: the constraint is met already.                                    *)
LEMMA BlockingIsAllowed ==
  ASSUME NoCoachDoubleBooking, NEW q \in CoachRequest, status[q] \in Blocking
  PROVE  ExclusionAllows(q, coach[q])
BY DEF NoCoachDoubleBooking, ExclusionAllows, Clash

(* An open request with an offer to accept is not booked: if it is open to *)
(* all, booking would have matched it; if it is directed, the only offer   *)
(* there can be would be the accepted one.                                 *)
LEMMA OpenOfferIsUnbooked ==
  ASSUME TypeOK, AcceptedOfferIsBooked, OffersNeedApproval, OpenIsUnbooked,
         NEW q \in CoachRequest, NEW c \in Coach,
         requested[q] = "OPEN", offer[<<q, c>>] = "ACTIVE"
  PROVE  status[q] = "NONE"
<1> SUFFICES ASSUME status[q] # "NONE" PROVE FALSE
  OBVIOUS
<1>1. target[q] = c
  BY DEF OffersNeedApproval, OpenIsUnbooked
<1>2. PICK d \in Coach : offer[<<q, d>>] = "ACCEPTED"
  BY DEF AcceptedOfferIsBooked, OpenIsUnbooked
<1>3. d = c
  BY <1>1, <1>2, MarketAssumption DEF OffersNeedApproval
<1>4. QED
  BY <1>2, <1>3

(* The player's buttons: only the time refuses one, or a coach who is      *)
(* booked.                                                                 *)
LEMMA PlayerButtonsWork ==
  ASSUME Inv, SessionsAreGiven, OpenIsUnbooked,
         NEW q \in CoachRequest, NEW b \in PlayerCoaching(q)
  PROVE  Works(b) \/ TooLate(b) \/ CoachTaken(b)
<1> USE DEF Inv, TypeOK, MarketTypeOK
<1>1. ASSUME NEW c \in Coach, b = Button("acceptOffer", q, c),
             requested[q] = "OPEN", offer[<<q, c>>] = "ACTIVE"
      PROVE  Works(b) \/ TooLate(b) \/ CoachTaken(b)
  <2>1. expires[<<q, c>>] \in Nat
    BY DEF Offer
  <2>2. now < expires[<<q, c>>] \/ now >= expires[<<q, c>>]
    BY <2>1
  <2>3. status[q] = "NONE"
    BY <1>1, OpenOfferIsUnbooked
  <2>4. b.do = "acceptOffer" /\ b.request = q /\ b.coach = c
    BY <1>1 DEF Button
  <2>5. QED
    BY <1>1, <2>2, <2>3, <2>4 DEF Works, TooLate, CoachTaken, MayAccept
<1>2. ASSUME b = Button("uploadProof", q, coach[q]), status[q] = "HELD"
      PROVE  Works(b) \/ TooLate(b)
  <2>1. now <= deadline[q] \/ now > deadline[q]
    OBVIOUS
  <2>2. ExclusionAllows(q, coach[q])
    BY <1>2, BlockingIsAllowed DEF Blocking
  <2>3. b.do = "uploadProof" /\ b.request = q
    BY <1>2 DEF Button
  <2>4. QED
    BY <1>2, <2>1, <2>2, <2>3 DEF Works, TooLate, MaySubmitProof
<1>3. ASSUME b = Button("requestRefund", q, coach[q]), status[q] = "CONFIRMED"
      PROVE  Works(b) \/ TooLate(b)
  <2>1. session[q].from \in Nat
    BY <1>3, SessionBegins DEF RowsExist
  <2>2. now + RefundWindow <= session[q].from \/ now + RefundWindow > session[q].from
    BY <2>1, RefundAssumption
  <2>3. QED
    BY <1>3, <2>2 DEF Works, TooLate, Button, MayRequestRefund
<1>4. QED
  BY <1>1, <1>2, <1>3 DEF PlayerCoaching, AcceptButtons, ProofForm, RefundButton

(* The coach's: also the direction of a job, or an offer made before.      *)
LEMMA CoachButtonsWork ==
  ASSUME Inv, SessionsAreGiven,
         NEW c \in Coach, NEW D \in DirectedPendingForCoach(c), NEW J \in OpenRequests,
         NEW L \in BookingsForCoach(c), NEW b \in Workspace(c, D, J, L)
  PROVE  Works(b) \/ TooLate(b) \/ Misdirected(b) \/ AlreadyOffered(b)
<1> USE DEF Inv, TypeOK, MarketTypeOK
<1>0. L \subseteq CoachRequest /\ J \subseteq CoachRequest /\ D \subseteq CoachRequest
  BY DEF BookingsForCoach, SessionsOf, OpenRequests, DirectedPendingForCoach, PendingFor, FirstRows
<1>1. ASSUME NEW q \in CoachRequest, NEW do \in {"approveRequest", "declineRequest"},
             b = Button(do, q, c), requested[q] = "PENDING_COACH"
      PROVE  Works(b)
  BY <1>1 DEF Works, Button, MayAnswer
<1>2. ASSUME NEW q \in CoachRequest, b = Button("offer", q, c), requested[q] = "OPEN"
      PROVE  Works(b) \/ TooLate(b) \/ Misdirected(b) \/ AlreadyOffered(b)
  <2>0. b.do = "offer" /\ b.request = q /\ b.coach = c
    BY <1>2 DEF Button
  <2>1. session[q].from \in Nat
    BY <1>2, SessionBegins
  <2>2. CASE now >= session[q].from
    BY <2>0, <2>2 DEF TooLate
  <2>3. CASE target[q] \notin {None, c}
    BY <2>0, <2>3 DEF Misdirected
  <2>4. CASE offer[<<q, c>>] # "NONE"
    BY <2>0, <2>4 DEF AlreadyOffered
  <2>5. CASE now < session[q].from /\ target[q] \in {None, c} /\ offer[<<q, c>>] = "NONE"
    <3>1. MayOfferUntil(q, c, session[q].from)
      BY <1>2, <2>1, <2>5 DEF MayOfferUntil, MayOffer
    <3>2. session[q].from \in 0 .. session[q].from
      BY <2>1
    <3>3. QED
      BY <2>0, <2>5, <3>1, <3>2 DEF Works
  <2>6. QED
    BY <2>1, <2>2, <2>3, <2>4, <2>5
<1>3. ASSUME NEW q \in CoachRequest, NEW do \in {"approveProof", "rejectProof"},
             b = Button(do, q, c), status[q] = "PROOF_SUBMITTED", HasProof(q)
      PROVE  Works(b)
  <2>1. PICK p \in Ref : subBooking[p] = q
    BY <1>3 DEF HasProof
  <2>2. MayDecidePayment(q, p)
    BY <1>3, <2>1, RefundAssumption DEF MayDecidePayment, RowsExist
  <2>3. ExclusionAllows(q, coach[q])
    BY <1>3, BlockingIsAllowed DEF Blocking
  <2>4. b.do \in {"approveProof", "rejectProof"} /\ b.request = q
    BY <1>3 DEF Button
  <2>5. QED
    BY <1>3, <2>1, <2>2, <2>3, <2>4 DEF Works
<1>4. ASSUME NEW q \in CoachRequest, b = Button("cancel", q, c), status[q] = "CONFIRMED"
      PROVE  Works(b)
  BY <1>4 DEF Works, Button, MayCancel
<1>5. CASE b \in DirectedButtons(c, D)
  BY <1>0, <1>1, <1>5 DEF DirectedButtons, DirectedPendingForCoach, PendingFor, FirstRows
<1>6. CASE b \in JobForms(c, J)
  BY <1>0, <1>2, <1>6 DEF JobForms, OpenRequests, FirstRows
<1>7. CASE b \in ReviewButtons(c, L)
  BY <1>0, <1>3, <1>7 DEF ReviewButtons
<1>8. CASE b \in CancelButtons(c, L)
  BY <1>0, <1>4, <1>8 DEF CancelButtons
<1>9. QED
  BY <1>5, <1>6, <1>7, <1>8 DEF Workspace

(* What waits for the coach has its buttons, unless its list is cut off.   *)
LEMMA CoachIsAsked ==
  ASSUME SessionNeedsProof,
         NEW c \in Coach, NEW D \in DirectedPendingForCoach(c), NEW J \in OpenRequests,
         NEW L \in BookingsForCoach(c), NEW q \in CoachRequest
  PROVE  /\ requested[q] = "PENDING_COACH" /\ target[q] = c =>
              \/ Buttons({"approveRequest", "declineRequest"}, q, c) \subseteq Workspace(c, D, J, L)
              \/ Cardinality(PendingFor(c)) > PageRows
         /\ status[q] = "PROOF_SUBMITTED" /\ coach[q] = c =>
              \/ Buttons({"approveProof", "rejectProof"}, q, c) \subseteq Workspace(c, D, J, L)
              \/ Cardinality(SessionsOf(c)) > PageRows
<1>1. ASSUME requested[q] = "PENDING_COACH", target[q] = c, ~(Cardinality(PendingFor(c)) > PageRows)
      PROVE  Buttons({"approveRequest", "declineRequest"}, q, c) \subseteq Workspace(c, D, J, L)
  <2>1. D = PendingFor(c)
    BY <1>1, PageAssumption, ShortListIsWhole DEF DirectedPendingForCoach, PendingFor
  <2>2. q \in D
    BY <1>1, <2>1 DEF PendingFor
  <2>3. QED
    BY <2>2 DEF Buttons, DirectedButtons, Workspace
<1>2. ASSUME status[q] = "PROOF_SUBMITTED", coach[q] = c, ~(Cardinality(SessionsOf(c)) > PageRows)
      PROVE  Buttons({"approveProof", "rejectProof"}, q, c) \subseteq Workspace(c, D, J, L)
  <2>1. L = SessionsOf(c)
    BY <1>2, PageAssumption, ShortListIsWhole DEF BookingsForCoach, SessionsOf
  <2>2. q \in L /\ HasProof(q)
    BY <1>2, <2>1 DEF SessionsOf, SessionNeedsProof
  <2>3. QED
    BY <1>2, <2>2 DEF Buttons, ReviewButtons, Workspace
<1>3. QED
  BY <1>1, <1>2

(* A hold has its form on the player's page, unless the list is cut off.   *)
LEMMA PlayerIsAsked ==
  ASSUME NEW mine \in RequestsOfAPlayer, NEW L \in RequestsForPlayer(mine),
         NEW q \in mine, status[q] = "HELD"
  PROVE  \/ q \in L /\ Button("uploadProof", q, coach[q]) \in PlayerCoaching(q)
         \/ Cardinality(mine) > PageRows
<1>1. ~(Cardinality(mine) > PageRows) => L = mine
  BY PageAssumption, ShortListIsWhole DEF RequestsOfAPlayer, RequestsForPlayer
<1>2. QED
  BY <1>1 DEF PlayerCoaching, ProofForm

(* A fresh page offers nothing the service refuses but for the time, the   *)
(* direction or repetition of an offer, or a coach who is booked, and      *)
(* shows what waits unless a list is cut off (PagesFollowTheService).      *)
THEOREM CoachPagesFollow == Spec => []PagesFollowTheService
<1>1. ASSUME Inv, SessionsAreGiven, OpenIsUnbooked
      PROVE  PagesFollowTheService
  <2>1. ASSUME NEW mine \in RequestsOfAPlayer, NEW L \in RequestsForPlayer(mine), NEW q \in L
        PROVE  q \in CoachRequest
    BY DEF RequestsOfAPlayer, RequestsForPlayer, FirstRows
  <2>2. SessionNeedsProof
    BY <1>1 DEF Inv
  <2>3. QED
    BY <1>1, <2>1, <2>2, PlayerButtonsWork, PlayerIsAsked, CoachButtonsWork, CoachIsAsked
       DEF PagesFollowTheService
<1>2. QED
  BY <1>1, Invariance, SessionsGiven, OpenUnbooked, PTL

=============================================================================
