------------------------------ MODULE CoachMarket ------------------------------
(***************************************************************************)
(* The coach marketplace (apps/api/src/coaches): coaching requests, the    *)
(* coach's answer to a directed one, priced offers, and the acceptance     *)
(* that closes the competitors and creates the coach booking.  As in       *)
(* CourtBooking a handler is split where it uses what it read after others *)
(* may have committed.  A booking is named by its request, an offer by its *)
(* request and coach: both are unique in the schema.  CoachSession adds    *)
(* what happens to the booking afterwards and holds the specification.     *)
(***************************************************************************)
EXTENDS Naturals

CONSTANTS
  CoachRequest,  \* rows of coach_requests that may come to exist
  Coach,         \* coach profiles
  Session,       \* [from, to] intervals a player may ask for
  Handler,       \* API requests in flight at one time
  None,          \* NULL
  HoldDuration,  \* COACH_HOLD_MS
  MaxTime        \* bound on the clock

ASSUME MarketAssumption ==
  /\ Session \subseteq [from : Nat, to : Nat]
  /\ \A s \in Session : s.from < s.to
  /\ None \notin Coach /\ None \notin Session
  /\ HoldDuration \in Nat /\ MaxTime \in Nat

VARIABLES
  now,
  requested,  \* coach_requests.status, "NONE" before the insert
  target,     \* coach_requests.targetCoachId
  session,    \* startsAt and endsAt of the request, copied to its booking
  offer,      \* coach_offers.status by request and coach
  expires,    \* coach_offers.expiresAt
  status,     \* coach_bookings.status by request, "NONE" before the insert
  coach,      \* coach_bookings.coachId
  deadline,   \* coach_bookings.proofDeadline
  mem         \* what each handler in flight remembers

requestVars == <<requested, target, session>>
offerVars == <<offer, expires>>
bookingVars == <<coach, deadline>>
marketVars == <<now, requestVars, offerVars, status, bookingVars>>

Offer == CoachRequest \X Coach

RequestStatus == {"NONE", "PENDING_COACH", "OPEN", "MATCHED", "DECLINED"}
OfferStatus == {"NONE", "ACTIVE", "ACCEPTED", "REJECTED"}
BookingStatus == {"NONE", "HELD", "PROOF_SUBMITTED", "CONFIRMED", "REJECTED",
                  "CANCELLED", "COMPLETED", "REFUND_REQUESTED"}

(* The statuses coach_bookings_no_active_overlap counts.                   *)
Blocking == {"HELD", "PROOF_SUBMITTED", "CONFIRMED"}

Idle == [at |-> "idle"]
AnswerMem == [at : {"answerRequest"}, request : CoachRequest, status : {"OPEN", "DECLINED"}]
OfferMem  == [at : {"createOffer"}, offer : Offer, expires : Nat]
AcceptMem == [at : {"acceptOffer"}, offer : Offer, deadline : Nat]
MarketMem == {Idle} \cup AnswerMem \cup OfferMem \cup AcceptMem

MarketTypeOK ==
  /\ now \in Nat
  /\ requested \in [CoachRequest -> RequestStatus]
  /\ target \in [CoachRequest -> Coach \cup {None}]
  /\ session \in [CoachRequest -> Session \cup {None}]
  /\ offer \in [Offer -> OfferStatus]
  /\ expires \in [Offer -> Nat]
  /\ status \in [CoachRequest -> BookingStatus]
  /\ coach \in [CoachRequest -> Coach \cup {None}]
  /\ deadline \in [CoachRequest -> Nat]

---------------------------------------------------------------------------
(* Two sessions meet on the half-open intervals of the constraint.         *)
Clash(s, t) == s.from < t.to /\ t.from < s.to

(* Mutant: the constraint has lost the coach's payment reviews.            *)
ExclusionOfHoldsOnly(q, c) ==
  \A p \in CoachRequest \ {q} :
    status[p] \in {"HELD", "CONFIRMED"} /\ coach[p] = c => ~Clash(session[p], session[q])

(* PostgreSQL refuses a blocking booking of coach c for request q while    *)
(* another blocking booking of c overlaps its session.                     *)
ExclusionAllows(q, c) ==
  \A p \in CoachRequest \ {q} :
    status[p] \in Blocking /\ coach[p] = c => ~Clash(session[p], session[q])

Remember(h, state) == mem' = [mem EXCEPT ![h] = state]
Finish(h) == Remember(h, Idle)

MarketInit ==
  /\ now = 0
  /\ requested = [q \in CoachRequest |-> "NONE"]
  /\ target = [q \in CoachRequest |-> None]
  /\ session = [q \in CoachRequest |-> None]
  /\ offer = [o \in Offer |-> "NONE"]
  /\ expires = [o \in Offer |-> 0]
  /\ status = [q \in CoachRequest |-> "NONE"]
  /\ coach = [q \in CoachRequest |-> None]
  /\ deadline = [q \in CoachRequest |-> 0]
  /\ mem = [h \in Handler |-> Idle]

---------------------------------------------------------------------------
(* Requests *)

(* createRequest: directed at one coach, or open to all.                   *)
CreateRequest(q, s, c) ==
  /\ requested[q] = "NONE"
  /\ requested' = [requested EXCEPT ![q] = IF c = None THEN "OPEN" ELSE "PENDING_COACH"]
  /\ target' = [target EXCEPT ![q] = c]
  /\ session' = [session EXCEPT ![q] = s]
  /\ UNCHANGED <<now, offerVars, status, bookingVars, mem>>

(* requirePendingDirectedRequest on behalf of the target coach, who means  *)
(* to approve or to decline.                                               *)
MayAnswer(q) == requested[q] = "PENDING_COACH"

AnswerRequest(h, q, answer) ==
  /\ mem[h] = Idle
  /\ MayAnswer(q)
  /\ Remember(h, [at |-> "answerRequest", request |-> q, status |-> answer])
  /\ UNCHANGED marketVars

(* updateRequestStatus: an update by id, whatever the status is by now.    *)
UpdateRequestStatus(h) ==
  /\ mem[h].at = "answerRequest"
  /\ requested' = [requested EXCEPT ![mem[h].request] = mem[h].status]
  /\ Finish(h)
  /\ UNCHANGED <<now, target, session, offerVars, status, bookingVars>>

---------------------------------------------------------------------------
(* Offers *)

(* Mutants: offers on requests the coach has not answered; offers by       *)
(* anyone on a directed request.                                           *)
OffersToAnyRequest(q, c) == requested[q] # "NONE" /\ target[q] \in {None, c}
MayOffer(q, c) == requested[q] = "OPEN" /\ target[q] \in {None, c}

(* An offer expires before the session it is for begins.                   *)
MayOfferUntil(q, c, e) == MayOffer(q, c) /\ now < e /\ e <= session[q].from

(* createOffer, the checks.                                                *)
CheckOffer(h, q, c, e) ==
  /\ mem[h] = Idle
  /\ MayOfferUntil(q, c, e)
  /\ Remember(h, [at |-> "createOffer", offer |-> <<q, c>>, expires |-> e])
  /\ UNCHANGED marketVars

(* The insert; one offer of a coach on a request.                          *)
CreateOffer(h) ==
  /\ mem[h].at = "createOffer"
  /\ offer[mem[h].offer] = "NONE"
  /\ offer' = [offer EXCEPT ![mem[h].offer] = "ACTIVE"]
  /\ expires' = [expires EXCEPT ![mem[h].offer] = mem[h].expires]
  /\ Finish(h)
  /\ UNCHANGED <<now, requestVars, status, bookingVars>>

MayAccept(q, c) ==
  offer[<<q, c>>] = "ACTIVE" /\ now < expires[<<q, c>>] /\ requested[q] = "OPEN"

(* acceptOffer by the player of the request, up to the reads of its        *)
(* transaction, which repeat the checks of the service.                    *)
CheckAcceptance(h, q, c) ==
  /\ mem[h] = Idle
  /\ MayAccept(q, c)
  /\ Remember(h, [at |-> "acceptOffer", offer |-> <<q, c>>, deadline |-> now + HoldDuration])
  /\ UNCHANGED marketVars

Accepted(q, c) ==
  [o \in Offer |-> IF o = <<q, c>> THEN "ACCEPTED"
                   ELSE IF o[1] = q /\ offer[o] = "ACTIVE" THEN "REJECTED" ELSE offer[o]]

(* Mutant: an upsert instead of the insert the unique request id guards.   *)
AcceptOfferAgain(h) ==
  /\ mem[h].at = "acceptOffer"
  /\ LET q == mem[h].offer[1]
         c == mem[h].offer[2]
     IN  /\ ExclusionAllows(q, c)
         /\ offer' = Accepted(q, c)
         /\ requested' = [requested EXCEPT ![q] = "MATCHED"]
         /\ status' = [status EXCEPT ![q] = "HELD"]
         /\ coach' = [coach EXCEPT ![q] = c]
         /\ deadline' = [deadline EXCEPT ![q] = mem[h].deadline]
  /\ Finish(h)
  /\ UNCHANGED <<now, target, session, expires>>

(* The writes and the commit of acceptOfferTransactionally.  The insert of *)
(* a second booking for the request, or of an overlapping one for the      *)
(* coach, rolls everything back.                                           *)
AcceptOffer(h) ==
  /\ mem[h].at = "acceptOffer"
  /\ LET q == mem[h].offer[1]
         c == mem[h].offer[2]
     IN  /\ status[q] = "NONE"
         /\ ExclusionAllows(q, c)
         /\ offer' = Accepted(q, c)
         /\ requested' = [requested EXCEPT ![q] = "MATCHED"]
         /\ status' = [status EXCEPT ![q] = "HELD"]
         /\ coach' = [coach EXCEPT ![q] = c]
         /\ deadline' = [deadline EXCEPT ![q] = mem[h].deadline]
  /\ Finish(h)
  /\ UNCHANGED <<now, target, session, expires>>

---------------------------------------------------------------------------
(* An error goes back to the client, or the process dies.                  *)
Abort(h) ==
  /\ mem[h] # Idle
  /\ Finish(h)
  /\ UNCHANGED marketVars

Tick ==
  /\ now < MaxTime
  /\ now' = now + 1
  /\ UNCHANGED <<requestVars, offerVars, status, bookingVars, mem>>

MarketStep ==
  \/ \E q \in CoachRequest, s \in Session, c \in Coach \cup {None} : CreateRequest(q, s, c)
  \/ \E h \in Handler :
       \/ \E q \in CoachRequest, answer \in {"OPEN", "DECLINED"} : AnswerRequest(h, q, answer)
       \/ \E q \in CoachRequest, c \in Coach :
            \/ \E e \in 0 .. MaxTime : CheckOffer(h, q, c, e)
            \/ CheckAcceptance(h, q, c)
       \/ UpdateRequestStatus(h)
       \/ CreateOffer(h)
       \/ AcceptOffer(h)
       \/ Abort(h)
  \/ Tick

---------------------------------------------------------------------------
(* Properties *)

(* Accepting an offer, closing its competitors and creating the booking    *)
(* are one: an accepted offer is the one its request is booked with, and   *)
(* an offer is only refused when another one is booked.  Two acceptances   *)
(* of one request that both passed their checks leave no trace of the      *)
(* loser, and a request is matched only if it is booked.                   *)
AcceptedOfferIsBooked ==
  /\ \A q \in CoachRequest, c \in Coach :
       /\ offer[<<q, c>>] = "ACCEPTED" <=> status[q] # "NONE" /\ coach[q] = c
       /\ offer[<<q, c>>] = "REJECTED" => status[q] # "NONE"
  /\ \A q \in CoachRequest : requested[q] = "MATCHED" => status[q] # "NONE"

(* No offer exists before the coach a request is directed at approved it,  *)
(* and none of another coach ever, although the approval, the decline and  *)
(* the offers are requests that overlap.                                   *)
OffersNeedApproval ==
  \A q \in CoachRequest, c \in Coach : offer[<<q, c>>] # "NONE" =>
    requested[q] \notin {"NONE", "PENDING_COACH"} /\ target[q] \in {None, c}

(* A coach is never held or confirmed for two sessions that overlap.       *)
NoCoachDoubleBooking ==
  \A p, q \in CoachRequest :
    /\ p # q
    /\ status[p] \in Blocking
    /\ status[q] \in Blocking
    /\ coach[p] = coach[q]
    => ~Clash(session[p], session[q])

=============================================================================
