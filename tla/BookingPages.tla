------------------------------ MODULE BookingPages ------------------------------
(***************************************************************************)
(* The pages over court bookings (apps/web/components/venue-queue,         *)
(* booking-list, review-form) and the players' reviews (apps/api/src/      *)
(* reviews), beside the handlers of CourtBooking.  A page keeps nothing    *)
(* but the list it was rendered with and reloads it after each call, so it *)
(* is an operator of the tables: the buttons a fresh page shows.  A        *)
(* booking's submission and refund on a page are its latest; the tables    *)
(* here have no times, so any of them may be.                              *)
(***************************************************************************)
EXTENDS CourtBooking, FiniteSets

CONSTANTS
  QueueRows,    \* rows of the venue's queue: 200
  PlayerRows,   \* rows of a player's list: 100
  MaxReviewers  \* bound on the review requests of one booking in flight

ASSUME PagesAssumption ==
  /\ QueueRows \in Nat \ {0} /\ PlayerRows \in Nat \ {0}
  /\ MaxReviewers \in Nat /\ IsFiniteSet(Booking)

VARIABLES
  reviewed,  \* bookings with a row in reviews
  reviewing  \* requests between the check and the insert of a review, by booking

ratingVars == <<reviewed, reviewing>>

PagesInit ==
  /\ Init
  /\ reviewed = {}
  /\ reviewing = [b \in Booking |-> 0]

---------------------------------------------------------------------------
(* Reviews *)

MayReview(b) == status[b] = "COMPLETED" /\ b \notin reviewed

(* reviewCourtBooking up to the repository call.                           *)
CheckReview(b) ==
  /\ MayReview(b)
  /\ reviewing[b] < MaxReviewers
  /\ reviewing' = [reviewing EXCEPT ![b] = @ + 1]
  /\ UNCHANGED <<vars, reviewed>>

(* The insert; reviews.courtBookingId is unique.                           *)
CreateCourtReview(b) ==
  /\ reviewing[b] > 0
  /\ b \notin reviewed
  /\ reviewed' = reviewed \cup {b}
  /\ reviewing' = [reviewing EXCEPT ![b] = @ - 1]
  /\ UNCHANGED vars

AbortReview(b) ==
  /\ reviewing[b] > 0
  /\ reviewing' = [reviewing EXCEPT ![b] = @ - 1]
  /\ UNCHANGED <<vars, reviewed>>

PagesNext ==
  \/ Next /\ UNCHANGED ratingVars
  \/ \E b \in Booking : CheckReview(b) \/ CreateCourtReview(b) \/ AbortReview(b)

PagesSpec == PagesInit /\ [][PagesNext]_<<vars, ratingVars>>

---------------------------------------------------------------------------
(* The lists *)

LesserOf(m, n) == IF m < n THEN m ELSE n

(* What a query with take: n may return of its rows.                       *)
FirstRows(rows, n) ==
  {L \in SUBSET rows : Cardinality(L) = LesserOf(Cardinality(rows), n)}

(* Mutant: the queue of the proofs alone.                                  *)
AwaitingProofReview == {b \in Booking : status[b] = "PROOF_SUBMITTED"}

AwaitingVenue == {b \in Booking : status[b] \in {"PROOF_SUBMITTED", "REFUND_REQUESTED"}}

(* listForVenues: the bookings that begin first.                           *)
QueueLists ==
  {L \in FirstRows(AwaitingVenue, QueueRows) :
     \A b \in L, c \in AwaitingVenue \ L : slot[b].from <= slot[c].from}

Submissions(b) == {p \in Ref : subBooking[p] = b}
Refunds(b) == {f \in Refund : refBooking[f] = b}

ReviewButtons(b) ==
  {[do |-> do, booking |-> b, row |-> p] : do \in {"approveProof", "rejectProof"},
     p \in {p \in Submissions(b) : status[b] = "PROOF_SUBMITTED"}}

RefundButtons(b) ==
  {[do |-> do, booking |-> b, row |-> f] : do \in {"approveRefund", "rejectRefund"},
     f \in {f \in Refunds(b) : status[b] = "REFUND_REQUESTED"}}

CancelButton(b) == [do |-> "cancel", booking |-> b, row |-> None]

VenueQueue(b) == ReviewButtons(b) \cup RefundButtons(b) \cup {CancelButton(b)}

(* The bookings some one player may have.                                  *)
BookingsOfAPlayer == SUBSET {b \in Booking : status[b] # "NONE"}

(* listForPlayer: the latest of a player's bookings mine.                  *)
PlayerLists(mine) == FirstRows(mine, PlayerRows)

(* The one form of a row of the player's list.                             *)
ReviewForms(b) ==
  {[do |-> "review", booking |-> b, row |-> None] :
     c \in {c \in {b} \ reviewed : status[c] = "COMPLETED"}}

---------------------------------------------------------------------------
(* What the handler that a button calls asks of the tables, down to the    *)
(* constraint on the status it writes; a decision on a proof is followed   *)
(* by a transition from PROOF_SUBMITTED.                                   *)
Works(x) ==
  \/ /\ x.do \in {"approveProof", "rejectProof"}
     /\ MayDecidePayment(x.booking, x.row)
     /\ status[x.booking] = "PROOF_SUBMITTED"
     /\ x.do = "approveProof" => ExclusionAllows(x.booking, slot[x.booking])
  \/ /\ x.do \in {"approveRefund", "rejectRefund"}
     /\ MayDecideRefund(x.row)
     /\ x.do = "rejectRefund" => ExclusionAllows(x.booking, slot[x.booking])
  \/ x.do = "cancel" /\ MayCancel(x.booking)

(* The staff can work off their queue: whatever the tables went through, a *)
(* booking that waits for them is in it, unless more wait than it takes; a *)
(* proof under review has its two buttons, and they work; so do those of a *)
(* refund request, unless the booking has another refund, which may be the *)
(* one on the page: then it can still be cancelled.  A player gets a form  *)
(* for exactly those rows of the list whose review passes the service's    *)
(* checks, and a booking that may be reviewed is missing from the list     *)
(* only when the player has more bookings than the list takes.             *)
PagesFollowTheService ==
  /\ \A L \in QueueLists :
       /\ \A b \in Booking :
            status[b] \in {"PROOF_SUBMITTED", "REFUND_REQUESTED"} =>
              b \in L \/ Cardinality(AwaitingVenue) > QueueRows
       /\ \A b \in L :
            /\ status[b] = "PROOF_SUBMITTED" =>
                 ReviewButtons(b) # {} /\ \A x \in ReviewButtons(b) : Works(x)
            /\ status[b] = "REFUND_REQUESTED" =>
                 /\ RefundButtons(b) # {}
                 /\ \/ \E f, g \in Refunds(b) : f # g
                    \/ \A x \in RefundButtons(b) : Works(x)
                 /\ Works(CancelButton(b))
  /\ \A mine \in BookingsOfAPlayer : \A L \in PlayerLists(mine) :
       /\ \A b \in L : ReviewForms(b) # {} <=> MayReview(b)
       /\ \A b \in mine : MayReview(b) =>
            b \in L \/ Cardinality(mine) > PlayerRows

=============================================================================
