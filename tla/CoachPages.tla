------------------------------ MODULE CoachPages ------------------------------
(***************************************************************************)
(* The pages of coaches and players (apps/web/components/coach-workspace,  *)
(* player-coaching) over the rows of CoachSession.  They keep nothing but  *)
(* the lists the server rendered them with: a button exists or not by what *)
(* a list says of a row, each call ends in a reload of the lists, and what *)
(* has no button cannot be done from the web.  So a page is an operator of *)
(* the tables: the buttons a fresh page shows.                             *)
(***************************************************************************)
EXTENDS CoachSession, FiniteSets

CONSTANTS
  PageRows,  \* rows a list of requests or sessions takes: 100
  JobRows    \* rows the list of open jobs takes: 50

ASSUME PageAssumption ==
  PageRows \in Nat \ {0} /\ JobRows \in Nat \ {0} /\ IsFiniteSet(CoachRequest)

Button(do, q, c) == [do |-> do, request |-> q, coach |-> c]

---------------------------------------------------------------------------
(* The lists.  The requests have no times here, so the newest of them may  *)
(* be any.                                                                 *)

LesserOf(m, n) == IF m < n THEN m ELSE n

(* What a query with take: n may return of its rows.                       *)
FirstRows(rows, n) ==
  {L \in SUBSET rows : Cardinality(L) = LesserOf(Cardinality(rows), n)}

PendingFor(c) == {q \in CoachRequest : requested[q] = "PENDING_COACH" /\ target[q] = c}
DirectedPendingForCoach(c) == FirstRows(PendingFor(c), PageRows)

(* Open jobs are listed to every coach, whoever they are directed at.      *)
OpenRequests == FirstRows({q \in CoachRequest : requested[q] = "OPEN"}, JobRows)

(* The sessions of a coach that begin first, whatever became of them.      *)
SessionsOf(c) == {q \in CoachRequest : status[q] # "NONE" /\ coach[q] = c}
BookingsForCoach(c) ==
  {L \in FirstRows(SessionsOf(c), PageRows) :
     \A q \in L, p \in SessionsOf(c) \ L : session[q].from <= session[p].from}

(* The requests some one player may have made, and the page's list of them.*)
RequestsOfAPlayer == SUBSET {q \in CoachRequest : requested[q] # "NONE"}
RequestsForPlayer(mine) == FirstRows(mine, PageRows)

---------------------------------------------------------------------------
(* The coach's page *)

DirectedButtons(c, directed) ==
  {Button(do, q, c) : do \in {"approveRequest", "declineRequest"}, q \in directed}

JobForms(c, jobs) == {Button("offer", q, c) : q \in jobs}

(* Mutant: a proof can be reviewed once its submission says PENDING.       *)
ReviewButtonsOfPending(c, L) ==
  {Button(do, q, c) : do \in {"approveProof", "rejectProof"},
                      q \in {q \in L : /\ status[q] = "PROOF_SUBMITTED"
                                       /\ \E p \in Ref : subBooking[p] = q /\ subStatus[p] = "PENDING"}}

ReviewButtons(c, L) ==
  {Button(do, q, c) : do \in {"approveProof", "rejectProof"},
                      q \in {q \in L : status[q] = "PROOF_SUBMITTED" /\ HasProof(q)}}

CancelButtons(c, L) ==
  {Button("cancel", q, c) : q \in {q \in L : status[q] = "CONFIRMED"}}

Workspace(c, directed, jobs, L) ==
  DirectedButtons(c, directed) \cup JobForms(c, jobs)
    \cup ReviewButtons(c, L) \cup CancelButtons(c, L)

(* What a player's page shows of request q.                                *)
AcceptButtons(q) ==
  {Button("acceptOffer", q, c) : c \in {c \in Coach : requested[q] = "OPEN" /\ offer[<<q, c>>] = "ACTIVE"}}

ProofForm(q) == {Button("uploadProof", q, coach[q]) : s \in {status[q]} \cap {"HELD"}}

RefundButton(q) == {Button("requestRefund", q, coach[q]) : s \in {status[q]} \cap {"CONFIRMED"}}

PlayerCoaching(q) == AcceptButtons(q) \cup ProofForm(q) \cup RefundButton(q)

---------------------------------------------------------------------------
(* What the handler that a button calls asks of the tables and the clock,  *)
(* down to the unique keys and the constraint its writes meet; the form of *)
(* an offer says when it expires, that of a proof names a reference nobody *)
(* used, and a decision on a proof is followed by a transition from        *)
(* PROOF_SUBMITTED.                                                        *)
Works(b) ==
  LET q == b.request
      c == b.coach
  IN \/ b.do \in {"approveRequest", "declineRequest"} /\ MayAnswer(q)
     \/ /\ b.do = "offer"
        /\ \E e \in 0 .. session[q].from : MayOfferUntil(q, c, e)
        /\ offer[<<q, c>>] = "NONE"
     \/ /\ b.do = "acceptOffer"
        /\ MayAccept(q, c)
        /\ status[q] = "NONE" /\ ExclusionAllows(q, c)
     \/ b.do = "uploadProof" /\ MaySubmitProof(q) /\ ExclusionAllows(q, coach[q])
     \/ /\ b.do \in {"approveProof", "rejectProof"}
        /\ \E p \in Ref : subBooking[p] = q /\ MayDecidePayment(q, p)
        /\ status[q] = "PROOF_SUBMITTED"
        /\ b.do = "approveProof" => ExclusionAllows(q, coach[q])
     \/ b.do = "requestRefund" /\ MayRequestRefund(q)
     \/ b.do = "cancel" /\ MayCancel(q)

---------------------------------------------------------------------------
(* No page tells the time: a button stays when its time is over.           *)
TooLate(b) ==
  LET q == b.request
  IN \/ b.do = "offer" /\ now >= session[q].from
     \/ b.do = "acceptOffer" /\ now >= expires[<<q, b.coach>>]
     \/ b.do = "uploadProof" /\ now > deadline[q]
     \/ b.do = "requestRefund" /\ now + RefundWindow > session[q].from

(* The jobs of a coach include those directed at another, and those the    *)
(* coach has an offer on already.                                          *)
Misdirected(b) == b.do = "offer" /\ target[b.request] \notin {None, b.coach}
AlreadyOffered(b) == b.do = "offer" /\ offer[<<b.request, b.coach>>] # "NONE"

(* The coach of an offer was booked for that time by somebody else.        *)
CoachTaken(b) == b.do = "acceptOffer" /\ ~ExclusionAllows(b.request, b.coach)

Buttons(dos, q, c) == {Button(do, q, c) : do \in dos}

(* The pages and the service agree.  A button on a fresh page is refused   *)
(* for nothing but the time, a job directed at another coach or offered on *)
(* before, or an offer whose coach is taken: never because its request or  *)
(* session is in the wrong state or has its one booking already, although  *)
(* answers, offers and acceptances overlap.  And what waits has its button *)
(* also after a handler died between two of its commits: the answer to a   *)
(* directed request, the decision on a proof, the proof of a hold; it is   *)
(* missing only when the query has more rows than the list takes.  (A      *)
(* refund that was asked for waits too, but no page of the web answers it.)*)
PagesFollowTheService ==
  /\ \A mine \in RequestsOfAPlayer : \A L \in RequestsForPlayer(mine) :
       /\ \A q \in L : \A b \in PlayerCoaching(q) : Works(b) \/ TooLate(b) \/ CoachTaken(b)
       /\ \A q \in mine : status[q] = "HELD" =>
            \/ q \in L /\ Button("uploadProof", q, coach[q]) \in PlayerCoaching(q)
            \/ Cardinality(mine) > PageRows
  /\ \A c \in Coach :
       \A D \in DirectedPendingForCoach(c), J \in OpenRequests, L \in BookingsForCoach(c) :
         LET page == Workspace(c, D, J, L)
         IN /\ \A b \in page : Works(b) \/ TooLate(b) \/ Misdirected(b) \/ AlreadyOffered(b)
            /\ \A q \in CoachRequest :
                 /\ requested[q] = "PENDING_COACH" /\ target[q] = c =>
                      \/ Buttons({"approveRequest", "declineRequest"}, q, c) \subseteq page
                      \/ Cardinality(PendingFor(c)) > PageRows
                 /\ status[q] = "PROOF_SUBMITTED" /\ coach[q] = c =>
                      \/ Buttons({"approveProof", "rejectProof"}, q, c) \subseteq page
                      \/ Cardinality(SessionsOf(c)) > PageRows

=============================================================================
