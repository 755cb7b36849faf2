SPECIFICATION Spec
CONSTANTS
  CoachRequest = {q1, q2}
  Coach = {c1, c2}
  Session <- OneSession
  Handler = {h1, h2}
  Ref = {p1}
  Refund = {f1}
  None = None
  HoldDuration = 0
  RefundWindow = 1
  MaxTime = 3
  PageRows = 1
  JobRows = 1
INVARIANTS
  PagesFollowTheService
  NoCoachDoubleBooking
  PaymentsBehindSessions
  AcceptedOfferIsBooked
  OffersNeedApproval
PROPERTIES
  CalendarSpec
SYMMETRY Symmetry
CHECK_DEADLOCK FALSE
