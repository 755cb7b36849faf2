SPECIFICATION PagesSpec
CONSTANTS
  c1 = c1
  None = None
  Court = {c1}
  Booking = {b1, b2}
  Ref = {p1}
  Refund = {f1, f2}
  Request = {r1, r2}
  Slot <- Overlapping
  Closure <- OneClosure
  HoldDuration = 1
  RefundWindow = 0
  MaxTime = 2
  QueueRows = 1
  PlayerRows = 1
  MaxReviewers = 1
INVARIANTS
  NoDoubleBooking
  HoldsAvoidClosures
  ProofBehindProgress
  RefundsBehindBookings
  PagesFollowTheService
PROPERTIES
  CalendarSpec
SYMMETRY Symmetry
CHECK_DEADLOCK FALSE
