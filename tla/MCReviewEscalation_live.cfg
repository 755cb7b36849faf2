SPECIFICATION ReviewSpec
CONSTANTS
  c1 = c1
  None = None
  Court = {c1}
  Booking = {b1}
  Ref = {p1}
  Refund = {}
  Request = {r1}
  Slot <- OneSlot
  Closure <- NoClosure
  HoldDuration = 0
  RefundWindow = 1
  MaxTime = 3
  Session = {k1}
  Staff = {u1}
  CoachUser = {u2}
  Admin = {u1, u3}
  ReviewSla = 1
  BatchSize = 1
  MaxCrashes = 1
INVARIANTS
  NotifiedOnce
PROPERTIES
  AbandonedHoldFreesCourt
  PastBookingCompletes
  OverdueReviewEscalates
CHECK_DEADLOCK FALSE
